----------------------- MODULE MeetingOperationProofs -----------------------
(***************************************************************************)
(* Theorems about MeetingOperation, for any number of requests, workers,   *)
(* queued jobs, fields, attempts and faults.                               *)
(*                                                                         *)
(* The argument is who may touch what.  A running request has the lock and *)
(* a row nobody else can claim or let lapse.  A worker that has the lock   *)
(* works for the recorded operation, and whoever else owns the row then    *)
(* can only make it wait or hand it over, which leaves the operation       *)
(* recorded.  So the recorded operation changes by the hand of the holder  *)
(* of the lock alone.                                                      *)
(***************************************************************************)
EXTENDS MeetingOperation, TLAPS

\* A pending row has its operation and somebody to come back for it; any other
\* row is claimed by nobody and due for nothing.
RowShape ==
  /\ row.status \in {"active", "deleted"} =>
       row.opId = Null /\ row.opType = Null /\ row.payload = Null
  /\ row.status \in {"updating", "update_failed"} =>
       row.opId \in OpId /\ row.opType = "update" /\ row.payload \in Payload
  /\ row.status \in {"deleting", "delete_failed"} =>
       row.opId \in OpId /\ row.opType = "delete" /\ row.payload = Null
  /\ row.status \notin Pending => row.claim = Null /\ row.lease = Null /\ row.avail = Null
  /\ row.status \in Pending =>
       (row.lease # Null \/ row.avail # Null) /\ row.attempts < MaxAttempts
  /\ ClaimHasLease

\* Zoom shows what the recorded update asks for.
ZoomShowsUpdate == zoom # Absent /\ HasRequestedFields(row.payload, zoom)

\* A request that is under way.
Undisturbed(r) ==
  /\ lock = r
  /\ request[r].op = row.opId /\ request[r].type = row.opType
  /\ request[r].payload = row.payload
  /\ row.status \in Pending /\ row.claim = Null /\ row.lease = "live" /\ row.avail = Null
  /\ row.attempts = 0

RequestOK(r) ==
  /\ request[r].pc = "idle" => request[r] = NoRequest
  /\ request[r].pc # "idle" => Undisturbed(r)
  /\ request[r].pc = "calling" => ~reached
  /\ request[r].pc = "answered" =>
       /\ request[r].answer \in {"ok", "unknown", "limited", "rejected", "broken"}
       /\ request[r].answer = "limited" => ~reached
       /\ request[r].answer = "ok" =>
            IF request[r].type = "delete" THEN zoom = Absent ELSE ZoomShowsUpdate

Requests == \A r \in Request : RequestOK(r)

\* What a worker means to do at each point.
Goals(pc) ==
  CASE pc = "reading"    -> {Null}
    [] pc = "mismatched" -> {"patch"}
    [] pc = "locking"    -> {"patch", "delete", "snapshot", "gone"}
    [] pc = "calling"    -> {"patch", "delete"}
    [] pc = "settling"   -> {"snapshot", "apply", "gone", "verify", "retry", "review"}

IsUpdate(w) ==
  \/ worker[w].pc \in {"reading", "mismatched"}
  \/ worker[w].goal \in {"patch", "snapshot", "apply", "verify"}

\* The lock is needed to write, and to close the operation.
NeedsLock(w) ==
  \/ worker[w].pc = "calling"
  \/ worker[w].pc = "settling" /\ worker[w].goal \in {"snapshot", "apply", "gone"}

WorkerOK(w) ==
  /\ worker[w].pc = "idle" => worker[w] = NoRecovery
  /\ worker[w].pc # "idle" =>
       /\ worker[w].op \in OpId /\ worker[w].token \in Token
       /\ worker[w].goal \in Goals(worker[w].pc)
       /\ IsUpdate(w) => worker[w].payload \in Payload
       /\ worker[w].goal = "delete" => worker[w].payload = Null
       /\ worker[w].op = row.opId => worker[w].payload = row.payload
       /\ NeedsLock(w) => lock = w /\ worker[w].op = row.opId
       /\ worker[w].goal = "gone" => zoom = Absent
       /\ worker[w].goal = "apply" => ZoomShowsUpdate
       /\ worker[w].goal = "snapshot" /\ worker[w].op = row.opId =>
            ZoomShowsUpdate /\ worker[w].snapshot = zoom

Workers == \A w \in Worker : WorkerOK(w)

IInv == TypeOK /\ RowShape /\ Requests /\ Workers

-----------------------------------------------------------------------------
(* Lemmas about the helpers.                                               *)

\* The operation r records is recorded in n too.
Recorded(r, n) ==
  n.opId = r.opId /\ n.opType = r.opType /\ n.payload = r.payload /\ n.local = r.local

\* n is r once it has been released, with status s and retry time a.
Released(r, n, s, a) ==
  n.status = s /\ n.claim = Null /\ n.lease = Null /\ n.avail = a /\ n.attempts = r.attempts

LEMMA Forms ==
  ASSUME NEW r \in Row
  PROVE  /\ Waiting(r) \in Row /\ Recorded(r, Waiting(r))
         /\ Released(r, Waiting(r), r.status, "later")
  BY DEF Row, Waiting, Recorded, Released

LEMMA HandedOverForm ==
  ASSUME NEW r \in Row, NEW s \in {"active", "update_failed", "delete_failed", "deleted"}
  PROVE  /\ HandedOver(r, s) \in Row /\ Recorded(r, HandedOver(r, s))
         /\ Released(r, HandedOver(r, s), s, Null)
  BY DEF Row, HandedOver, Recorded, Released

LEMMA ClosedForm ==
  ASSUME NEW r \in Row, NEW s \in {"active", "deleted"}
  PROVE  LET n == Closed(r, s)
         IN  /\ n \in Row /\ Released(r, n, s, Null) /\ n.local = r.local
             /\ n.opId = Null /\ n.opType = Null /\ n.payload = Null
<1>. DEFINE h == HandedOver(r, s)
<1>1. h \in Row /\ Recorded(r, h) /\ Released(r, h, s, Null)
  BY HandedOverForm
<1>2. Closed(r, s) = [h EXCEPT !.opId = Null, !.opType = Null, !.payload = Null]
  BY DEF Closed
<1>. HIDE DEF h
<1>. QED BY <1>1, <1>2 DEF Row, Recorded, Released

LEMMA CountedForm ==
  ASSUME NEW n \in Row, n.attempts + 1 \in 0..MaxAttempts
  PROVE  LET m == [n EXCEPT !.attempts = @ + 1]
         IN  /\ m \in Row /\ Recorded(n, m) /\ m.status = n.status
             /\ m.claim = n.claim /\ m.lease = n.lease /\ m.avail = n.avail
             /\ m.attempts = n.attempts + 1
  BY DEF Row, Recorded

LEMMA UpdatedShows ==
  ASSUME NEW fields \in Fields, NEW payload \in Payload
  PROVE  /\ Updated(fields, payload) \in Fields
         /\ HasRequestedFields(payload, Updated(fields, payload))
         /\ HasRequestedFields(payload, fields) => Updated(fields, payload) = fields
  BY OperationAssumption DEF Updated, Fields, HasRequestedFields

\* What a call does to Zoom.
Wrote(type, payload, z, x) ==
  \/ z = zoom /\ x = reached
  \/ /\ x = TRUE
     /\ \/ type = "delete" /\ z = Absent
        \/ type # "delete" /\ zoom # Absent /\ z = Updated(zoom, payload)

LEMMA WroteTypes ==
  ASSUME TypeOK, NEW type \in {"update", "delete"}, NEW payload, NEW z, NEW x,
         type = "update" => payload \in Payload,
         Wrote(type, payload, z, x)
  PROVE  z \in Fields \cup {Absent} /\ x \in BOOLEAN
<1>1. zoom \in Fields \cup {Absent} /\ reached \in BOOLEAN
  BY DEF TypeOK
<1>2. CASE z = zoom /\ x = reached
  BY <1>1, <1>2
<1>3. CASE x = TRUE /\ type = "delete" /\ z = Absent
  BY <1>3
<1>4. CASE x = TRUE /\ type = "update" /\ zoom # Absent /\ z = Updated(zoom, payload)
  BY <1>1, <1>4, UpdatedShows
<1>. QED BY <1>2, <1>3, <1>4 DEF Wrote

LEMMA Replies ==
  ASSUME NEW type, NEW payload, NEW reply \in ZoomReplies(type, payload)
  PROVE  /\ reply.answer \in {"ok", "unknown", "limited", "rejected", "broken"}
         /\ Wrote(type, payload, reply.zoom, reply.reached)
         /\ reply.answer = "limited" => reply.zoom = zoom /\ reply.reached = reached
         /\ reply.answer = "ok" /\ type = "delete" => reply.zoom = Absent
         /\ reply.answer = "ok" /\ type # "delete" =>
              zoom # Absent /\ reply.zoom = Updated(zoom, payload)
  BY DEF ZoomReplies, Wrote

\* What the steps of a worker do to the workers.
Passed(w, n, pc, goal) ==
  /\ n \in [Worker -> Recovery]
  /\ n[w].pc = pc /\ n[w].goal = goal
  /\ n[w].op = worker[w].op /\ n[w].token = worker[w].token
  /\ n[w].payload = worker[w].payload /\ n[w].snapshot = worker[w].snapshot
  /\ \A v \in Worker \ {w} : n[v] = worker[v]

Stopped(w, n) ==
  /\ n \in [Worker -> Recovery]
  /\ n[w] = NoRecovery
  /\ \A v \in Worker \ {w} : n[v] = worker[v]

LEMMA MovedForm ==
  ASSUME TypeOK, NEW w \in Worker,
         NEW pc \in {"reading", "mismatched", "locking", "calling", "settling"},
         NEW goal \in {"patch", "delete", "snapshot", "apply", "gone",
                       "verify", "retry", "review", Null}
  PROVE  Passed(w, Moved(w, pc, goal), pc, goal)
<1>. DEFINE m == [worker EXCEPT ![w].pc = pc]
            n == [m EXCEPT ![w].goal = goal]
<1>1. worker \in [Worker -> Recovery]
  BY DEF TypeOK
<1>2. Moved(w, pc, goal) = n
  BY DEF Moved
<1>3. Passed(w, m, pc, worker[w].goal)
  BY <1>1 DEF Passed, Recovery
<1>. HIDE DEF m
<1>4. m \in [Worker -> Recovery] /\ n \in [Worker -> Recovery]
  BY <1>3 DEF Passed, Recovery
<1>5. Passed(w, n, pc, goal)
  BY <1>3, <1>4 DEF Passed, Recovery
<1>. HIDE DEF n
<1>. QED BY <1>2, <1>5

LEMMA EndedForm ==
  ASSUME TypeOK, NEW w \in Worker
  PROVE  Stopped(w, Ended(w))
<1>1. worker \in [Worker -> Recovery]
  BY DEF TypeOK
<1>2. NoRecovery \in Recovery
  BY DEF NoRecovery, Recovery
<1>. QED BY <1>1, <1>2 DEF Ended, Stopped

-----------------------------------------------------------------------------
(* Lemmas about those who do not act.                                      *)

LEMMA NoRecoveryIsOK ==
  ASSUME NEW w \in Worker, worker'[w] = NoRecovery
  PROVE  WorkerOK(w)'
<1>1. worker'[w].pc = "idle"
  BY DEF NoRecovery
<1>. QED BY <1>1 DEF WorkerOK

LEMMA NoRequestIsOK ==
  ASSUME NEW r \in Request, request'[r] = NoRequest
  PROVE  RequestOK(r)'
<1>1. request'[r].pc = "idle"
  BY DEF NoRequest
<1>. QED BY <1>1 DEF RequestOK

LEMMA RequestsKept ==
  ASSUME Requests, request' = request,
         (\E r \in Request : request[r].pc # "idle") => UNCHANGED <<row, lock, zoom, reached>>
  PROVE  Requests'
<1>. SUFFICES ASSUME NEW r \in Request  PROVE RequestOK(r)'
  BY DEF Requests
<1>1. RequestOK(r)
  BY DEF Requests
<1>2. CASE request[r].pc = "idle"
  BY <1>1, <1>2 DEF RequestOK
<1>3. CASE request[r].pc # "idle"
  <2>1. UNCHANGED <<row, lock, zoom, reached, request>>
    BY <1>3
  <2>. QED BY <1>1, <2>1 DEF RequestOK, Undisturbed, ZoomShowsUpdate
<1>. QED BY <1>2, <1>3

\* A running request excludes the others.
LEMMA OneRequest ==
  ASSUME Requests, NEW r \in Request, request[r].pc # "idle",
         NEW q \in Request \ {r}
  PROVE  request[q].pc = "idle" /\ request[q] = NoRequest
  BY DEF Requests, RequestOK, Undisturbed

LEMMA OnlySettlingApplies ==
  ASSUME TypeOK, NEW w \in Worker, WorkerOK(w), worker[w].pc # "idle",
         worker[w].goal = "apply"
  PROVE  worker[w].pc = "settling"
<1>1. worker[w].pc \in {"reading", "mismatched", "locking", "calling", "settling"}
  BY DEF TypeOK, Recovery
<1>2. worker[w].goal \in Goals(worker[w].pc)
  BY DEF WorkerOK
<1>. QED BY <1>1, <1>2, OperationAssumption DEF Goals

\* A worker is not disturbed by a change of the row that keeps its operation
\* or puts another in its place, if it does not hold the lock.
LEMMA WorkerKept ==
  ASSUME TypeOK, NEW w \in Worker, WorkerOK(w), worker'[w] = worker[w], zoom' = zoom,
         NeedsLock(w) => lock' = lock /\ row'.opId = row.opId,
         row'.opId = worker[w].op =>
           row'.opId = row.opId /\ row'.payload = row.payload
  PROVE  WorkerOK(w)'
<1>1. CASE worker[w].pc = "idle"
  BY <1>1 DEF WorkerOK
<1>2. CASE worker[w].pc # "idle"
  <2>1. /\ worker'[w].op \in OpId /\ worker'[w].token \in Token
        /\ worker'[w].goal \in Goals(worker'[w].pc)
        /\ IsUpdate(w)' => worker'[w].payload \in Payload
        /\ worker'[w].goal = "delete" => worker'[w].payload = Null
    BY <1>2 DEF WorkerOK, IsUpdate
  <2>2. worker'[w].op = row'.opId => worker'[w].payload = row'.payload
    BY <1>2 DEF WorkerOK
  <2>3. NeedsLock(w)' => lock' = w /\ worker'[w].op = row'.opId
    BY <1>2 DEF WorkerOK, NeedsLock
  <2>4. worker'[w].goal = "gone" => zoom' = Absent
    BY <1>2 DEF WorkerOK
  <2>5. ASSUME worker'[w].goal = "apply"  PROVE ZoomShowsUpdate'
    <3>1. worker[w].pc = "settling"
      BY <2>5, <1>2, OnlySettlingApplies
    <3>2. NeedsLock(w)
      BY <3>1, <2>5 DEF NeedsLock
    <3>3. row'.payload = row.payload
      BY <3>2, <1>2 DEF WorkerOK
    <3>. QED BY <3>3, <2>5, <1>2 DEF WorkerOK, ZoomShowsUpdate
  <2>6. worker'[w].goal = "snapshot" /\ worker'[w].op = row'.opId =>
          ZoomShowsUpdate' /\ worker'[w].snapshot = zoom'
    BY <1>2 DEF WorkerOK, ZoomShowsUpdate
  <2>. QED BY <1>2, <2>1, <2>2, <2>3, <2>4, <2>5, <2>6 DEF WorkerOK
<1>. QED BY <1>1, <1>2

\* Nor by what the holder of the lock writes to Zoom.
LEMMA WorkerWatches ==
  ASSUME TypeOK, RowShape, NEW w \in Worker, WorkerOK(w), worker'[w] = worker[w],
         ~NeedsLock(w), row' = row,
         Wrote(row.opType, row.payload, zoom', reached')
  PROVE  WorkerOK(w)'
<1>1. CASE worker[w].pc = "idle"
  BY <1>1 DEF WorkerOK
<1>2. CASE worker[w].pc # "idle"
  <2>1. /\ worker'[w].op \in OpId /\ worker'[w].token \in Token
        /\ worker'[w].goal \in Goals(worker'[w].pc)
        /\ IsUpdate(w)' => worker'[w].payload \in Payload
        /\ worker'[w].goal = "delete" => worker'[w].payload = Null
        /\ worker'[w].op = row'.opId => worker'[w].payload = row'.payload
        /\ ~NeedsLock(w)'
    BY <1>2 DEF WorkerOK, IsUpdate, NeedsLock
  <2>2. worker'[w].goal = "gone" => zoom' = Absent
    BY <1>2 DEF WorkerOK, Wrote
  <2>3. worker'[w].goal # "apply"
    BY <1>2, OnlySettlingApplies DEF NeedsLock
  <2>4. ASSUME worker'[w].goal = "snapshot", worker'[w].op = row'.opId
        PROVE  ZoomShowsUpdate' /\ worker'[w].snapshot = zoom'
    <3>1. /\ worker[w].payload \in Payload /\ worker[w].payload = row.payload
          /\ row.opId \in OpId
      BY <2>4, <1>2 DEF WorkerOK, IsUpdate
    <3>2. row.opType = "update"
      BY <3>1, OperationAssumption, RowAssumption DEF RowShape, TypeOK, Row
    <3>3. ZoomShowsUpdate /\ worker[w].snapshot = zoom
      BY <2>4, <1>2 DEF WorkerOK
    <3>4. zoom' = zoom
      <4>1. zoom' = zoom \/ zoom' = Updated(zoom, row.payload)
        BY <3>2 DEF Wrote
      <4>2. zoom \in Fields
        BY <3>3 DEF ZoomShowsUpdate, TypeOK
      <4>3. Updated(zoom, row.payload) = zoom
        BY <4>2, <3>1, <3>3, UpdatedShows DEF ZoomShowsUpdate
      <4>. QED BY <4>1, <4>3
    <3>. QED BY <3>3, <3>4, <2>4 DEF ZoomShowsUpdate
  <2>. QED BY <1>2, <2>1, <2>2, <2>3, <2>4 DEF WorkerOK
<1>. QED BY <1>1, <1>2

\* Who owns the row works on a pending operation no request is at.
LEMMA OwnersRow ==
  ASSUME IInv, NEW w \in Worker, worker[w].pc # "idle", Owns(w)
  PROVE  /\ row.status \in Pending /\ row.attempts < MaxAttempts
         /\ worker[w].payload = row.payload /\ row.claim # Null
         /\ \A r \in Request : request[r].pc = "idle"
<1>1. worker[w].token \in Token /\ WorkerOK(w)
  BY DEF IInv, Workers, WorkerOK
<1>2. row.claim # Null
  BY <1>1, RowAssumption DEF Owns, IsClaimValid
<1>3. row.status \in Pending /\ row.attempts < MaxAttempts
  BY <1>2 DEF IInv, RowShape
<1>4. worker[w].payload = row.payload
  BY <1>1 DEF WorkerOK, Owns, IsOperationCurrent
<1>5. \A r \in Request : request[r].pc = "idle"
  BY <1>2 DEF IInv, Requests, RequestOK, Undisturbed
<1>. QED BY <1>2, <1>3, <1>4, <1>5

\* Who writes or closes holds the lock, which excludes all others.
LEMMA HoldersRow ==
  ASSUME IInv, NEW w \in Worker, lock = w
  PROVE  /\ \A r \in Request : request[r].pc = "idle"
         /\ \A v \in Worker \ {w} : ~NeedsLock(v)
<1>1. \A r \in Request : r # w
  BY OperationAssumption
<1>2. \A r \in Request : request[r].pc = "idle"
  BY <1>1 DEF IInv, Requests, RequestOK, Undisturbed
<1>3. ASSUME NEW v \in Worker \ {w}  PROVE ~NeedsLock(v)
  <2>1. NeedsLock(v) => worker[v].pc # "idle"
    BY DEF NeedsLock
  <2>. QED BY <2>1, <1>3 DEF IInv, Workers, WorkerOK
<1>. QED BY <1>2, <1>3

-----------------------------------------------------------------------------
(* The steps of a request.                                                 *)

\* How a request moves, and what it was when it moved.
LEMMA RunningRequest ==
  ASSUME IInv, NEW r \in Request, request[r].pc # "idle"
  PROVE  /\ RequestOK(r) /\ Undisturbed(r) /\ lock = r
         /\ row.opId \in OpId /\ row.opType \in {"update", "delete"}
         /\ \A w \in Worker : ~NeedsLock(w)
<1>1. RequestOK(r) /\ Undisturbed(r) /\ lock = r
  BY DEF IInv, Requests, RequestOK, Undisturbed
<1>2. row.opId \in OpId /\ row.opType \in {"update", "delete"}
  BY <1>1 DEF IInv, RowShape, Undisturbed, Pending
<1>3. ASSUME NEW w \in Worker  PROVE ~NeedsLock(w)
  <2>1. NeedsLock(w) => worker[w].pc # "idle"
    BY DEF NeedsLock
  <2>2. lock # w
    BY <1>1, OperationAssumption
  <2>. QED BY <2>1, <2>2 DEF IInv, Workers, WorkerOK
<1>. QED BY <1>1, <1>2, <1>3

LEMMA BeginKeeps ==
  ASSUME IInv, NEW r \in Request, NEW type, NEW payload, NEW status,
         Begin(r, type, payload, status),
         \/ type = "update" /\ payload \in Payload /\ status = "updating"
         \/ type = "delete" /\ payload = Null /\ status = "deleting"
  PROVE  IInv'
<1>. PICK op \in OpId :
       /\ FreshOp(op)
       /\ row' = Intent(type, op, payload, status)
       /\ request' = [request EXCEPT ![r] =
            [NoRequest EXCEPT !.pc = "calling", !.op = op,
                              !.type = type, !.payload = payload]]
  BY DEF Begin
<1>. USE DEF IInv
<1>1. /\ lock = Null /\ lock' = r /\ reached' = FALSE
      /\ UNCHANGED <<zoom, worker, jobs, faults>>
  BY DEF Begin
<1>2. /\ row'.status = status /\ row'.opId = op /\ row'.opType = type
      /\ row'.payload = payload /\ row'.claim = Null /\ row'.lease = "live"
      /\ row'.avail = Null /\ row'.attempts = 0 /\ row' \in Row
  <2>1. row \in Row /\ 0 \in 0..MaxAttempts
    BY RowAssumption DEF TypeOK
  <2>2. /\ type \in {"update", "delete"} /\ payload \in Payload \cup {Null}
        /\ status \in {"updating", "deleting"}
    OBVIOUS
  <2>. DEFINE n == [row EXCEPT !.status = status, !.opId = op, !.opType = type,
                               !.payload = payload]
  <2>3. /\ n \in Row /\ n.status = status /\ n.opId = op /\ n.opType = type
        /\ n.payload = payload
    BY <2>1, <2>2 DEF Row
  <2>4. row' = [n EXCEPT !.claim = Null, !.lease = "live", !.avail = Null, !.attempts = 0]
    BY DEF Intent
  <2>. HIDE DEF n
  <2>. DEFINE m == [n EXCEPT !.claim = Null, !.lease = "live"]
  <2>5. /\ m \in Row /\ m.status = status /\ m.opId = op /\ m.opType = type
        /\ m.payload = payload /\ m.claim = Null /\ m.lease = "live"
    BY <2>3 DEF Row
  <2>6. row' = [m EXCEPT !.avail = Null, !.attempts = 0]
    BY <2>4
  <2>. HIDE DEF m
  <2>7. row' \in Row
    BY <2>1, <2>5, <2>6 DEF Row
  <2>8. /\ row'.status = m.status /\ row'.opId = m.opId /\ row'.opType = m.opType
        /\ row'.payload = m.payload /\ row'.claim = m.claim /\ row'.lease = m.lease
        /\ row'.avail = Null /\ row'.attempts = 0
    BY <2>5, <2>6 DEF Row
  <2>. QED BY <2>5, <2>7, <2>8
<1>3. /\ request'[r].pc = "calling" /\ request'[r].op = op
      /\ request'[r].type = type /\ request'[r].payload = payload
      /\ request' \in [Request -> HttpRequest]
      /\ \A q \in Request \ {r} : request'[q] = request[q]
  BY DEF NoRequest, HttpRequest, TypeOK
<1>4. TypeOK'
  BY <1>1, <1>2, <1>3 DEF TypeOK
<1>5. RowShape'
  BY <1>2, RowAssumption DEF RowShape, ClaimHasLease, Pending
<1>6. ASSUME NEW q \in Request  PROVE RequestOK(q)'
  <2>1. CASE q = r
    BY <2>1, <1>1, <1>2, <1>3 DEF RequestOK, Undisturbed, Pending
  <2>2. CASE q # r
    <3>1. lock # q
      BY <1>1, OperationAssumption
    <3>2. request[q] = NoRequest
      BY <3>1 DEF Requests, RequestOK, Undisturbed
    <3>. QED BY <3>2, <2>2, <1>3, NoRequestIsOK
  <2>. QED BY <2>1, <2>2
<1>7. ASSUME NEW w \in Worker  PROVE WorkerOK(w)'
  <2>1. WorkerOK(w) /\ lock # w
    BY <1>1, OperationAssumption DEF Workers
  <2>2. ~NeedsLock(w)
    BY <2>1 DEF WorkerOK, NeedsLock
  <2>3. row'.opId # worker[w].op
    BY <1>2 DEF FreshOp
  <2>. QED BY <2>1, <2>2, <2>3, <1>1, WorkerKept
<1>. QED BY <1>4, <1>5, <1>6, <1>7 DEF Requests, Workers

LEMMA RequestCallsKeeps ==
  ASSUME IInv, NEW r \in Request, RequestCallsZoom(r)
  PROVE  IInv'
<1>. PICK reply \in ZoomReplies(request[r].type, request[r].payload) :
       /\ zoom' = reply.zoom
       /\ reached' = reply.reached
       /\ request' = [request EXCEPT ![r].pc = "answered", ![r].answer = reply.answer]
  BY DEF RequestCallsZoom
<1>1. /\ request[r].pc = "calling" /\ UNCHANGED <<row, lock, worker, jobs, faults>>
  BY DEF RequestCallsZoom
<1>2. /\ RequestOK(r) /\ Undisturbed(r) /\ lock = r /\ ~reached
      /\ row.opId \in OpId /\ row.opType \in {"update", "delete"}
      /\ \A w \in Worker : ~NeedsLock(w)
  BY <1>1, RunningRequest DEF RequestOK
<1>3. request[r].type = row.opType /\ request[r].payload = row.payload
  BY <1>2 DEF Undisturbed
<1>4. /\ reply.answer \in {"ok", "unknown", "limited", "rejected", "broken"}
      /\ Wrote(row.opType, row.payload, zoom', reached')
      /\ reply.answer = "limited" => zoom' = zoom /\ reached' = reached
      /\ reply.answer = "ok" /\ row.opType = "delete" => zoom' = Absent
      /\ reply.answer = "ok" /\ row.opType # "delete" =>
           zoom # Absent /\ zoom' = Updated(zoom, row.payload)
  BY <1>3, Replies
<1>5. /\ request'[r].pc = "answered" /\ request'[r].op = request[r].op
      /\ request'[r].type = request[r].type
      /\ request'[r].payload = request[r].payload
      /\ request'[r].answer = reply.answer
      /\ request' \in [Request -> HttpRequest]
      /\ \A q \in Request \ {r} : request'[q] = request[q]
  BY <1>4 DEF IInv, HttpRequest, TypeOK
<1>6. row.opType = "update" => row.payload \in Payload
  BY <1>2, RowAssumption DEF IInv, RowShape, Undisturbed, Pending
<1>7. zoom' \in Fields \cup {Absent} /\ reached' \in BOOLEAN
  BY <1>2, <1>4, <1>6, WroteTypes DEF IInv
<1>8. TypeOK'
  BY <1>1, <1>5, <1>7 DEF IInv, TypeOK
<1>9. RowShape'
  BY <1>1 DEF IInv, RowShape, ClaimHasLease
<1>10. ASSUME NEW q \in Request  PROVE RequestOK(q)'
  <2>1. CASE q = r
    <3>1. Undisturbed(q)'
      BY <2>1, <1>1, <1>2, <1>5 DEF Undisturbed
    <3>2. request'[q].answer = "limited" => ~reached'
      BY <2>1, <1>2, <1>4, <1>5
    <3>3. ASSUME request'[q].answer = "ok", row.opType = "update"
          PROVE  ZoomShowsUpdate'
      <4>1. zoom \in Fields /\ zoom' = Updated(zoom, row.payload)
        BY <3>3, <2>1, <1>4, <1>5 DEF IInv, TypeOK
      <4>2. zoom' \in Fields /\ HasRequestedFields(row.payload, zoom')
        BY <4>1, <3>3, <1>6, UpdatedShows
      <4>3. zoom' # Absent
        BY <4>2, OperationAssumption DEF Fields
      <4>. QED BY <4>2, <4>3, <1>1 DEF ZoomShowsUpdate
    <3>4. request'[q].answer = "ok" /\ row.opType = "delete" => zoom' = Absent
      BY <2>1, <1>4, <1>5
    <3>. QED BY <2>1, <1>2, <1>3, <1>4, <1>5, <3>1, <3>2, <3>3, <3>4 DEF RequestOK
  <2>2. CASE q # r
    <3>1. request'[q] = NoRequest
      BY <2>2, <1>1, <1>5, OneRequest DEF IInv
    <3>. QED BY <3>1, NoRequestIsOK
  <2>. QED BY <2>1, <2>2
<1>11. ASSUME NEW w \in Worker  PROVE WorkerOK(w)'
  BY <1>1, <1>2, <1>4, WorkerWatches DEF IInv, Workers
<1>. QED BY <1>8, <1>9, <1>10, <1>11 DEF IInv, Requests, Workers

-----------------------------------------------------------------------------
(* What becomes of a pending operation when a request or a job is through. *)

Delayed(n) ==
  /\ Recorded(row, n) /\ n.status = row.status /\ n.attempts < MaxAttempts
  /\ n.claim = Null /\ n.lease = Null /\ n.avail = "later"

GivenUp(n) ==
  /\ Recorded(row, n)
  /\ n.status = (IF row.opType = "update" THEN "update_failed" ELSE "delete_failed")
  /\ n.claim = Null /\ n.lease = Null /\ n.avail = Null

Over(n, status, local) ==
  /\ n.status = status /\ n.local = local
  /\ n.opId = Null /\ n.opType = Null /\ n.payload = Null
  /\ n.claim = Null /\ n.lease = Null /\ n.avail = Null

Outcome(n) ==
  \/ Delayed(n)
  \/ GivenUp(n)
  \/ ~reached /\ Over(n, "active", row.local)
  \/ zoom = Absent /\ Over(n, "deleted", row.local)
  \/ /\ row.status = "updating" /\ ZoomShowsUpdate
     /\ Over(n, "active", Updated(row.local, row.payload)) \/ Over(n, "active", zoom)

LEMMA OutcomeShape ==
  ASSUME RowShape, row.status \in Pending, row' \in Row, Outcome(row')
  PROVE  /\ RowShape'
         /\ (row'.opId = row.opId /\ row'.payload = row.payload) \/ row'.opId = Null
<1>1. CASE Delayed(row')
  BY <1>1, RowAssumption DEF Delayed, Recorded, RowShape, ClaimHasLease, Pending
<1>2. CASE GivenUp(row')
  BY <1>2, RowAssumption DEF GivenUp, Recorded, RowShape, ClaimHasLease, Pending
<1>3. ASSUME NEW s \in {"active", "deleted"}, NEW l, Over(row', s, l)
      PROVE  RowShape' /\ row'.opId = Null
  BY <1>3, RowAssumption DEF Over, RowShape, ClaimHasLease, Pending
<1>. QED BY <1>1, <1>2, <1>3 DEF Outcome

LEMMA WaitingDelays ==
  ASSUME row \in Row, row.attempts < MaxAttempts
  PROVE  Waiting(row) \in Row /\ Delayed(Waiting(row))
  BY Forms DEF Delayed, Released

LEMMA CountingDelays ==
  ASSUME row \in Row, row.attempts + 1 < MaxAttempts
  PROVE  LET n == [Waiting(row) EXCEPT !.attempts = @ + 1]
         IN  n \in Row /\ Delayed(n)
<1>. DEFINE h == Waiting(row)
<1>1. h \in Row /\ Recorded(row, h) /\ Released(row, h, row.status, "later")
  BY Forms
<1>2. row.attempts \in Nat /\ MaxAttempts \in Nat
  BY RowAssumption DEF Row
<1>. HIDE DEF h
<1>3. h.attempts + 1 \in 0..MaxAttempts /\ h.attempts + 1 < MaxAttempts
  BY <1>1, <1>2 DEF Released
<1>. QED BY <1>1, <1>3, CountedForm DEF Delayed, Recorded, Released, h

\* A row given up for review is due no more, whether or not it paid an attempt.
LEMMA HandedOverIsGivenUp ==
  ASSUME row \in Row,
         NEW s, s = (IF row.opType = "update" THEN "update_failed" ELSE "delete_failed")
  PROVE  /\ HandedOver(row, s) \in Row /\ GivenUp(HandedOver(row, s))
         /\ row.attempts < MaxAttempts =>
              LET n == [HandedOver(row, s) EXCEPT !.attempts = @ + 1]
              IN  n \in Row /\ GivenUp(n)
<1>. DEFINE h == HandedOver(row, s)
<1>1. h \in Row /\ Recorded(row, h) /\ Released(row, h, s, Null)
  BY HandedOverForm
<1>2. row.attempts \in Nat /\ MaxAttempts \in Nat
  BY RowAssumption DEF Row
<1>3. GivenUp(h)
  BY <1>1 DEF GivenUp, Released
<1>. HIDE DEF h
<1>4. row.attempts < MaxAttempts => h.attempts + 1 \in 0..MaxAttempts
  BY <1>1, <1>2 DEF Released
<1>5. ASSUME row.attempts < MaxAttempts
      PROVE  LET n == [h EXCEPT !.attempts = @ + 1] IN n \in Row /\ GivenUp(n)
  BY <1>1, <1>3, <1>4, <1>5, CountedForm DEF GivenUp, Recorded
<1>. QED BY <1>1, <1>3, <1>5 DEF h

LEMMA ClosedIsOver ==
  ASSUME row \in Row, NEW s \in {"active", "deleted"}
  PROVE  LET n == Closed(row, s)
         IN  /\ n \in Row /\ Over(n, s, row.local)
             /\ \A f \in Fields :
                  /\ [n EXCEPT !.local = f] \in Row
                  /\ Over([n EXCEPT !.local = f], s, f)
<1>. DEFINE n == Closed(row, s)
<1>1. n \in Row /\ Over(n, s, row.local)
  BY ClosedForm DEF Over, Released
<1>. HIDE DEF n
<1>2. ASSUME NEW f \in Fields
      PROVE  [n EXCEPT !.local = f] \in Row /\ Over([n EXCEPT !.local = f], s, f)
  BY <1>1, <1>2 DEF Row, Over
<1>. QED BY <1>1, <1>2 DEF n

-----------------------------------------------------------------------------
LEMMA UpdateOutcomes ==
  ASSUME TypeOK, row.status = "updating", row.opType = "update",
         row.payload \in Payload, row.avail = Null, row.attempts = 0,
         NEW a \in {"ok", "unknown", "limited", "rejected", "broken"},
         a = "limited" => ~reached, a = "ok" => ZoomShowsUpdate
  PROVE  LET n == UpdateOutcome(row.payload, a)
         IN  n \in Row /\ (n = row \/ Outcome(n))
<1>. DEFINE n == UpdateOutcome(row.payload, a)
            verified == IsPasswordOperation(row.payload)
            c == Closed(row, "active")
            local == Updated(row.local, row.payload)
<1>1. row \in Row /\ local \in Fields /\ MaxAttempts > 1 /\ row.attempts + 1 < MaxAttempts
  BY UpdatedShows, RowAssumption DEF TypeOK, Row
<1>2. CASE a = "ok" /\ verified
  <2>1. n = Waiting(row)
    BY <1>2 DEF UpdateOutcome
  <2>. QED BY <2>1, <1>1, WaitingDelays, RowAssumption DEF Outcome
<1>3. CASE a = "ok" /\ ~verified
  <2>1. n = [c EXCEPT !.avail = row.avail, !.local = Updated(@, row.payload)]
    BY <1>3 DEF UpdateOutcome
  <2>2. c \in Row /\ Over(c, "active", row.local)
    BY <1>1, ClosedIsOver
  <2>. HIDE DEF c
  <2>3. n = [c EXCEPT !.avail = Null, !.local = local]
    BY <2>1, <2>2 DEF Over
  <2>. DEFINE d == [c EXCEPT !.avail = Null]
  <2>. HIDE DEF n, local
  <2>4. d \in Row /\ Over(d, "active", row.local)
    BY <2>2 DEF Row, Over
  <2>5. n = [d EXCEPT !.local = local]
    BY <2>3
  <2>. HIDE DEF d
  <2>6. n \in Row
    BY <2>4, <2>5, <1>1 DEF Row
  <2>7. Over(n, "active", local)
    BY <2>4, <2>5, <1>1 DEF Row, Over
  <2>. USE DEF n, local
  <2>. QED BY <2>6, <2>7, <1>3 DEF Outcome
<1>4. CASE a = "unknown"
  <2>1. n = [Waiting(row) EXCEPT !.attempts = @ + 1]
    BY <1>4 DEF UpdateOutcome
  <2>. QED BY <2>1, <1>1, CountingDelays DEF Outcome
<1>5. CASE a = "limited"
  <2>1. n = Closed(row, "active")
    BY <1>5 DEF UpdateOutcome
  <2>. QED BY <2>1, <1>1, <1>5, ClosedIsOver DEF Outcome
<1>6. CASE a = "rejected"
  <2>1. n = [HandedOver(row, "update_failed") EXCEPT !.attempts = @ + 1]
    BY <1>6 DEF UpdateOutcome
  <2>2. row.attempts < MaxAttempts
    BY RowAssumption
  <2>. QED BY <2>1, <2>2, <1>1, HandedOverIsGivenUp DEF Outcome
<1>7. CASE a = "broken"
  BY <1>1, <1>7 DEF UpdateOutcome
<1>. QED BY <1>2, <1>3, <1>4, <1>5, <1>6, <1>7

LEMMA DeleteOutcomes ==
  ASSUME TypeOK, row.status = "deleting", row.opType = "delete",
         row.payload = Null, row.attempts = 0,
         NEW a \in {"ok", "unknown", "limited", "rejected", "broken"},
         a = "limited" => ~reached, a = "ok" => zoom = Absent
  PROVE  LET n == DeleteOutcome(a)
         IN  n \in Row /\ (n = row \/ Outcome(n))
<1>. DEFINE n == DeleteOutcome(a)
<1>1. row \in Row /\ row.attempts + 1 < MaxAttempts
  BY RowAssumption DEF TypeOK
<1>2. ASSUME NEW s \in {"active", "deleted"},
             n = [Closed(row, s) EXCEPT !.payload = row.payload]
      PROVE  n \in Row /\ Over(n, s, row.local)
  <2>. DEFINE c == Closed(row, s)
  <2>1. c \in Row /\ Over(c, s, row.local)
    BY <1>1, ClosedIsOver
  <2>2. n = [c EXCEPT !.payload = Null]
    BY <1>2
  <2>. HIDE DEF c, n
  <2>. QED BY <2>1, <2>2 DEF Row, Over
<1>3. CASE a = "ok"
  <2>1. n = [Closed(row, "deleted") EXCEPT !.payload = row.payload]
    BY <1>3 DEF DeleteOutcome
  <2>. QED BY <2>1, <1>2, <1>3 DEF Outcome
<1>4. CASE a = "unknown"
  <2>1. n = [Waiting(row) EXCEPT !.attempts = @ + 1]
    BY <1>4 DEF DeleteOutcome
  <2>. QED BY <2>1, <1>1, CountingDelays DEF Outcome
<1>5. CASE a = "limited"
  <2>1. n = [Closed(row, "active") EXCEPT !.payload = row.payload]
    BY <1>5 DEF DeleteOutcome
  <2>. QED BY <2>1, <1>2, <1>5 DEF Outcome
<1>6. CASE a = "rejected"
  <2>1. n = [HandedOver(row, "delete_failed") EXCEPT !.attempts = @ + 1]
    BY <1>6 DEF DeleteOutcome
  <2>2. row.attempts < MaxAttempts
    BY RowAssumption
  <2>. QED BY <2>1, <2>2, <1>1, HandedOverIsGivenUp DEF Outcome
<1>7. CASE a = "broken"
  BY <1>1, <1>7 DEF DeleteOutcome
<1>. QED BY <1>3, <1>4, <1>5, <1>6, <1>7

LEMMA FinishOutcome ==
  ASSUME IInv, NEW r \in Request, FinishRequest(r)
  PROVE  row.status \in Pending /\ row' \in Row /\ (row' = row \/ Outcome(row'))
<1>1. request[r].pc = "answered"
  BY DEF FinishRequest
<1>2. RequestOK(r) /\ Undisturbed(r)
  BY <1>1, RunningRequest
<1>3. /\ row.status \in Pending /\ row.avail = Null /\ row.attempts = 0
      /\ request[r].op = row.opId /\ request[r].type = row.opType
      /\ request[r].payload = row.payload
  BY <1>2 DEF Undisturbed
<1>4. /\ request[r].answer \in {"ok", "unknown", "limited", "rejected", "broken"}
      /\ request[r].answer = "limited" => ~reached
      /\ request[r].answer = "ok" =>
           IF row.opType = "delete" THEN zoom = Absent ELSE ZoomShowsUpdate
  BY <1>1, <1>2, <1>3 DEF RequestOK
<1>5. row' = IF row.opType = "update" THEN UpdateOutcome(row.payload, request[r].answer)
             ELSE DeleteOutcome(request[r].answer)
  BY <1>3 DEF FinishRequest, IsOperationCurrent
<1>6. CASE row.status = "updating"
  <2>1. row.opType = "update" /\ row.payload \in Payload
    BY <1>6 DEF IInv, RowShape
  <2>2. row' = UpdateOutcome(row.payload, request[r].answer)
    BY <2>1, <1>5
  <2>3. request[r].answer = "ok" => ZoomShowsUpdate
    BY <2>1, <1>4
  <2>. QED BY <2>1, <2>2, <2>3, <1>3, <1>4, <1>6, UpdateOutcomes DEF IInv
<1>7. CASE row.status = "deleting"
  <2>1. row.opType = "delete" /\ row.payload = Null
    BY <1>7 DEF IInv, RowShape
  <2>2. row' = DeleteOutcome(request[r].answer)
    BY <2>1, <1>5
  <2>3. request[r].answer = "ok" => zoom = Absent
    BY <2>1, <1>4
  <2>. QED BY <2>1, <2>2, <2>3, <1>3, <1>4, <1>7, DeleteOutcomes DEF IInv
<1>. QED BY <1>3, <1>6, <1>7 DEF Pending

LEMMA FinishKeeps ==
  ASSUME IInv, NEW r \in Request, FinishRequest(r)
  PROVE  IInv'
<1>1. /\ request[r].pc # "idle" /\ request' = [request EXCEPT ![r] = NoRequest]
      /\ lock' = Unlocked(r) /\ UNCHANGED <<zoom, worker, jobs, reached, faults>>
  BY DEF FinishRequest
<1>2. lock = r /\ \A w \in Worker : ~NeedsLock(w)
  BY <1>1, RunningRequest
<1>3. row.status \in Pending /\ row' \in Row /\ (row' = row \/ Outcome(row'))
  BY FinishOutcome
<1>4. RowShape' /\ ((row'.opId = row.opId /\ row'.payload = row.payload) \/ row'.opId = Null)
  BY <1>3, OutcomeShape DEF IInv, RowShape, ClaimHasLease
<1>5. /\ request' \in [Request -> HttpRequest] /\ request'[r] = NoRequest
      /\ \A q \in Request \ {r} : request'[q] = request[q]
  BY <1>1 DEF IInv, TypeOK, NoRequest, HttpRequest
<1>6. lock' \in Request \cup Worker \cup {Orphan, Null}
  BY <1>1, <1>2 DEF Unlocked
<1>7. TypeOK'
  BY <1>1, <1>3, <1>5, <1>6 DEF IInv, TypeOK
<1>8. ASSUME NEW q \in Request  PROVE RequestOK(q)'
  <2>1. request'[q] = NoRequest
    BY <1>1, <1>5, OneRequest DEF IInv
  <2>. QED BY <2>1, NoRequestIsOK
<1>9. ASSUME NEW w \in Worker  PROVE WorkerOK(w)'
  <2>1. CASE worker[w].pc = "idle"
    BY <2>1, <1>1, NoRecoveryIsOK DEF IInv, Workers, WorkerOK
  <2>2. CASE worker[w].pc # "idle"
    <3>1. WorkerOK(w) /\ worker[w].op \in OpId
      BY <2>2 DEF IInv, Workers, WorkerOK
    <3>2. row'.opId = worker[w].op => row'.opId = row.opId /\ row'.payload = row.payload
      BY <3>1, <1>4, RowAssumption
    <3>. QED BY <3>1, <3>2, <1>1, <1>2, WorkerKept DEF IInv
  <2>. QED BY <2>1, <2>2
<1>. QED BY <1>4, <1>7, <1>8, <1>9 DEF IInv, Requests, Workers

LEMMA RequestCrashKeeps ==
  ASSUME IInv, NEW r \in Request, RequestCrashes(r)
  PROVE  IInv'
<1>1. /\ request[r].pc # "idle" /\ request' = [request EXCEPT ![r] = NoRequest]
      /\ lock' = (IF lock = r THEN Orphan ELSE lock) /\ UNCHANGED <<row, worker, jobs>>
      /\ faults' \in 0..MaxFaults
  BY OperationAssumption DEF RequestCrashes, Fault, IInv, TypeOK
<1>2. /\ Undisturbed(r) /\ lock = r
      /\ row.opId \in OpId /\ row.opType \in {"update", "delete"}
      /\ \A w \in Worker : ~NeedsLock(w)
  BY <1>1, RunningRequest
<1>3. request[r].type = row.opType /\ request[r].payload = row.payload
  BY <1>2 DEF Undisturbed
<1>4. Wrote(row.opType, row.payload, zoom', reached')
  <2>1. CASE UNCHANGED <<zoom, reached>>
    BY <2>1 DEF Wrote
  <2>2. ASSUME NEW reply \in ZoomReplies(request[r].type, request[r].payload),
               zoom' = reply.zoom, reached' = reply.reached
        PROVE  Wrote(row.opType, row.payload, zoom', reached')
    BY <1>3, <2>2, Replies
  <2>. QED BY <2>1, <2>2 DEF RequestCrashes
<1>5. row.opType = "update" => row.payload \in Payload
  BY <1>2, RowAssumption DEF IInv, RowShape, Undisturbed, Pending
<1>6. zoom' \in Fields \cup {Absent} /\ reached' \in BOOLEAN
  BY <1>2, <1>4, <1>5, WroteTypes DEF IInv
<1>7. /\ request' \in [Request -> HttpRequest] /\ request'[r] = NoRequest
      /\ \A q \in Request \ {r} : request'[q] = request[q]
  BY <1>1 DEF IInv, TypeOK, NoRequest, HttpRequest
<1>8. TypeOK'
  BY <1>1, <1>2, <1>6, <1>7 DEF IInv, TypeOK
<1>9. RowShape'
  BY <1>1 DEF IInv, RowShape, ClaimHasLease
<1>10. ASSUME NEW q \in Request  PROVE RequestOK(q)'
  <2>1. request'[q] = NoRequest
    BY <1>1, <1>7, OneRequest DEF IInv
  <2>. QED BY <2>1, NoRequestIsOK
<1>11. ASSUME NEW w \in Worker  PROVE WorkerOK(w)'
  BY <1>1, <1>2, <1>4, WorkerWatches DEF IInv, Workers
<1>. QED BY <1>8, <1>9, <1>10, <1>11 DEF IInv, Requests, Workers

-----------------------------------------------------------------------------
(* The steps of a worker.                                                  *)

\* Whose operation is the recorded one shares its kind with the row.
LEMMA SameKind ==
  ASSUME IInv, NEW w \in Worker, worker[w].pc # "idle", worker[w].op = row.opId
  PROVE  /\ row.opId \in OpId /\ worker[w].payload = row.payload
         /\ IsUpdate(w) => row.opType = "update" /\ row.payload \in Payload
         /\ worker[w].goal = "delete" => row.opType = "delete" /\ row.payload = Null
<1>1. /\ worker[w].op \in OpId /\ worker[w].payload = row.payload
      /\ IsUpdate(w) => worker[w].payload \in Payload
      /\ worker[w].goal = "delete" => worker[w].payload = Null
  BY DEF IInv, Workers, WorkerOK
<1>2. \/ row.opType = "update" /\ row.payload \in Payload
      \/ row.opType = "delete" /\ row.payload = Null
  BY <1>1, RowAssumption DEF IInv, TypeOK, Row, RowShape
<1>. QED BY <1>1, <1>2, OperationAssumption

\* A step of one worker that touches nothing but its own state and the queue.
LEMMA WorkerAlone ==
  ASSUME IInv, UNCHANGED <<row, zoom, lock, request, reached>>,
         jobs' \subseteq Job, faults' \in 0..MaxFaults,
         worker' \in [Worker -> Recovery],
         \A w \in Worker : worker'[w] # worker[w] => WorkerOK(w)'
  PROVE  IInv'
<1>1. TypeOK'
  BY DEF IInv, TypeOK
<1>2. RowShape'
  BY DEF IInv, RowShape, ClaimHasLease
<1>3. Requests'
  BY RequestsKept DEF IInv
<1>4. ASSUME NEW w \in Worker, worker'[w] = worker[w]  PROVE WorkerOK(w)'
  BY <1>4, WorkerKept DEF IInv, Workers
<1>5. Workers'
  BY <1>4 DEF Workers
<1>. QED BY <1>1, <1>2, <1>3, <1>5 DEF IInv

LEMMA StartKeeps ==
  ASSUME IInv, NEW w \in Worker, NEW j \in jobs, StartRecovery(w, j)
  PROVE  IInv'
<1>. DEFINE begun(pc, goal) ==
              [pc |-> pc, op |-> j.op, token |-> j.token,
               payload |-> row.payload, snapshot |-> Null, goal |-> goal]
            started == IF row.opType = "delete" THEN begun("locking", "delete")
                       ELSE IF DOMAIN row.payload = {} THEN begun("settling", "review")
                       ELSE begun("reading", Null)
<1>1. /\ jobs' \subseteq Job /\ faults' \in 0..MaxFaults
      /\ UNCHANGED <<row, zoom, lock, request, reached>>
  BY DEF StartRecovery, IInv, TypeOK
<1>2. \/ worker' = worker
      \/ /\ IsOperationCurrent(row, j.op)
         /\ worker' = [worker EXCEPT ![w] = started]
  BY DEF StartRecovery
<1>3. CASE worker' = worker
  BY <1>1, <1>3, WorkerAlone DEF IInv, TypeOK
<1>4. CASE IsOperationCurrent(row, j.op) /\ worker' = [worker EXCEPT ![w] = started]
  <2>1. /\ j.op \in OpId /\ j.token \in Token /\ j.op = row.opId
        /\ row.payload \in Payload \cup {Null}
        /\ worker \in [Worker -> Recovery]
    BY <1>4 DEF IInv, TypeOK, Job, IsOperationCurrent, Row
  <2>2. \/ row.opType = "update" /\ row.payload \in Payload
        \/ row.opType = "delete" /\ row.payload = Null
    BY <2>1, RowAssumption DEF IInv, TypeOK, Row, RowShape
  <2>3. ASSUME NEW pc \in {"locking", "settling", "reading"},
               NEW goal \in {"delete", "review", Null},
               worker' = [worker EXCEPT ![w] = begun(pc, goal)],
               \/ pc = "locking" /\ goal = "delete" /\ row.payload = Null
               \/ pc = "settling" /\ goal = "review"
               \/ pc = "reading" /\ goal = Null /\ row.payload \in Payload
        PROVE  IInv'
    <3>1. begun(pc, goal) \in Recovery
      BY <2>1 DEF Recovery
    <3>2. /\ worker' \in [Worker -> Recovery]
          /\ \A v \in Worker \ {w} : worker'[v] = worker[v]
          /\ worker'[w].pc = pc /\ worker'[w].goal = goal
          /\ worker'[w].op = j.op /\ worker'[w].token = j.token
          /\ worker'[w].payload = row.payload
      BY <2>1, <2>3, <3>1
    <3>3. goal \in Goals(pc)
      BY <2>3 DEF Goals
    <3>4. goal \notin {"patch", "snapshot", "apply", "gone", "verify"}
      BY OperationAssumption
    <3>5. ~NeedsLock(w)' /\ (IsUpdate(w)' => row.payload \in Payload)
      BY <2>3, <3>2, <3>4 DEF NeedsLock, IsUpdate
    <3>6. goal = "delete" => row.payload = Null
      BY <2>3, OperationAssumption
    <3>7. WorkerOK(w)'
      BY <1>1, <2>1, <2>3, <3>2, <3>3, <3>4, <3>5, <3>6 DEF WorkerOK
    <3>. QED BY <1>1, <3>2, <3>7, WorkerAlone
  <2>. QED BY <1>4, <2>2, <2>3
<1>. QED BY <1>2, <1>3, <1>4

LEMMA LockTimesOutKeeps ==
  ASSUME IInv, NEW w \in Worker, LockTimesOut(w)
  PROVE  IInv'
<1>1. /\ worker[w].pc = "locking" /\ worker' = Moved(w, "settling", "retry")
      /\ UNCHANGED <<row, zoom, lock, request, jobs, reached, faults>>
  BY DEF LockTimesOut
<1>2. Passed(w, worker', "settling", "retry")
  BY <1>1, MovedForm DEF IInv
<1>3. WorkerOK(w)
  BY DEF IInv, Workers
<1>4. "retry" \in Goals("settling")
  BY DEF Goals
<1>5. WorkerOK(w)'
  BY <1>1, <1>2, <1>3, <1>4 DEF Passed, WorkerOK, NeedsLock, IsUpdate
<1>. QED BY <1>1, <1>2, <1>5, WorkerAlone DEF IInv, TypeOK, Passed

LEMMA ReadKeeps ==
  ASSUME IInv, NEW w \in Worker, ReadZoom(w)
  PROVE  IInv'
<1>. DEFINE payload == worker[w].payload
<1>1. /\ worker[w].pc = "reading"
      /\ UNCHANGED <<row, zoom, lock, request, jobs, reached, faults>>
  BY DEF ReadZoom
<1>2. /\ WorkerOK(w) /\ payload \in Payload /\ worker[w].op \in OpId
      /\ worker[w].token \in Token
      /\ worker[w].op = row.opId => payload = row.payload
  BY <1>1 DEF IInv, Workers, WorkerOK, IsUpdate
<1>3. ASSUME NEW pc \in {"mismatched", "locking", "settling"},
             NEW goal \in {"retry", "review", "gone", "patch"},
             worker' = Moved(w, pc, goal),
             goal \in Goals(pc), goal = "gone" => pc = "locking" /\ zoom = Absent
      PROVE  IInv'
  <2>1. Passed(w, worker', pc, goal)
    BY <1>3, MovedForm DEF IInv
  <2>2. ~NeedsLock(w)'
    BY <2>1, <1>3 DEF NeedsLock, Passed
  <2>3. WorkerOK(w)'
    BY <1>1, <1>2, <1>3, <2>1, <2>2 DEF WorkerOK, Passed
  <2>. QED BY <1>1, <2>1, <2>3, WorkerAlone DEF IInv, TypeOK, Passed
<1>4. CASE worker' = Moved(w, "settling", "retry")
  BY <1>3, <1>4 DEF Goals
<1>5. CASE worker' = Moved(w, "settling", "review")
  BY <1>3, <1>5 DEF Goals
<1>6. CASE zoom = Absent /\ worker' = Moved(w, "locking", "gone")
  BY <1>3, <1>6 DEF Goals
<1>7. CASE worker' = Moved(w, "mismatched", "patch")
  BY <1>3, <1>7 DEF Goals
<1>8. CASE worker' = Moved(w, "locking", "patch")
  BY <1>3, <1>8 DEF Goals
<1>9. CASE /\ zoom # Absent /\ HasRequestedFields(payload, zoom)
           /\ worker' = [Moved(w, "locking", "snapshot") EXCEPT ![w].snapshot = zoom]
  <2>. DEFINE n == Moved(w, "locking", "snapshot")
  <2>1. Passed(w, n, "locking", "snapshot") /\ zoom \in Fields
    BY <1>9, MovedForm DEF IInv, TypeOK
  <2>2. worker' = [n EXCEPT ![w].snapshot = zoom]
    BY <1>9
  <2>. HIDE DEF n
  <2>3. /\ Passed(w, n, "locking", "snapshot") /\ n \in [Worker -> Recovery]
        /\ \A v \in Worker \ {w} : worker'[v] = worker[v]
    BY <2>1, <2>2 DEF Passed
  <2>4. /\ worker' \in [Worker -> Recovery]
        /\ worker'[w].pc = "locking" /\ worker'[w].goal = "snapshot"
        /\ worker'[w].op = worker[w].op /\ worker'[w].token = worker[w].token
        /\ worker'[w].payload = worker[w].payload /\ worker'[w].snapshot = zoom
    BY <2>1, <2>2, <2>3 DEF Passed, Recovery
  <2>5. "snapshot" \in Goals("locking")
    BY DEF Goals
  <2>6. ~NeedsLock(w)'
    BY <2>4 DEF NeedsLock
  <2>7. worker'[w].op = row'.opId => ZoomShowsUpdate'
    BY <1>1, <1>2, <1>9, <2>4 DEF ZoomShowsUpdate
  <2>8. WorkerOK(w)'
    BY <1>1, <1>2, <2>4, <2>5, <2>6, <2>7 DEF WorkerOK
  <2>. QED BY <1>1, <2>3, <2>4, <2>8, WorkerAlone DEF IInv, TypeOK
<1>. QED BY <1>4, <1>5, <1>6, <1>7, <1>8, <1>9 DEF ReadZoom

LEMMA MismatchKeeps ==
  ASSUME IInv, NEW w \in Worker, ConsumeMismatchCycle(w)
  PROVE  IInv'
<1>1. /\ worker[w].pc = "mismatched"
      /\ UNCHANGED <<zoom, lock, request, jobs, reached, faults>>
  BY DEF ConsumeMismatchCycle
<1>2. WorkerOK(w) /\ row \in Row /\ MaxAttempts \in Nat /\ row.attempts \in Nat
  BY RowAssumption DEF IInv, Workers, TypeOK, Row
<1>3. CASE ~Owns(w) /\ worker' = Ended(w) /\ UNCHANGED row
  <2>1. Stopped(w, worker')
    BY <1>3, EndedForm DEF IInv
  <2>. QED BY <1>1, <1>3, <2>1, NoRecoveryIsOK, WorkerAlone DEF IInv, TypeOK, Stopped
<1>4. CASE /\ Owns(w) /\ ShouldRetry(row.attempts + 1)
           /\ row' = [row EXCEPT !.attempts = @ + 1]
           /\ worker' = Moved(w, "locking", "patch")
  <2>1. row.status \in Pending /\ \A r \in Request : request[r].pc = "idle"
    BY <1>1, <1>4, OwnersRow
  <2>2. /\ row' \in Row /\ Recorded(row, row') /\ row'.status = row.status
        /\ row'.claim = row.claim /\ row'.lease = row.lease /\ row'.avail = row.avail
        /\ row'.attempts < MaxAttempts
    BY <1>2, <1>4, CountedForm DEF ShouldRetry
  <2>3. Passed(w, worker', "locking", "patch")
    BY <1>4, MovedForm DEF IInv
  <2>4. TypeOK'
    BY <1>1, <2>2, <2>3 DEF IInv, TypeOK, Passed
  <2>5. RowShape'
    BY <2>2 DEF IInv, RowShape, ClaimHasLease, Recorded
  <2>6. Requests'
    BY <1>1, <2>1, RequestsKept DEF IInv
  <2>7. WorkerOK(w)'
    <3>1. "patch" \in Goals("locking") /\ IsUpdate(w)
      BY <1>1 DEF Goals, IsUpdate
    <3>. QED BY <1>1, <1>2, <2>2, <2>3, <3>1 DEF WorkerOK, Passed, Recorded, NeedsLock, IsUpdate
  <2>8. ASSUME NEW v \in Worker \ {w}  PROVE WorkerOK(v)'
    <3>1. worker'[v] = worker[v] /\ row'.opId = row.opId /\ row'.payload = row.payload
      BY <2>2, <2>3 DEF Passed, Recorded
    <3>. QED BY <1>1, <3>1, WorkerKept DEF IInv, Workers
  <2>. QED BY <2>4, <2>5, <2>6, <2>7, <2>8 DEF IInv, Workers
<1>5. CASE /\ Owns(w)
           /\ row' = [HandedOver(row, "update_failed") EXCEPT !.attempts = @ + 1]
           /\ worker' = Ended(w)
  <2>1. /\ row.status \in Pending /\ row.attempts < MaxAttempts
        /\ \A r \in Request : request[r].pc = "idle"
    BY <1>1, <1>5, OwnersRow
  <2>2. row.opType = "update"
    BY <1>1, <1>5, SameKind DEF Owns, IsOperationCurrent, IsUpdate
  <2>3. row' \in Row /\ GivenUp(row')
    BY <1>2, <1>5, <2>1, <2>2, HandedOverIsGivenUp
  <2>4. Stopped(w, worker')
    BY <1>5, EndedForm DEF IInv
  <2>5. TypeOK'
    BY <1>1, <2>3, <2>4 DEF IInv, TypeOK, Stopped
  <2>6. RowShape'
    BY <2>1, <2>3, OutcomeShape DEF IInv, Outcome
  <2>7. Requests'
    BY <1>1, <2>1, RequestsKept DEF IInv
  <2>8. ASSUME NEW v \in Worker \ {w}  PROVE WorkerOK(v)'
    <3>1. worker'[v] = worker[v] /\ row'.opId = row.opId /\ row'.payload = row.payload
      BY <2>3, <2>4 DEF Stopped, GivenUp, Recorded
    <3>. QED BY <1>1, <3>1, WorkerKept DEF IInv, Workers
  <2>9. WorkerOK(w)'
    BY <2>4, NoRecoveryIsOK DEF Stopped
  <2>. QED BY <2>5, <2>6, <2>7, <2>8, <2>9 DEF IInv, Workers
<1>. QED BY <1>3, <1>4, <1>5 DEF ConsumeMismatchCycle

LEMMA TakeLockKeeps ==
  ASSUME IInv, NEW w \in Worker, TakeLock(w)
  PROVE  IInv'
<1>. DEFINE goal == worker[w].goal
            pc == IF goal \in {"patch", "delete"} THEN "calling" ELSE "settling"
<1>1. /\ worker[w].pc = "locking" /\ lock = Null
      /\ UNCHANGED <<row, zoom, request, jobs, reached, faults>>
  BY DEF TakeLock
<1>2. WorkerOK(w) /\ goal \in {"patch", "delete", "snapshot", "gone"}
  BY <1>1 DEF IInv, Workers, WorkerOK, Goals
<1>3. CASE worker' = Ended(w) /\ UNCHANGED lock
  <2>1. Stopped(w, worker')
    BY <1>3, EndedForm DEF IInv
  <2>. QED BY <1>1, <1>3, <2>1, NoRecoveryIsOK, WorkerAlone DEF IInv, TypeOK, Stopped
<1>4. CASE Owns(w) /\ lock' = w /\ worker' = Moved(w, pc, goal)
  <2>1. Passed(w, worker', pc, goal)
    BY <1>2, <1>4, MovedForm DEF IInv
  <2>2. TypeOK'
    BY <1>1, <1>4, <2>1 DEF IInv, TypeOK, Passed
  <2>3. RowShape'
    BY <1>1 DEF IInv, RowShape, ClaimHasLease
  <2>4. \A r \in Request : request[r].pc = "idle"
    BY <1>1, OperationAssumption DEF IInv, Requests, RequestOK, Undisturbed
  <2>5. Requests'
    BY <1>1, <2>4, RequestsKept DEF IInv
  <2>6. goal \in Goals(pc) /\ pc \in {"calling", "settling"}
    BY <1>2 DEF Goals
  <2>7. worker[w].op = row.opId
    BY <1>4 DEF Owns, IsOperationCurrent
  <2>8. WorkerOK(w)'
    BY <1>1, <1>2, <1>4, <2>1, <2>6, <2>7 DEF WorkerOK, Passed, IsUpdate, ZoomShowsUpdate
  <2>9. ASSUME NEW v \in Worker \ {w}  PROVE WorkerOK(v)'
    <3>1. WorkerOK(v) /\ worker'[v] = worker[v]
      BY <2>1 DEF IInv, Workers, Passed
    <3>2. ~NeedsLock(v)
      BY <1>1, <3>1, OperationAssumption DEF WorkerOK, NeedsLock
    <3>. QED BY <1>1, <3>1, <3>2, WorkerKept DEF IInv
  <2>. QED BY <2>2, <2>3, <2>5, <2>8, <2>9 DEF IInv, Workers
<1>. QED BY <1>3, <1>4 DEF TakeLock

\* A worker about to call Zoom, and what it will send.
LEMMA Calling ==
  ASSUME IInv, NEW w \in Worker, worker[w].pc = "calling"
  PROVE  /\ WorkerOK(w) /\ lock = w /\ worker[w].op = row.opId
         /\ worker[w].payload = row.payload
         /\ \/ worker[w].goal = "patch" /\ row.opType = "update" /\ row.payload \in Payload
            \/ worker[w].goal = "delete" /\ row.opType = "delete" /\ row.payload = Null
<1>1. WorkerOK(w) /\ lock = w /\ worker[w].op = row.opId
  BY DEF IInv, Workers, WorkerOK, NeedsLock
<1>2. worker[w].goal \in {"patch", "delete"}
  BY <1>1 DEF WorkerOK, Goals
<1>. QED BY <1>1, <1>2, SameKind DEF IsUpdate

LEMMA WorkerCallsKeeps ==
  ASSUME IInv, NEW w \in Worker, WorkerCallsZoom(w)
  PROVE  IInv'
<1>. PICK reply \in ZoomReplies(row.opType, worker[w].payload) :
       /\ zoom' = reply.zoom
       /\ reached' = reply.reached
       /\ worker' = Moved(w, "settling", AfterCall(w, reply.answer))
       /\ lock' = IF reply.answer = "ok" THEN lock ELSE Unlocked(w)
  BY DEF WorkerCallsZoom
<1>. DEFINE goal == AfterCall(w, reply.answer)
<1>1. worker[w].pc = "calling" /\ UNCHANGED <<row, request, jobs, faults>>
  BY DEF WorkerCallsZoom
<1>2. /\ WorkerOK(w) /\ lock = w /\ worker[w].op = row.opId
      /\ worker[w].payload = row.payload
      /\ \/ worker[w].goal = "patch" /\ row.opType = "update" /\ row.payload \in Payload
         \/ worker[w].goal = "delete" /\ row.opType = "delete" /\ row.payload = Null
  BY <1>1, Calling
<1>3. /\ reply.answer \in {"ok", "unknown", "limited", "rejected", "broken"}
      /\ Wrote(row.opType, row.payload, zoom', reached')
      /\ reply.answer = "ok" /\ row.opType = "delete" => zoom' = Absent
      /\ reply.answer = "ok" /\ row.opType # "delete" =>
           zoom # Absent /\ zoom' = Updated(zoom, row.payload)
  BY <1>2, Replies
<1>4. /\ goal \in {"gone", "verify", "apply", "retry", "review"}
      /\ goal = "gone" => reply.answer = "ok" /\ worker[w].goal = "delete"
      /\ goal = "apply" => reply.answer = "ok" /\ worker[w].goal = "patch"
      /\ goal = "verify" => worker[w].goal = "patch"
  BY <1>2, <1>3 DEF AfterCall
<1>. HIDE DEF goal
<1>5. Passed(w, worker', "settling", goal)
  BY <1>4, MovedForm DEF IInv, goal
<1>6. zoom' \in Fields \cup {Absent} /\ reached' \in BOOLEAN
  BY <1>2, <1>3, WroteTypes DEF IInv
<1>7. lock' \in {w, Null} /\ (reply.answer = "ok" => lock' = w)
  BY <1>2 DEF Unlocked
<1>8. TypeOK'
  BY <1>1, <1>5, <1>6, <1>7 DEF IInv, TypeOK, Passed
<1>9. RowShape'
  BY <1>1 DEF IInv, RowShape, ClaimHasLease
<1>10. /\ \A r \in Request : request[r].pc = "idle"
       /\ \A v \in Worker \ {w} : ~NeedsLock(v)
  BY <1>2, HoldersRow
<1>11. Requests'
  BY <1>1, <1>10, RequestsKept DEF IInv
<1>12. goal = "gone" => zoom' = Absent
  BY <1>2, <1>3, <1>4
<1>13. ASSUME goal = "apply"  PROVE ZoomShowsUpdate'
  <2>1. zoom \in Fields /\ zoom' = Updated(zoom, row.payload) /\ row.payload \in Payload
    BY <1>2, <1>3, <1>4, <1>13 DEF IInv, TypeOK
  <2>2. zoom' \in Fields /\ HasRequestedFields(row.payload, zoom')
    BY <2>1, UpdatedShows
  <2>3. zoom' # Absent
    BY <2>2, OperationAssumption DEF Fields
  <2>. QED BY <2>2, <2>3, <1>1 DEF ZoomShowsUpdate
<1>14. NeedsLock(w)' => lock' = w /\ worker'[w].op = row'.opId
  BY <1>1, <1>2, <1>4, <1>5, <1>7 DEF NeedsLock, Passed
<1>15. IsUpdate(w)' => row.payload \in Payload
  BY <1>2, <1>4, <1>5 DEF IsUpdate, Passed
<1>16. goal \in Goals("settling")
  BY <1>4 DEF Goals
<1>17. WorkerOK(w)'
  BY <1>1, <1>2, <1>4, <1>5, <1>12, <1>13, <1>14, <1>15, <1>16 DEF WorkerOK, Passed
<1>18. ASSUME NEW v \in Worker \ {w}  PROVE WorkerOK(v)'
  <2>1. WorkerOK(v) /\ worker'[v] = worker[v]
    BY <1>5 DEF IInv, Workers, Passed
  <2>. QED BY <1>1, <1>3, <1>10, <2>1, WorkerWatches DEF IInv
<1>. QED BY <1>8, <1>9, <1>11, <1>17, <1>18 DEF IInv, Workers

LEMMA SettleOutcome ==
  ASSUME IInv, NEW w \in Worker, Settle(w)
  PROVE  \/ row' = row
         \/ row.status \in Pending /\ row' \in Row /\ Outcome(row')
<1>. DEFINE goal == worker[w].goal
<1>1. worker[w].pc = "settling" /\ row' = IF Owns(w) THEN Settled(w) ELSE row
  BY DEF Settle
<1>2. CASE ~Owns(w)
  BY <1>1, <1>2
<1>3. CASE Owns(w)
  <2>1. /\ row.status \in Pending /\ row.attempts < MaxAttempts
        /\ WorkerOK(w) /\ row \in Row
    BY <1>1, <1>3, OwnersRow DEF IInv, Workers, TypeOK
  <2>2. goal \in {"snapshot", "apply", "gone", "verify", "retry", "review"}
    BY <1>1, <2>1 DEF WorkerOK, Goals
  <2>3. worker[w].op = row.opId
    BY <1>3 DEF Owns, IsOperationCurrent
  <2>4. goal \in {"snapshot", "apply"} =>
          /\ row.status = "updating" /\ row.payload \in Payload
          /\ worker[w].payload = row.payload /\ ZoomShowsUpdate
    BY <1>1, <2>1, <2>3, SameKind DEF IsUpdate, WorkerOK, IInv, RowShape, Pending
  <2>5. row' = Settled(w)
    BY <1>1, <1>3
  <2>6. CASE goal = "snapshot"
    <3>1. worker[w].snapshot = zoom /\ zoom \in Fields
      BY <1>1, <2>1, <2>3, <2>4, <2>6 DEF WorkerOK, ZoomShowsUpdate, IInv, TypeOK
    <3>2. row' = [Closed(row, "active") EXCEPT !.local = zoom]
      BY <2>5, <2>6, <3>1 DEF Settled
    <3>. QED BY <2>1, <2>4, <2>6, <3>1, <3>2, ClosedIsOver DEF Outcome
  <2>7. CASE goal = "apply"
    <3>. DEFINE c == Closed(row, "active")
                local == Updated(row.local, row.payload)
    <3>1. row' = [c EXCEPT !.local = Updated(@, worker[w].payload)]
      BY <2>5, <2>7 DEF Settled
    <3>2. c \in Row /\ Over(c, "active", row.local) /\ local \in Fields
      BY <2>1, <2>4, <2>7, ClosedIsOver, UpdatedShows DEF Row
    <3>. HIDE DEF c
    <3>3. row' = [c EXCEPT !.local = local]
      BY <2>4, <2>7, <3>1, <3>2 DEF Over
    <3>. HIDE DEF local
    <3>4. row' \in Row /\ Over(row', "active", local)
      BY <2>1, <3>2, <3>3, ClosedIsOver DEF c
    <3>. QED BY <2>1, <2>4, <2>7, <3>4 DEF Outcome, local
  <2>8. CASE goal = "gone"
    <3>1. row' = Closed(row, "deleted") /\ zoom = Absent
      BY <1>1, <2>1, <2>5, <2>8 DEF Settled, WorkerOK
    <3>. QED BY <2>1, <3>1, ClosedIsOver DEF Outcome
  <2>9. CASE goal = "verify"
    <3>1. row' = Waiting(row)
      BY <2>5, <2>9 DEF Settled
    <3>. QED BY <2>1, <3>1, WaitingDelays DEF Outcome
  <2>10. Review(row) \in Row /\ GivenUp(Review(row))
    BY <2>1, HandedOverIsGivenUp DEF Review
  <2>11. CASE goal = "retry"
    <3>1. row' = Retried
      BY <2>5, <2>11 DEF Settled
    <3>2. CASE ShouldRetry(row.attempts + 1)
      BY <2>1, <3>1, <3>2, CountingDelays DEF Retried, ShouldRetry, Outcome
    <3>3. CASE ~ShouldRetry(row.attempts + 1)
      BY <2>1, <2>10, <3>1, <3>3 DEF Retried, Outcome
    <3>. QED BY <3>2, <3>3
  <2>12. CASE goal = "review"
    <3>1. row' = Review(row)
      BY <2>5, <2>12 DEF Settled
    <3>. QED BY <2>1, <2>10, <3>1 DEF Outcome
  <2>. QED BY <2>2, <2>6, <2>7, <2>8, <2>9, <2>11, <2>12
<1>. QED BY <1>2, <1>3

LEMMA SettleKeeps ==
  ASSUME IInv, NEW w \in Worker, Settle(w)
  PROVE  IInv'
<1>1. /\ worker[w].pc = "settling" /\ worker' = Ended(w) /\ lock' = Unlocked(w)
      /\ row' = (IF Owns(w) THEN Settled(w) ELSE row)
      /\ UNCHANGED <<zoom, request, jobs, reached, faults>>
  BY DEF Settle
<1>2. Stopped(w, worker') /\ WorkerOK(w)'
  BY <1>1, EndedForm, NoRecoveryIsOK DEF IInv, Stopped
<1>3. /\ row' \in Row /\ RowShape'
      /\ (row'.opId = row.opId /\ row'.payload = row.payload) \/ row'.opId = Null
  <2>1. CASE row' = row
    BY <2>1 DEF IInv, TypeOK, RowShape, ClaimHasLease
  <2>2. CASE row.status \in Pending /\ row' \in Row /\ Outcome(row')
    BY <2>2, OutcomeShape DEF IInv
  <2>. QED BY <2>1, <2>2, SettleOutcome
<1>4. lock' \in {lock, Null} /\ (lock # w => lock' = lock)
  BY <1>1 DEF Unlocked
<1>5. TypeOK'
  BY <1>1, <1>2, <1>3, <1>4 DEF IInv, TypeOK, Stopped
<1>6. Requests'
  <2>1. (lock = w \/ Owns(w)) => \A r \in Request : request[r].pc = "idle"
    BY <1>1, HoldersRow, OwnersRow
  <2>2. lock # w /\ ~Owns(w) => UNCHANGED <<row, lock, zoom, reached>>
    BY <1>1, <1>4
  <2>. QED BY <1>1, <2>1, <2>2, RequestsKept DEF IInv
<1>7. ASSUME NEW v \in Worker \ {w}  PROVE WorkerOK(v)'
  <2>1. WorkerOK(v) /\ worker'[v] = worker[v]
    BY <1>2 DEF IInv, Workers, Stopped
  <2>2. CASE worker[v].pc = "idle"
    BY <2>1, <2>2, NoRecoveryIsOK DEF WorkerOK
  <2>3. CASE worker[v].pc # "idle"
    <3>1. worker[v].op \in OpId
      BY <2>1, <2>3 DEF WorkerOK
    <3>2. row'.opId = worker[v].op => row'.opId = row.opId /\ row'.payload = row.payload
      BY <3>1, <1>3, RowAssumption
    <3>3. ASSUME NeedsLock(v)  PROVE lock' = lock /\ row'.opId = row.opId
      <4>1. lock = v /\ lock # w
        BY <2>1, <2>3, <3>3 DEF WorkerOK
      <4>2. ~NeedsLock(w)
        BY <4>1, HoldersRow
      <4>3. Owns(w) => worker[w].goal \in {"verify", "retry", "review"}
        <5>1. worker[w].goal \in {"snapshot", "apply", "gone", "verify", "retry", "review"}
          BY <1>1 DEF IInv, Workers, WorkerOK, Goals
        <5>. QED BY <5>1, <4>2, <1>1 DEF NeedsLock
      <4>4. CASE ~Owns(w)
        BY <1>1, <1>4, <4>1, <4>4
      <4>5. CASE Owns(w)
        <5>1. row.attempts < MaxAttempts /\ row \in Row
          BY <1>1, <4>5, OwnersRow DEF IInv, TypeOK
        <5>2. Delayed(Waiting(row)) /\ GivenUp(Review(row))
          BY <5>1, WaitingDelays, HandedOverIsGivenUp DEF Review
        <5>3. ShouldRetry(row.attempts + 1) =>
                Delayed([Waiting(row) EXCEPT !.attempts = @ + 1])
          BY <5>1, CountingDelays DEF ShouldRetry
        <5>4. row' = Settled(w)
          BY <1>1, <4>5
        <5>5. Delayed(row') \/ GivenUp(row')
          <6>1. CASE worker[w].goal = "verify"
            BY <5>2, <5>4, <6>1 DEF Settled
          <6>2. CASE worker[w].goal = "review"
            BY <5>2, <5>4, <6>2 DEF Settled
          <6>3. CASE worker[w].goal = "retry"
            <7>1. row' = Retried
              BY <5>4, <6>3 DEF Settled
            <7>. QED BY <5>2, <5>3, <7>1 DEF Retried
          <6>. QED BY <4>3, <4>5, <6>1, <6>2, <6>3
        <5>. QED BY <5>5, <4>1, <1>4 DEF Delayed, GivenUp, Recorded
      <4>. QED BY <4>4, <4>5
    <3>. QED BY <2>1, <3>2, <3>3, <1>1, WorkerKept DEF IInv
  <2>. QED BY <2>2, <2>3
<1>. QED BY <1>2, <1>3, <1>5, <1>6, <1>7 DEF IInv, Workers

LEMMA WorkerCrashKeeps ==
  ASSUME IInv, NEW w \in Worker, WorkerCrashes(w)
  PROVE  IInv'
<1>1. /\ worker[w].pc # "idle" /\ worker' = Ended(w) /\ UNCHANGED <<row, request>>
      /\ lock' = (IF lock = w THEN Orphan ELSE lock)
      /\ \/ jobs' = jobs
         \/ jobs' = jobs \cup {[op |-> worker[w].op, token |-> worker[w].token]}
      /\ faults' \in 0..MaxFaults
  BY OperationAssumption DEF WorkerCrashes, Fault, IInv, TypeOK
<1>2. Stopped(w, worker') /\ WorkerOK(w)'
  BY <1>1, EndedForm, NoRecoveryIsOK DEF IInv, Stopped
<1>3. WorkerOK(w)
  BY DEF IInv, Workers
<1>4. jobs' \subseteq Job
  <2>1. [op |-> worker[w].op, token |-> worker[w].token] \in Job
    BY <1>1, <1>3 DEF WorkerOK, Job
  <2>. QED BY <1>1, <2>1 DEF IInv, TypeOK
<1>5. \/ UNCHANGED <<zoom, reached>>
      \/ worker[w].pc = "calling" /\ Wrote(row.opType, row.payload, zoom', reached')
  <2>1. ASSUME worker[w].pc = "calling",
               NEW reply \in ZoomReplies(row.opType, worker[w].payload),
               zoom' = reply.zoom, reached' = reply.reached
        PROVE  Wrote(row.opType, row.payload, zoom', reached')
    <3>1. worker[w].payload = row.payload
      BY <2>1, Calling
    <3>. QED BY <2>1, <3>1, Replies
  <2>. QED BY <2>1 DEF WorkerCrashes
<1>6. zoom' \in Fields \cup {Absent} /\ reached' \in BOOLEAN
  <2>1. CASE UNCHANGED <<zoom, reached>>
    BY <2>1 DEF IInv, TypeOK
  <2>2. CASE worker[w].pc = "calling" /\ Wrote(row.opType, row.payload, zoom', reached')
    <3>1. /\ row.opType \in {"update", "delete"}
          /\ row.opType = "update" => row.payload \in Payload
      BY <2>2, Calling
    <3>. QED BY <2>2, <3>1, WroteTypes DEF IInv
  <2>. QED BY <1>5, <2>1, <2>2
<1>7. TypeOK'
  BY <1>1, <1>2, <1>4, <1>6 DEF IInv, TypeOK, Stopped
<1>8. RowShape'
  BY <1>1 DEF IInv, RowShape, ClaimHasLease
<1>9. CASE lock = w
  <2>1. /\ \A r \in Request : request[r].pc = "idle"
        /\ \A v \in Worker \ {w} : ~NeedsLock(v)
    BY <1>9, HoldersRow
  <2>2. Requests'
    BY <1>1, <2>1, RequestsKept DEF IInv
  <2>3. Wrote(row.opType, row.payload, zoom', reached')
    BY <1>5 DEF Wrote
  <2>4. ASSUME NEW v \in Worker \ {w}  PROVE WorkerOK(v)'
    <3>1. WorkerOK(v) /\ worker'[v] = worker[v]
      BY <1>2 DEF IInv, Workers, Stopped
    <3>. QED BY <1>1, <2>1, <2>3, <3>1, WorkerWatches DEF IInv
  <2>. QED BY <1>2, <1>7, <1>8, <2>2, <2>4 DEF IInv, Workers
<1>10. CASE lock # w
  <2>1. UNCHANGED <<row, zoom, reached, lock, request>>
    BY <1>1, <1>5, <1>10, Calling
  <2>. QED BY <1>1, <1>2, <1>4, <2>1, WorkerAlone DEF Stopped
<1>. QED BY <1>9, <1>10

-----------------------------------------------------------------------------
(* Time and the queue.                                                     *)

\* A step that changes the times of the row only.
LEMMA TimePasses ==
  ASSUME IInv, UNCHANGED <<zoom, lock, request, worker, reached>>,
         row' \in Row, jobs' \subseteq Job, faults' \in 0..MaxFaults,
         row'.opId = row.opId, row'.payload = row.payload, RowShape',
         \A r \in Request : request[r].pc = "idle"
  PROVE  IInv'
<1>1. TypeOK'
  BY DEF IInv, TypeOK
<1>2. Requests'
  BY RequestsKept DEF IInv
<1>3. ASSUME NEW w \in Worker  PROVE WorkerOK(w)'
  BY WorkerKept DEF IInv, Workers
<1>. QED BY <1>1, <1>2, <1>3 DEF IInv, Workers

\* A row that is selected, has a lapsed lease or a retry time has no request.
LEMMA NoRequestAtIt ==
  ASSUME IInv, Selected(row) \/ row.avail # Null \/ row.lease # "live"
  PROVE  \A r \in Request : request[r].pc = "idle"
<1>. SUFFICES ASSUME NEW r \in Request, request[r].pc # "idle"  PROVE FALSE
  OBVIOUS
<1>1. Undisturbed(r)
  BY RunningRequest
<1>. QED BY <1>1, RowAssumption
         DEF Undisturbed, Selected, ReadyForRecovery, Pending, Rejected

LEMMA ClaimKeeps ==
  ASSUME IInv, ClaimNextDueOperation
  PROVE  IInv'
<1>1. /\ Selected(row) /\ row \in Row
      /\ UNCHANGED <<zoom, lock, request, worker, reached>>
  BY DEF ClaimNextDueOperation, IInv, TypeOK
<1>2. PICK t \in Token :
        /\ row' = [row EXCEPT !.claim = t, !.lease = "live"]
        /\ \/ jobs' = jobs \cup {[op |-> row.opId, token |-> t]} /\ UNCHANGED faults
           \/ Fault /\ UNCHANGED jobs
  BY DEF ClaimNextDueOperation
<1>3. row.status \in Pending
  BY <1>1, RowAssumption DEF Selected, ReadyForRecovery, IInv, RowShape, Pending, Rejected
<1>4. row.opId \in OpId
  BY <1>3 DEF IInv, RowShape, Pending
<1>5. jobs' \subseteq Job /\ faults' \in 0..MaxFaults
  <2>1. [op |-> row.opId, token |-> t] \in Job
    BY <1>4 DEF Job
  <2>. QED BY <1>2, <2>1, OperationAssumption DEF IInv, TypeOK, Fault
<1>6. /\ row' \in Row /\ row'.status = row.status /\ row'.opId = row.opId
      /\ row'.opType = row.opType /\ row'.payload = row.payload
      /\ row'.lease = "live" /\ row'.attempts = row.attempts
  BY <1>1, <1>2 DEF Row
<1>7. RowShape'
  BY <1>3, <1>6, RowAssumption DEF IInv, RowShape, ClaimHasLease, Pending
<1>. QED BY <1>1, <1>5, <1>6, <1>7, NoRequestAtIt, TimePasses

LEMMA LeaseExpiresKeeps ==
  ASSUME IInv, LeaseExpires
  PROVE  IInv'
<1>1. /\ row.lease = "live" /\ row \in Row
      /\ \A r \in Request : request[r].pc # "idle" => request[r].op # row.opId
      /\ row' = [row EXCEPT !.lease = "expired"]
      /\ UNCHANGED <<zoom, lock, request, worker, jobs, reached>>
  BY DEF LeaseExpires, IInv, TypeOK
<1>2. faults' \in 0..MaxFaults /\ jobs' \subseteq Job
  BY OperationAssumption DEF LeaseExpires, Fault, IInv, TypeOK
<1>3. \A r \in Request : request[r].pc = "idle"
  BY <1>1 DEF IInv, Requests, RequestOK, Undisturbed
<1>4. /\ row' \in Row /\ row'.status = row.status /\ row'.opId = row.opId
      /\ row'.opType = row.opType /\ row'.payload = row.payload
      /\ row'.lease = "expired" /\ row'.attempts = row.attempts
  BY <1>1 DEF Row
<1>5. row.status \in Pending
  BY <1>1, RowAssumption DEF IInv, RowShape
<1>6. RowShape'
  BY <1>4, <1>5, RowAssumption DEF IInv, RowShape, ClaimHasLease, Pending
<1>. QED BY <1>1, <1>2, <1>3, <1>4, <1>6, TimePasses

LEMMA RetryBecomesDueKeeps ==
  ASSUME IInv, RetryBecomesDue
  PROVE  IInv'
<1>1. /\ row.avail = "later" /\ row \in Row
      /\ row' = [row EXCEPT !.avail = "due"]
      /\ UNCHANGED <<zoom, lock, request, worker, jobs, reached, faults>>
  BY DEF RetryBecomesDue, IInv, TypeOK
<1>2. \A r \in Request : request[r].pc = "idle"
  BY <1>1, RowAssumption, NoRequestAtIt
<1>3. /\ row' \in Row /\ row'.status = row.status /\ row'.opId = row.opId
      /\ row'.opType = row.opType /\ row'.payload = row.payload
      /\ row'.claim = row.claim /\ row'.lease = row.lease
      /\ row'.avail = "due" /\ row'.attempts = row.attempts
  BY <1>1 DEF Row
<1>4. row.status \in Pending
  BY <1>1, RowAssumption DEF IInv, RowShape
<1>5. RowShape'
  BY <1>3, <1>4, RowAssumption DEF IInv, RowShape, ClaimHasLease, Pending
<1>. QED BY <1>1, <1>2, <1>3, <1>5, TimePasses DEF IInv, TypeOK

LEMMA OrphanedLockKeeps ==
  ASSUME IInv, OrphanedLockExpires
  PROVE  IInv'
<1>1. /\ lock = Orphan /\ lock' = Null
      /\ UNCHANGED <<row, zoom, request, worker, jobs, reached, faults>>
  BY DEF OrphanedLockExpires
<1>2. TypeOK' /\ RowShape'
  BY <1>1 DEF IInv, TypeOK, RowShape, ClaimHasLease
<1>3. \A r \in Request : request[r].pc = "idle"
  BY <1>1, OperationAssumption DEF IInv, Requests, RequestOK, Undisturbed
<1>4. Requests'
  BY <1>1, <1>3, RequestsKept DEF IInv
<1>5. ASSUME NEW w \in Worker  PROVE WorkerOK(w)'
  <2>1. WorkerOK(w) /\ lock # w
    BY <1>1, OperationAssumption DEF IInv, Workers
  <2>2. ~NeedsLock(w)
    BY <2>1 DEF WorkerOK, NeedsLock
  <2>. QED BY <1>1, <2>1, <2>2, WorkerKept DEF IInv
<1>. QED BY <1>2, <1>4, <1>5 DEF IInv, Workers

LEMMA LoseJobKeeps ==
  ASSUME IInv, LoseJob
  PROVE  IInv'
<1>1. /\ UNCHANGED <<row, zoom, lock, request, worker, reached>>
      /\ jobs' \subseteq Job /\ faults' \in 0..MaxFaults
  BY OperationAssumption DEF LoseJob, Fault, IInv, TypeOK
<1>. QED BY <1>1, WorkerAlone DEF IInv, TypeOK

-----------------------------------------------------------------------------
(* The invariant.                                                          *)

LEMMA InitIInv ==
  ASSUME Init
  PROVE  IInv
<1>. PICK fields \in Fields :
       /\ row = [status |-> "active", opId |-> Null, opType |-> Null,
                 payload |-> Null, claim |-> Null, lease |-> Null,
                 avail |-> Null, attempts |-> 0, local |-> fields]
       /\ zoom = fields
  BY DEF Init
<1>1. TypeOK
  <2>1. row \in Row
    BY RowAssumption DEF Row
  <2>2. NoRequest \in HttpRequest /\ NoRecovery \in Recovery
    BY DEF NoRequest, HttpRequest, NoRecovery, Recovery
  <2>3. /\ zoom \in Fields /\ lock = Null /\ jobs = {} /\ reached = FALSE
        /\ request \in [Request -> HttpRequest] /\ worker \in [Worker -> Recovery]
    BY <2>2 DEF Init
  <2>4. faults \in 0..MaxFaults
    BY OperationAssumption DEF Init
  <2>. QED BY <2>1, <2>3, <2>4 DEF TypeOK
<1>2. RowShape
  BY RowAssumption DEF RowShape, ClaimHasLease, Pending
<1>3. Requests
  BY DEF Init, Requests, RequestOK, NoRequest
<1>4. Workers
  BY DEF Init, Workers, WorkerOK, NoRecovery
<1>. QED BY <1>1, <1>2, <1>3, <1>4 DEF IInv

LEMMA NextIInv ==
  ASSUME IInv, [Next]_vars
  PROVE  IInv'
<1>1. CASE UNCHANGED vars
  BY <1>1, WorkerAlone DEF vars, IInv, TypeOK
<1>2. ASSUME NEW r \in Request, RequestStep(r)  PROVE IInv'
  <2>1. ASSUME NEW payload \in Payload, SaveUpdateIntent(r, payload)  PROVE IInv'
    BY <2>1, BeginKeeps DEF SaveUpdateIntent
  <2>2. CASE SaveDeleteIntent(r)
    BY <2>2, BeginKeeps DEF SaveDeleteIntent
  <2>. QED BY <1>2, <2>1, <2>2, RequestCallsKeeps, FinishKeeps, RequestCrashKeeps
           DEF RequestStep
<1>3. ASSUME NEW w \in Worker, WorkerStep(w)  PROVE IInv'
  <2>1. CASE Progress(w)
    BY <2>1, ReadKeeps, MismatchKeeps, TakeLockKeeps, LockTimesOutKeeps,
       WorkerCallsKeeps, SettleKeeps DEF Progress
  <2>. QED BY <1>3, <2>1, StartKeeps, WorkerCrashKeeps DEF WorkerStep
<1>. QED BY <1>1, <1>2, <1>3, ClaimKeeps, LeaseExpiresKeeps, RetryBecomesDueKeeps,
         OrphanedLockKeeps, LoseJobKeeps DEF Next

\* The inductive invariant of the module: what the theorems rest on.
THEOREM Invariance == Spec => []IInv
<1>1. Init => IInv
  BY InitIInv
<1>2. IInv /\ [Next]_vars => IInv'
  BY NextIInv
<1>. QED BY <1>1, <1>2, PTL DEF Spec

-----------------------------------------------------------------------------
(* Theorems.                                                               *)

\* Every variable keeps its type; in particular no operation is retried more
\* than MAX_ATTEMPTS times.
THEOREM TypeCorrect == Spec => []TypeOK
BY Invariance, PTL DEF IInv

\* A claim never stands on a row without a lease, which would be selected for
\* ever and block the recovery (MeetingBuilder, IsClaimable).
THEOREM ClaimsAreLeased == Spec => []ClaimHasLease
<1>1. IInv => ClaimHasLease
  BY DEF IInv, RowShape
<1>. QED BY Invariance, <1>1, PTL

\* Whatever crashes, is lost or comes late, a pending operation stays recorded
\* and due.
THEOREM PendingIsRecoverable == Spec => []NeverStranded
<1>1. IInv => NeverStranded
  BY RowAssumption DEF IInv, RowShape, NeverStranded, Pending
<1>. QED BY Invariance, <1>1, PTL

\* The lock and the second look at the ownership keep the writers apart, also
\* when claims lapse under running jobs.
THEOREM WritersExclude == Spec => []OneCurrentWriter
<1>1. ASSUME IInv  PROVE OneCurrentWriter
  <2>1. ASSUME NEW r \in Request, request[r].pc = "calling"
        PROVE  lock = r /\ request[r].op = row.opId
    BY <1>1, <2>1, RunningRequest DEF Undisturbed
  <2>2. ASSUME NEW w \in Worker, worker[w].pc = "calling"
        PROVE  lock = w /\ worker[w].op = row.opId
    BY <1>1, <2>2, Calling
  <2>3. \A a \in Writing : lock = a
    BY <2>1, <2>2 DEF Writing
  <2>. QED BY <2>1, <2>2, <2>3 DEF OneCurrentWriter
<1>. QED BY Invariance, <1>1, PTL

-----------------------------------------------------------------------------
(* The refinement: what a step is to MeetingContract.                      *)

wanted == IF row.opType = "delete" THEN Absent ELSE row.payload

LEMMA Stages ==
  /\ StageOf("active") = "settled"
  /\ StageOf("updating") = "updating" /\ StageOf("deleting") = "deleting"
  /\ StageOf("update_failed") = "review" /\ StageOf("delete_failed") = "review"
  /\ StageOf("deleted") = "deleted"
BY DEF StageOf, Rejected

\* Steps MeetingContract does not see.
LEMMA Unseen ==
  ASSUME Recorded(row, row'), row'.status = row.status, UNCHANGED <<zoom, reached>>
  PROVE  UNCHANGED Contract!vars
BY DEF Recorded, Contract!vars

LEMMA BeginIsBegin ==
  ASSUME IInv, NEW r \in Request, NEW type, NEW payload, NEW status,
         Begin(r, type, payload, status),
         StageOf(row.status) \in {"settled", "review"},
         \/ type = "update" /\ payload \in Payload /\ status = "updating"
         \/ type = "delete" /\ payload = Null /\ status = "deleting"
  PROVE  Contract!Next
<1>1. PICK op \in OpId : row' = Intent(type, op, payload, status)
  BY DEF Begin
<1>2. /\ row'.status = status /\ row'.opType = type /\ row'.payload = payload
      /\ row'.local = row.local
  BY <1>1 DEF Intent, IInv, TypeOK, Row
<1>3. reached' = FALSE /\ zoom' = zoom
  BY DEF Begin
<1>4. CASE type = "update" /\ payload \in Payload /\ status = "updating"
  <2>1. Contract!BeginUpdate(payload)
    BY <1>2, <1>3, <1>4, Stages DEF Contract!BeginUpdate
  <2>. QED BY <1>4, <2>1 DEF Contract!Next
<1>5. CASE type = "delete" /\ payload = Null /\ status = "deleting"
  <2>1. Contract!BeginDelete
    BY <1>2, <1>3, <1>5, Stages DEF Contract!BeginDelete
  <2>. QED BY <2>1 DEF Contract!Next
<1>. QED BY <1>4, <1>5

\* A call to Zoom for the recorded operation, whatever the caller learns of it.
LEMMA WriteIsReach ==
  ASSUME IInv, row' = row, Wrote(row.opType, row.payload, zoom', reached'),
         \/ row.opType = "update" /\ row.payload \in Payload
         \/ row.opType = "delete" /\ row.payload = Null
  PROVE  Contract!Next \/ UNCHANGED Contract!vars
<1>1. CASE UNCHANGED <<zoom, reached>>
  BY <1>1, Unseen DEF Recorded
<1>2. CASE row.opType = "delete" /\ reached' = TRUE /\ zoom' = Absent
  <2>1. Contract!Changed = Absent
    BY <1>2 DEF Contract!Changed
  <2>2. Contract!Reach
    BY <1>2, <2>1, OperationAssumption DEF Contract!Reach
  <2>. QED BY <2>2 DEF Contract!Next
<1>3. CASE /\ row.opType = "update" /\ row.payload \in Payload /\ reached' = TRUE
           /\ zoom # Absent /\ zoom' = Updated(zoom, row.payload)
  <2>1. Contract!Changed = Updated(zoom, row.payload)
    BY <1>3, OperationAssumption DEF Contract!Changed, Updated
  <2>2. Contract!Reach
    BY <1>3, <2>1, OperationAssumption DEF Contract!Reach
  <2>. QED BY <2>2 DEF Contract!Next
<1>. QED BY <1>1, <1>2, <1>3 DEF Wrote

\* The end of a request or a job.
LEMMA OutcomeIsPromised ==
  ASSUME IInv, row.status \in Pending, Outcome(row'), UNCHANGED <<zoom, reached>>
  PROVE  Contract!Next \/ UNCHANGED Contract!vars
<1>1. StageOf(row.status) \in {"updating", "deleting"}
  BY Stages DEF Pending
<1>2. CASE Delayed(row')
  BY <1>2, Unseen DEF Delayed
<1>3. CASE GivenUp(row')
  <2>1. StageOf(row'.status) = "review"
    BY <1>3, Stages DEF GivenUp
  <2>2. Contract!HandOver
    BY <1>1, <1>3, <2>1 DEF GivenUp, Recorded, Contract!HandOver
  <2>. QED BY <2>2 DEF Contract!Next
<1>4. ASSUME NEW s, NEW l, Over(row', s, l)
      PROVE  wanted' = Null /\ row'.local = l /\ StageOf(row'.status) = StageOf(s)
  BY <1>4, RowAssumption DEF Over, wanted
<1>5. CASE ~reached /\ Over(row', "active", row.local)
  <2>1. Contract!RollBack
    BY <1>1, <1>4, <1>5, Stages DEF Contract!RollBack, wanted
  <2>. QED BY <2>1 DEF Contract!Next
<1>6. CASE zoom = Absent /\ Over(row', "deleted", row.local)
  <2>1. Contract!Gone
    BY <1>1, <1>4, <1>6, Stages DEF Contract!Gone, wanted
  <2>. QED BY <2>1 DEF Contract!Next
<1>7. CASE /\ row.status = "updating" /\ ZoomShowsUpdate
           /\ Over(row', "active", Updated(row.local, row.payload)) \/ Over(row', "active", zoom)
  <2>1. /\ row.payload \in Payload /\ wanted = row.payload
        /\ row.local \in Fields /\ zoom \in Fields /\ zoom # Absent
        /\ HasRequestedFields(row.payload, zoom)
    BY <1>7 DEF IInv, TypeOK, Row, RowShape, ZoomShowsUpdate, wanted
  <2>2. ASSUME NEW l \in Fields, Over(row', "active", l), HasRequestedFields(row.payload, l),
               \A f \in Field : l[f] \in {row.local[f], zoom[f]}
        PROVE  Contract!Next
    <3>1. \A f \in Field : Contract!Shown(zoom, f) /\ Contract!Shown(l, f)
      BY <2>1, <2>2 DEF Contract!Shown, HasRequestedFields, wanted
    <3>2. row'.local = l /\ wanted' = Null /\ StageOf(row'.status) = "settled"
      BY <1>4, <2>2, Stages
    <3>3. StageOf(row.status) = "updating"
      BY <1>7, Stages
    <3>4. Contract!Confirm
      BY <2>1, <2>2, <3>1, <3>2, <3>3 DEF Contract!Confirm, Contract!Fields, Fields, wanted
    <3>. QED BY <3>4 DEF Contract!Next
  <2>3. CASE Over(row', "active", zoom)
    BY <2>1, <2>2, <2>3
  <2>4. CASE Over(row', "active", Updated(row.local, row.payload))
    <3>. DEFINE l == Updated(row.local, row.payload)
    <3>1. l \in Fields /\ HasRequestedFields(row.payload, l)
      BY <2>1, UpdatedShows
    <3>2. \A f \in Field : l[f] \in {row.local[f], zoom[f]}
      BY <2>1 DEF Updated, HasRequestedFields
    <3>. HIDE DEF l
    <3>3. Over(row', "active", l)
      BY <2>4 DEF l
    <3>. QED BY <2>2, <3>1, <3>2, <3>3
  <2>. QED BY <1>7, <2>3, <2>4
<1>. QED BY <1>2, <1>3, <1>5, <1>6, <1>7 DEF Outcome

LEMMA RequestStepIsPromised ==
  ASSUME IInv, NEW r \in Request, RequestStep(r)
  PROVE  Contract!Next \/ UNCHANGED Contract!vars
<1>1. ASSUME NEW payload \in Payload, SaveUpdateIntent(r, payload)  PROVE Contract!Next
  BY <1>1, BeginIsBegin, Stages DEF SaveUpdateIntent
<1>2. CASE SaveDeleteIntent(r)
  BY <1>2, BeginIsBegin, Stages DEF SaveDeleteIntent
<1>3. CASE RequestCallsZoom(r) \/ RequestCrashes(r)
  <2>1. request[r].pc # "idle" /\ row' = row
    BY <1>3 DEF RequestCallsZoom, RequestCrashes
  <2>2. /\ Undisturbed(r) /\ row.opId \in OpId
        /\ row.opType \in {"update", "delete"}
    BY <2>1, RunningRequest
  <2>3. request[r].type = row.opType /\ request[r].payload = row.payload
    BY <2>2 DEF Undisturbed
  <2>4. \/ row.opType = "update" /\ row.payload \in Payload
        \/ row.opType = "delete" /\ row.payload = Null
    BY <2>2, RowAssumption DEF IInv, RowShape, TypeOK, Row
  <2>5. \/ UNCHANGED <<zoom, reached>>
        \/ \E reply \in ZoomReplies(request[r].type, request[r].payload) :
             zoom' = reply.zoom /\ reached' = reply.reached
    BY <1>3 DEF RequestCallsZoom, RequestCrashes
  <2>6. Wrote(row.opType, row.payload, zoom', reached')
    <3>1. CASE UNCHANGED <<zoom, reached>>
      BY <3>1 DEF Wrote
    <3>2. ASSUME NEW reply \in ZoomReplies(request[r].type, request[r].payload),
                 zoom' = reply.zoom, reached' = reply.reached
          PROVE  Wrote(row.opType, row.payload, zoom', reached')
      BY <2>3, <3>2, Replies
    <3>. QED BY <2>5, <3>1, <3>2
  <2>. QED BY <2>1, <2>4, <2>6, WriteIsReach
<1>4. CASE FinishRequest(r)
  <2>1. UNCHANGED <<zoom, reached>>
    BY <1>4 DEF FinishRequest
  <2>2. row.status \in Pending /\ (row' = row \/ Outcome(row'))
    BY <1>4, FinishOutcome
  <2>. QED BY <2>1, <2>2, OutcomeIsPromised, Unseen DEF Recorded
<1>. QED BY <1>1, <1>2, <1>3, <1>4 DEF RequestStep

LEMMA WorkerStepIsPromised ==
  ASSUME IInv, NEW w \in Worker, WorkerStep(w)
  PROVE  Contract!Next \/ UNCHANGED Contract!vars
<1>1. CASE UNCHANGED <<row, zoom, reached>>
  BY <1>1, Unseen DEF Recorded
<1>2. CASE ConsumeMismatchCycle(w)
  <2>1. worker[w].pc = "mismatched" /\ UNCHANGED <<zoom, reached>>
    BY <1>2 DEF ConsumeMismatchCycle
  <2>2. CASE row' = row
    BY <1>1, <2>1, <2>2
  <2>3. CASE row' = [row EXCEPT !.attempts = @ + 1]
    <3>1. Recorded(row, row') /\ row'.status = row.status
      BY <2>3 DEF IInv, TypeOK, Row, Recorded
    <3>. QED BY <2>1, <3>1, Unseen
  <2>4. CASE Owns(w) /\ row' = [HandedOver(row, "update_failed") EXCEPT !.attempts = @ + 1]
    <3>1. row.status \in Pending /\ row.attempts < MaxAttempts /\ row \in Row
      BY <2>1, <2>4, OwnersRow DEF IInv, TypeOK
    <3>2. row.opType = "update"
      BY <2>1, <2>4, SameKind DEF Owns, IsOperationCurrent, IsUpdate
    <3>3. GivenUp(row')
      BY <2>4, <3>1, <3>2, HandedOverIsGivenUp
    <3>. QED BY <2>1, <3>1, <3>3, OutcomeIsPromised DEF Outcome
  <2>. QED BY <1>2, <2>2, <2>3, <2>4 DEF ConsumeMismatchCycle
<1>3. CASE WorkerCallsZoom(w) \/ WorkerCrashes(w)
  <2>1. row' = row
    BY <1>3 DEF WorkerCallsZoom, WorkerCrashes
  <2>2. \/ UNCHANGED <<zoom, reached>>
        \/ /\ worker[w].pc = "calling"
           /\ \E reply \in ZoomReplies(row.opType, worker[w].payload) :
                zoom' = reply.zoom /\ reached' = reply.reached
    BY <1>3 DEF WorkerCallsZoom, WorkerCrashes
  <2>3. ASSUME worker[w].pc = "calling",
               NEW reply \in ZoomReplies(row.opType, worker[w].payload),
               zoom' = reply.zoom, reached' = reply.reached
        PROVE  Contract!Next \/ UNCHANGED Contract!vars
    <3>1. /\ worker[w].payload = row.payload
          /\ \/ row.opType = "update" /\ row.payload \in Payload
             \/ row.opType = "delete" /\ row.payload = Null
      BY <2>3, Calling
    <3>2. Wrote(row.opType, row.payload, zoom', reached')
      BY <2>3, <3>1, Replies
    <3>. QED BY <2>1, <3>1, <3>2, WriteIsReach
  <2>. QED BY <1>1, <2>1, <2>2, <2>3
<1>4. CASE Settle(w)
  <2>1. UNCHANGED <<zoom, reached>>
    BY <1>4 DEF Settle
  <2>. QED BY <1>1, <1>4, <2>1, SettleOutcome, OutcomeIsPromised
<1>5. CASE \E j \in jobs : StartRecovery(w, j)
  BY <1>1, <1>5 DEF StartRecovery
<1>6. CASE ReadZoom(w) \/ TakeLock(w) \/ LockTimesOut(w)
  BY <1>1, <1>6 DEF ReadZoom, TakeLock, LockTimesOut
<1>. QED BY <1>2, <1>3, <1>4, <1>5, <1>6 DEF WorkerStep, Progress

\* The code keeps the promises of MeetingContract: every step of it, taken by
\* any number of requests and jobs, is a promised step or none.
THEOREM ContractKept == Spec => ImplementsMeetingContract
<1>1. Init => Contract!Init
  BY RowAssumption, Stages DEF Init, Contract!Init, Contract!Fields, Fields
<1>2. IInv /\ [Next]_vars => [Contract!Next]_Contract!vars
  <2>. SUFFICES ASSUME IInv, [Next]_vars
                PROVE  Contract!Next \/ UNCHANGED Contract!vars
    OBVIOUS
  <2>1. CASE UNCHANGED vars
    BY <2>1, Unseen DEF vars, Recorded
  <2>2. CASE \E w \in Worker : WorkerStep(w)
    BY <2>2, WorkerStepIsPromised
  <2>3. CASE \E r \in Request : RequestStep(r)
    BY <2>3, RequestStepIsPromised
  <2>4. row \in Row
    BY DEF IInv, TypeOK
  <2>5. CASE ClaimNextDueOperation
    <3>1. /\ \E t \in Token : row' = [row EXCEPT !.claim = t, !.lease = "live"]
          /\ UNCHANGED <<zoom, reached>>
      BY <2>5 DEF ClaimNextDueOperation
    <3>2. Recorded(row, row') /\ row'.status = row.status
      BY <2>4, <3>1 DEF Row, Recorded
    <3>. QED BY <3>1, <3>2, Unseen
  <2>6. CASE LeaseExpires \/ RetryBecomesDue
    <3>1. UNCHANGED <<zoom, reached>> /\ Recorded(row, row') /\ row'.status = row.status
      BY <2>4, <2>6 DEF LeaseExpires, RetryBecomesDue, Row, Recorded
    <3>. QED BY <3>1, Unseen
  <2>7. CASE OrphanedLockExpires \/ LoseJob
    BY <2>7, Unseen DEF OrphanedLockExpires, LoseJob, Recorded
  <2>. QED BY <2>1, <2>2, <2>3, <2>5, <2>6, <2>7 DEF Next
<1>. QED BY <1>1, <1>2, Invariance, PTL DEF Spec, ImplementsMeetingContract, Contract!Spec
=============================================================================
