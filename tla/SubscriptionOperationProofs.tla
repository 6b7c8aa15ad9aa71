-------------------- MODULE SubscriptionOperationProofs --------------------
(***************************************************************************)
(* For any keys, plans, requests, recovery runs and limits: one change of  *)
(* a subscription at a time, one call per operation, nothing completed     *)
(* that Paddle has not shown, no live claim taken away, and the local      *)
(* subscription in step with Paddle's once everything is completed.        *)
(*                                                                         *)
(* A request that has not called holds a key nobody else works for and     *)
(* nobody has called for.  Whoever may complete an operation has seen its  *)
(* result: a request by an answer of success, a recovery run or an         *)
(* operator by a read, and what Paddle shows is in shown as long as the    *)
(* operation is recorded.  A recorded operation never changes its change.  *)
(* As long as no request outlives its claim, one request at most is at     *)
(* work, it has the live claim of the one operation that is not settled,   *)
(* and that operation explains how the two subscriptions differ.           *)
(***************************************************************************)
EXTENDS SubscriptionOperation, TLAPS

\* Whoever is at work has the key of a recorded operation.
Named ==
  /\ \A r \in Request : request[r].pc # "idle" =>
       request[r].key \in Key /\ ops[request[r].key] # Null
  /\ \A w \in Worker : worker[w].pc # "idle" =>
       worker[w].key \in Key /\ ops[worker[w].key] # Null
  /\ operator.pc # "idle" => operator.key \in Key /\ ops[operator.key] # Null
  /\ \A r \in Request :
       /\ request[r].pc = "answered" => request[r].answer \in {"ok", "rejected", "lost"}
       /\ request[r].pc = "saved" => request[r].answer = "ok"

Typed == TypeOK /\ Named

-----------------------------------------------------------------------------
(* Types, and what a step does to a recorded operation.                    *)

\* A recorded operation keeps its change and does not become active again.
Kept ==
  \A k \in Key :
    /\ ops[k] = Null => ops'[k] = Null
    /\ ops[k] # Null => ops'[k] # Null /\ ops'[k].change = ops[k].change
    /\ ops'[k] # Null /\ ops'[k].status \in {"processing", "unknown", "manual_review"}
         => ops[k].status \in {"processing", "unknown", "manual_review"}

LEMMA AppliedType ==
  ASSUME NEW change \in Change, NEW sub \in Subscription
  PROVE  /\ Applied(change, sub) \in Subscription
         /\ Reconciled(change, sub) \in Subscription
         /\ sub.status = "active" => IsResult(change, Applied(change, sub))
         /\ Proves(change, sub) => IsResult(change, sub)
<1>1. CASE change.type = "swap"
  BY <1>1 DEF Change, Subscription, Applied, Reconciled, IsResult, Proves
<1>2. CASE change.type = "cancel"
  BY <1>2 DEF Change, Subscription, Applied, Reconciled, IsResult, Proves
<1>. QED BY <1>1, <1>2 DEF Change

RequestState == [pc: {"idle", "calling", "answered", "saved"}, key: Key \cup {Null},
                 answer: {"ok", "rejected", "lost", Null}]

\* A call that has ended.
LEMMA AnsweredType ==
  ASSUME Typed, NEW r \in Request, NEW answer \in {"ok", "rejected", "lost"},
         request' = [request EXCEPT ![r].pc = "answered", ![r].answer = answer]
  PROVE  request' \in [Request -> RequestState]
<1>1. [request[r] EXCEPT !.pc = "answered", !.answer = answer] \in RequestState
  <2>1. request[r] \in RequestState
    BY DEF Typed, TypeOK, RequestState
  <2>. QED BY <2>1 DEF RequestState
<1>2. request' = [request EXCEPT ![r] =
                    [request[r] EXCEPT !.pc = "answered", !.answer = answer]]
  OBVIOUS
<1>. QED BY <1>1, <1>2 DEF Typed, TypeOK, RequestState

LEMMA InitTyped == Init => Typed
<1>. SUFFICES ASSUME Init PROVE Typed
  OBVIOUS
<1>1. /\ \A r \in Request : request[r] = NoRequest
      /\ \A w \in Worker : worker[w] = NoWork
      /\ \A k \in Key : ops[k] = Null
      /\ operator = NoWork
  BY DEF Init
<1>2. local \in Subscription /\ paddle \in Subscription
  BY DEF Init, Subscription
<1>3. TypeOK
  <2>1. /\ request \in [Request -> [pc: {"idle", "calling", "answered", "saved"},
                                    key: Key \cup {Null},
                                    answer: {"ok", "rejected", "lost", Null}]]
        /\ worker \in [Worker -> [pc: {"idle", "reading", "settling"}, key: Key \cup {Null},
                                  snapshot: Subscription \cup {Null}]]
        /\ operator \in [pc: {"idle", "settling"}, key: Key \cup {Null},
                          snapshot: Subscription \cup {Null}]
    BY DEF Init, NoRequest, NoWork
  <2>2. ops \in [Key -> Operation \cup {Null}] /\ calls \in [Key -> Nat]
    BY DEF Init
  <2>3. faults \in 0..MaxFaults
    BY SubscriptionAssumption DEF Init
  <2>4. shown \subseteq Key /\ overtaken \in BOOLEAN
    BY DEF Init
  <2>. QED BY <1>1, <1>2, <2>1, <2>2, <2>3, <2>4 DEF TypeOK
<1>4. Named
  BY <1>1 DEF Named, NoRequest, NoWork
<1>. QED BY <1>3, <1>4 DEF Typed

LEMMA RecordedOperation ==
  ASSUME Typed, NEW k \in Key, ops[k] # Null
  PROVE  /\ ops[k] \in Operation
         /\ ops[k].change \in Change /\ ops[k].status \in Statuses
         /\ ops[k].attempts \in 0..MaxAttempts
         /\ ops[k].status \in {"processing", "unknown"} => ops[k].attempts < MaxAttempts
         /\ MaxAttempts \in Nat
  BY SubscriptionAssumption DEF Typed, TypeOK, Operation

\* The part of TypeOK about operations.
OpsTyped ==
  /\ ops \in [Key -> Operation \cup {Null}]
  /\ \A k \in Key : ops[k] # Null /\ ops[k].status \in {"processing", "unknown"}
                     => ops[k].attempts < MaxAttempts

\* One operation is replaced by another one of the same change.
LEMMA Replaced ==
  ASSUME Typed, NEW k \in Key, ops[k] # Null, NEW op \in Operation,
         op.change = ops[k].change,
         op.status \in {"processing", "unknown"} => op.attempts < MaxAttempts,
         op.status \in {"processing", "unknown", "manual_review"} =>
           ops[k].status \in {"processing", "unknown", "manual_review"},
         ops' = [ops EXCEPT ![k] = op]
  PROVE  OpsTyped' /\ Kept
  BY SubscriptionAssumption DEF Typed, TypeOK, OpsTyped, Kept

\* Every step but Begin.
Works ==
  \/ \E r \in Request : RequestStep(r) \/ RequestDies(r)
  \/ \E k \in Key : Time(k) \/ MarkCompletedReads(k) \/ MarkFailed(k)
  \/ \E w \in Worker : WorkerStep(w) \/ WorkerDies(w)
  \/ MarkCompleted

\* What everybody does with recorded operations, but for the request that
\* records a new one.
LEMMA OpsStep ==
  ASSUME Typed, Works
  PROVE  OpsTyped' /\ Kept
<1>1. CASE ops' = ops
  BY <1>1 DEF Typed, TypeOK, OpsTyped, Kept
<1>2. ASSUME NEW r \in Request, Record(r), ops' # ops PROVE OpsTyped' /\ Kept
  <2>1. PICK k \in Key : k = request[r].key
    BY <1>2 DEF Record, Typed, Named
  <2>2. ops[k] # Null
    BY <1>2, <2>1 DEF Record, Typed, Named
  <2>3. OwnsClaim(k, r) /\ ops[k].status = "processing"
    BY <1>2, <2>1 DEF Record, OwnsClaim
  <2>4. request[r].answer \in {"ok", "rejected", "lost"}
    BY <1>2 DEF Record, Typed, Named
  <2>5. CASE request[r].answer = "ok"
    <3>1. ops' = [ops EXCEPT ![k] = [ops[k] EXCEPT !.status = "completed"]]
      BY <1>2, <2>1, <2>3, <2>5 DEF Record
    <3>2. [ops[k] EXCEPT !.status = "completed"] \in Operation
      BY <2>2, RecordedOperation DEF Operation, Statuses
    <3>. QED BY <2>2, <3>1, <3>2, Replaced, RecordedOperation DEF Operation
  <2>6. CASE request[r].answer = "rejected"
    <3>1. ops' = [ops EXCEPT ![k] = [ops[k] EXCEPT !.status = "failed"]]
      BY <1>2, <2>1, <2>3, <2>6 DEF Record
    <3>2. [ops[k] EXCEPT !.status = "failed"] \in Operation
      BY <2>2, RecordedOperation DEF Operation, Statuses
    <3>. QED BY <2>2, <3>1, <3>2, Replaced, RecordedOperation DEF Operation
  <2>7. CASE request[r].answer = "lost"
    <3>1. ops' = [ops EXCEPT ![k] = [ops[k] EXCEPT !.status = "unknown", !.avail = "later"]]
      BY <1>2, <2>1, <2>3, <2>7 DEF Record
    <3>2. [ops[k] EXCEPT !.status = "unknown", !.avail = "later"] \in Operation
      BY <2>2, RecordedOperation DEF Operation, Statuses
    <3>. QED BY <2>2, <2>3, <3>1, <3>2, Replaced, RecordedOperation DEF Operation
  <2>. QED BY <2>4, <2>5, <2>6, <2>7
<1>3. ASSUME NEW k \in Key, Time(k) PROVE OpsTyped' /\ Kept
  <2>1. ops[k] # Null
    BY <1>3 DEF Time, LeaseExpires, BecomesDue
  <2>2. [ops[k] EXCEPT !.lease = "expired"] \in Operation
        /\ [ops[k] EXCEPT !.avail = "due"] \in Operation
    BY <2>1, RecordedOperation DEF Operation
  <2>3. \/ ops' = [ops EXCEPT ![k] = [ops[k] EXCEPT !.lease = "expired"]]
        \/ ops' = [ops EXCEPT ![k] = [ops[k] EXCEPT !.avail = "due"]]
    BY <1>3 DEF Time, LeaseExpires, BecomesDue, Typed, TypeOK
  <2>. QED BY <2>1, <2>2, <2>3, Replaced, RecordedOperation DEF Operation
<1>4. ASSUME NEW k \in Key, MarkFailed(k) PROVE OpsTyped' /\ Kept
  <2>1. ops[k] # Null /\ ops' = [ops EXCEPT ![k] = [ops[k] EXCEPT !.status = "failed"]]
    BY <1>4 DEF MarkFailed
  <2>2. [ops[k] EXCEPT !.status = "failed"] \in Operation
    BY <2>1, RecordedOperation DEF Operation, Statuses
  <2>. QED BY <2>1, <2>2, Replaced, RecordedOperation DEF Operation
<1>5. ASSUME NEW w \in Worker, ClaimForRecovery(w) PROVE OpsTyped' /\ Kept
  <2>1. PICK k \in Key :
          /\ ReadyForRecovery(k)
          /\ ops' = [ops EXCEPT ![k].status = "processing", ![k].claim = w,
                                ![k].lease = "live"]
    BY <1>5 DEF ClaimForRecovery
  <2>2. ops' = [ops EXCEPT ![k] = [ops[k] EXCEPT !.status = "processing", !.claim = w,
                                                  !.lease = "live"]]
    BY <2>1
  <2>3. /\ ops[k] # Null /\ ops[k].status \in {"processing", "unknown"}
    BY <2>1 DEF ReadyForRecovery
  <2>4. [ops[k] EXCEPT !.status = "processing", !.claim = w, !.lease = "live"] \in Operation
    BY <2>3, RecordedOperation DEF Operation, Statuses
  <2>. QED BY <2>2, <2>3, <2>4, Replaced, RecordedOperation DEF Operation
<1>6. ASSUME NEW w \in Worker, SettleRecovery(w), ops' # ops PROVE OpsTyped' /\ Kept
  <2>1. PICK k \in Key : k = worker[w].key
    BY <1>6 DEF SettleRecovery, Typed, Named
  <2>2. ops[k] # Null /\ HasLiveClaim(k, w)
    BY <1>6, <2>1 DEF SettleRecovery, Typed, Named
  <2>3. ops[k].status = "processing" /\ ops[k].attempts < MaxAttempts
        /\ ops[k].attempts + 1 \in 0..MaxAttempts
    BY <2>2, RecordedOperation DEF HasLiveClaim, OwnsClaim
  <2>4. CASE Complete(k)
    <3>1. [ops[k] EXCEPT !.status = "completed", !.attempts = @ + 1] \in Operation
      BY <2>2, <2>3, RecordedOperation DEF Operation, Statuses
    <3>2. ops' = [ops EXCEPT ![k] = [ops[k] EXCEPT !.status = "completed", !.attempts = @ + 1]]
      BY <2>4 DEF Complete
    <3>. QED BY <2>2, <3>1, <3>2, Replaced, RecordedOperation DEF Operation
  <2>5. CASE RescheduleAfterFailedRead(k) /\ ops[k].attempts + 1 >= MaxAttempts
    <3>1. [ops[k] EXCEPT !.status = "manual_review", !.attempts = @ + 1] \in Operation
      BY <2>2, <2>3, RecordedOperation DEF Operation, Statuses
    <3>2. ops' = [ops EXCEPT ![k] =
                    [ops[k] EXCEPT !.status = "manual_review", !.attempts = @ + 1]]
      BY <2>5 DEF RescheduleAfterFailedRead
    <3>. QED BY <2>2, <2>3, <3>1, <3>2, Replaced, RecordedOperation DEF Operation
  <2>6. CASE RescheduleAfterFailedRead(k) /\ ~(ops[k].attempts + 1 >= MaxAttempts)
    <3>1. [ops[k] EXCEPT !.status = "unknown", !.attempts = @ + 1, !.avail = "later"]
            \in Operation
      BY <2>2, <2>3, RecordedOperation DEF Operation, Statuses
    <3>2. ops' = [ops EXCEPT ![k] =
                    [ops[k] EXCEPT !.status = "unknown", !.attempts = @ + 1, !.avail = "later"]]
      BY <2>6 DEF RescheduleAfterFailedRead
    <3>3. ops[k].attempts + 1 < MaxAttempts
      BY <2>2, <2>6, RecordedOperation
    <3>. QED BY <2>2, <2>3, <3>1, <3>2, <3>3, Replaced, RecordedOperation DEF Operation
  <2>. QED BY <1>6, <2>1, <2>2, <2>4, <2>5, <2>6 DEF SettleRecovery
<1>7. ASSUME MarkCompleted, ops' # ops PROVE OpsTyped' /\ Kept
  <2>1. PICK k \in Key : k = operator.key
    BY <1>7 DEF MarkCompleted, Typed, Named
  <2>2. ops[k] # Null /\ ops' = [ops EXCEPT ![k] = [ops[k] EXCEPT !.status = "completed"]]
    BY <1>7, <2>1 DEF MarkCompleted, Typed, Named
  <2>3. [ops[k] EXCEPT !.status = "completed"] \in Operation
    BY <2>2, RecordedOperation DEF Operation, Statuses
  <2>. QED BY <2>2, <2>3, Replaced, RecordedOperation DEF Operation
<1>. QED
  BY <1>1, <1>2, <1>3, <1>4, <1>5, <1>6, <1>7
  DEF Works, RequestStep, WorkerStep, CallAccepted, CallRefused, CashierSaves, RequestDies,
      MarkCompletedReads, ReadRemoteSnapshot, WorkerDies

LEMMA TypedStep ==
  ASSUME Typed, [Next]_vars
  PROVE  Typed'
<1>. USE SubscriptionAssumption
<1>1. ASSUME NEW r \in Request, Begin(r) PROVE Typed'
  <2>1. PICK k \in Key, change \in Change :
          /\ request[r].pc = "idle" /\ ops[k] = Null
          /\ ops' = [ops EXCEPT ![k] =
               [change |-> change, status |-> "processing", attempts |-> 0,
                claim |-> r, lease |-> "live", avail |-> "due"]]
          /\ request' = [request EXCEPT ![r] = [pc |-> "calling", key |-> k, answer |-> Null]]
          /\ shown' = IF IsResult(change, paddle) THEN shown \cup {k} ELSE shown
    BY <1>1 DEF Begin
  <2>2. [change |-> change, status |-> "processing", attempts |-> 0,
         claim |-> r, lease |-> "live", avail |-> "due"] \in Operation
    BY DEF Operation, Statuses
  <2>3. TypeOK'
    BY <1>1, <2>1, <2>2 DEF Begin, Typed, TypeOK
  <2>4. \A j \in Key : ops[j] # Null => ops'[j] # Null
    BY <2>1, <2>2 DEF Typed, TypeOK
  <2>5. ops'[k] # Null
    BY <2>1, <2>2 DEF Typed, TypeOK
  <2>6. Named'
    BY <1>1, <2>1, <2>4, <2>5 DEF Begin, Typed, TypeOK, Named
  <2>. QED BY <2>3, <2>6 DEF Typed
<1>2. ASSUME NEW r \in Request, CallAccepted(r) PROVE Typed'
  <2>1. request[r].key \in Key /\ ops[request[r].key] # Null
    BY <1>2 DEF CallAccepted, Typed, Named
  <2>2. paddle' \in Subscription
    BY <1>2, <2>1, RecordedOperation, AppliedType DEF CallAccepted, Typed, TypeOK
  <2>3. PICK answer \in {"ok", "lost"} :
          request' = [request EXCEPT ![r].pc = "answered", ![r].answer = answer]
    BY <1>2 DEF CallAccepted
  <2>4. request' \in [Request -> RequestState]
    BY <2>3, AnsweredType
  <2>5. calls' \in [Key -> Nat]
    <3>1. calls' = [calls EXCEPT ![request[r].key] = calls[request[r].key] + 1]
      BY <1>2 DEF CallAccepted
    <3>. QED BY <2>1, <3>1 DEF Typed, TypeOK
  <2>6. shown' \subseteq Key
    <3>1. shown' = shown \cup {j \in Key : ops[j] # Null /\ IsResult(ops[j].change, paddle')}
      BY <1>2 DEF CallAccepted
    <3>. QED BY <3>1 DEF Typed, TypeOK
  <2>7. TypeOK'
    BY <1>2, <2>2, <2>4, <2>5, <2>6 DEF CallAccepted, Typed, TypeOK, RequestState
  <2>8. Named'
    BY <1>2, <2>3 DEF CallAccepted, Typed, TypeOK, Named
  <2>. QED BY <2>7, <2>8 DEF Typed
<1>3. ASSUME NEW r \in Request, CallRefused(r) PROVE Typed'
  <2>1. request[r].key \in Key
    BY <1>3 DEF CallRefused, Typed, Named
  <2>2. PICK answer \in {"rejected", "lost"} :
          request' = [request EXCEPT ![r].pc = "answered", ![r].answer = answer]
    BY <1>3 DEF CallRefused
  <2>3. calls' \in [Key -> Nat]
    BY <1>3, <2>1 DEF CallRefused, Typed, TypeOK
  <2>4. TypeOK'
    <3>1. request' \in [Request -> RequestState]
      BY <2>2, AnsweredType
    <3>. QED BY <1>3, <2>3, <3>1 DEF CallRefused, Typed, TypeOK, RequestState
  <2>5. Named'
    BY <1>3, <2>2 DEF CallRefused, Typed, TypeOK, Named
  <2>. QED BY <2>4, <2>5 DEF Typed
<1>4. ASSUME NEW r \in Request, CashierSaves(r) PROVE Typed'
  <2>1. request[r].key \in Key /\ ops[request[r].key] # Null
    BY <1>4 DEF CashierSaves, Typed, Named
  <2>2. local' \in Subscription
    BY <1>4, <2>1, RecordedOperation, AppliedType DEF CashierSaves, Typed, TypeOK
  <2>3. TypeOK'
    BY <1>4, <2>2 DEF CashierSaves, Typed, TypeOK
  <2>4. Named'
    BY <1>4 DEF CashierSaves, Typed, TypeOK, Named
  <2>. QED BY <2>3, <2>4 DEF Typed
<1>5. ASSUME NEW r \in Request, Record(r) PROVE Typed'
  <2>1. OpsTyped' /\ Kept
    BY <1>5, OpsStep DEF Works, RequestStep
  <2>2. /\ request' = [request EXCEPT ![r] = NoRequest]
        /\ UNCHANGED <<local, paddle, worker, operator, faults, calls, shown, overtaken>>
    BY <1>5 DEF Record
  <2>3. TypeOK'
    BY <2>1, <2>2 DEF NoRequest, Typed, TypeOK, OpsTyped
  <2>4. Named'
    BY <2>1, <2>2 DEF NoRequest, Typed, TypeOK, Named, Kept
  <2>. QED BY <2>3, <2>4 DEF Typed
<1>6. ASSUME NEW r \in Request, RequestDies(r) PROVE Typed'
  <2>1. TypeOK'
    BY <1>6 DEF RequestDies, Fault, NoRequest, Typed, TypeOK
  <2>2. Named'
    BY <1>6 DEF RequestDies, NoRequest, Typed, TypeOK, Named
  <2>. QED BY <2>1, <2>2 DEF Typed
<1>7. ASSUME NEW k \in Key, Time(k) \/ MarkFailed(k) PROVE Typed'
  <2>1. OpsTyped' /\ Kept
    BY <1>7, OpsStep DEF Works
  <2>2. UNCHANGED <<local, paddle, request, worker, operator, calls, shown>>
    BY <1>7 DEF Time, LeaseExpires, BecomesDue, MarkFailed
  <2>3. faults' \in 0..MaxFaults
    BY <1>7 DEF Time, LeaseExpires, BecomesDue, MarkFailed, Fault, Typed, TypeOK
  <2>4. overtaken' \in BOOLEAN
    BY <1>7 DEF Time, LeaseExpires, BecomesDue, MarkFailed, Typed, TypeOK
  <2>5. TypeOK'
    BY <2>1, <2>2, <2>3, <2>4 DEF Typed, TypeOK, OpsTyped
  <2>6. Named'
    BY <2>1, <2>2 DEF Typed, Named, Kept
  <2>. QED BY <2>5, <2>6 DEF Typed
<1>8. ASSUME NEW k \in Key, MarkCompletedReads(k) PROVE Typed'
  <2>1. TypeOK'
    BY <1>8 DEF MarkCompletedReads, Typed, TypeOK
  <2>2. Named'
    BY <1>8 DEF MarkCompletedReads, Typed, Named
  <2>. QED BY <2>1, <2>2 DEF Typed
<1>9. ASSUME NEW w \in Worker, ClaimForRecovery(w) PROVE Typed'
  <2>1. OpsTyped' /\ Kept
    BY <1>9, OpsStep DEF Works, WorkerStep
  <2>2. PICK k \in Key :
          /\ ReadyForRecovery(k)
          /\ worker' = [worker EXCEPT ![w] =
               [pc |-> "reading", key |-> k, snapshot |-> Null]]
    BY <1>9 DEF ClaimForRecovery
  <2>3. TypeOK'
    BY <1>9, <2>1, <2>2 DEF ClaimForRecovery, Typed, TypeOK, OpsTyped
  <2>4. Named'
    BY <1>9, <2>1, <2>2 DEF ClaimForRecovery, ReadyForRecovery, Typed, TypeOK, Named, Kept
  <2>. QED BY <2>3, <2>4 DEF Typed
<1>10. ASSUME NEW w \in Worker, ReadRemoteSnapshot(w) PROVE Typed'
  <2>1. TypeOK'
    <3>1. PICK snapshot \in {paddle, Null} :
            worker' = [worker EXCEPT ![w] = [worker[w] EXCEPT !.pc = "settling",
                                                              !.snapshot = snapshot]]
      BY <1>10 DEF ReadRemoteSnapshot
    <3>2. snapshot \in Subscription \cup {Null}
      BY DEF Typed, TypeOK
    <3>. QED BY <1>10, <3>1, <3>2 DEF ReadRemoteSnapshot, Typed, TypeOK
  <2>2. Named'
    BY <1>10 DEF ReadRemoteSnapshot, Typed, TypeOK, Named
  <2>. QED BY <2>1, <2>2 DEF Typed
<1>11. ASSUME NEW w \in Worker, SettleRecovery(w) PROVE Typed'
  <2>1. OpsTyped' /\ Kept
    BY <1>11, OpsStep DEF Works, WorkerStep
  <2>2. worker[w].key \in Key /\ ops[worker[w].key] # Null
    BY <1>11 DEF SettleRecovery, Typed, Named
  <2>3. local' \in Subscription
    BY <1>11, <2>2, RecordedOperation, AppliedType
    DEF SettleRecovery, Complete, RescheduleAfterFailedRead, Typed, TypeOK
  <2>4. TypeOK'
    BY <1>11, <2>1, <2>3 DEF SettleRecovery, NoWork, Typed, TypeOK, OpsTyped
  <2>5. Named'
    BY <1>11, <2>1 DEF SettleRecovery, NoWork, Typed, TypeOK, Named, Kept
  <2>. QED BY <2>4, <2>5 DEF Typed
<1>12. ASSUME NEW w \in Worker, WorkerDies(w) PROVE Typed'
  <2>1. TypeOK'
    BY <1>12 DEF WorkerDies, Fault, NoWork, Typed, TypeOK
  <2>2. Named'
    BY <1>12 DEF WorkerDies, NoWork, Typed, TypeOK, Named
  <2>. QED BY <2>1, <2>2 DEF Typed
<1>13. CASE MarkCompleted
  <2>1. OpsTyped' /\ Kept
    BY <1>13, OpsStep DEF Works
  <2>2. operator.key \in Key /\ ops[operator.key] # Null
    BY <1>13 DEF MarkCompleted, Typed, Named
  <2>3. local' \in Subscription
    BY <1>13, <2>2, RecordedOperation, AppliedType DEF MarkCompleted, Typed, TypeOK
  <2>4. TypeOK'
    BY <1>13, <2>1, <2>3 DEF MarkCompleted, NoWork, Typed, TypeOK, OpsTyped
  <2>5. Named'
    BY <1>13, <2>1 DEF MarkCompleted, NoWork, Typed, Named, Kept
  <2>. QED BY <2>4, <2>5 DEF Typed
<1>14. CASE UNCHANGED vars
  BY <1>14 DEF vars, Typed, TypeOK, Named
<1>. QED
  BY <1>1, <1>2, <1>3, <1>4, <1>5, <1>6, <1>7, <1>8, <1>9, <1>10, <1>11, <1>12, <1>13, <1>14
  DEF Next, RequestStep, WorkerStep

\* For all keys, plans, requests and runs, whoever still works on an operation
\* has attempts left.
THEOREM TypeCorrect == Spec => []TypeOK
<1>1. Typed => TypeOK
  BY DEF Typed
<1>. QED BY <1>1, InitTyped, TypedStep, PTL DEF Spec

-----------------------------------------------------------------------------
(* One change at a time.                                                   *)

\* Requests work for different keys, a request that has not called finds its key
\* uncalled, and one operation at most is not settled.
Alone ==
  /\ \A q, r \in Request :
       request[q].pc # "idle" /\ request[r].pc # "idle" /\ request[q].key = request[r].key
         => q = r
  /\ \A r \in Request : request[r].pc = "calling" => calls[request[r].key] = 0
  /\ \A k \in Key : ops[k] = Null => calls[k] = 0
  /\ \A k \in Key : calls[k] <= 1
  /\ \A j, k \in Key : IsActive(ops[j]) /\ IsActive(ops[k]) => j = k

\* A request keeps its key, and calls once.
LEMMA RequestsGoOn ==
  ASSUME Typed, Works
  PROVE  \A r \in Request :
           /\ request'[r].pc # "idle" =>
                request[r].pc # "idle" /\ request'[r].key = request[r].key
           /\ request'[r].pc = "calling" => request[r].pc = "calling"
<1>1. CASE request' = request
  BY <1>1
<1>2. ASSUME NEW q \in Request, RequestStep(q) \/ RequestDies(q)
      PROVE  \A r \in Request :
               /\ request'[r].pc # "idle" =>
                    request[r].pc # "idle" /\ request'[r].key = request[r].key
               /\ request'[r].pc = "calling" => request[r].pc = "calling"
  BY <1>2
  DEF RequestStep, CallAccepted, CallRefused, CashierSaves, Record, RequestDies, NoRequest,
      Typed, TypeOK
<1>. QED
  BY <1>1, <1>2
  DEF Works, Time, LeaseExpires, BecomesDue, MarkCompletedReads, MarkFailed, WorkerStep,
      ClaimForRecovery, ReadRemoteSnapshot, SettleRecovery, WorkerDies, MarkCompleted

LEMMA AloneStep ==
  ASSUME Typed, Typed', Alone, [Next]_vars
  PROVE  Alone'
<1>1. ASSUME NEW r \in Request, Begin(r) PROVE Alone'
  <2>1. PICK k \in Key, change \in Change :
          /\ ops[k] = Null /\ request[r].pc = "idle"
          /\ \A j \in Key : ~Conflicts(j)
          /\ ops' = [ops EXCEPT ![k] =
               [change |-> change, status |-> "processing", attempts |-> 0,
                claim |-> r, lease |-> "live", avail |-> "due"]]
          /\ request' = [request EXCEPT ![r] = [pc |-> "calling", key |-> k, answer |-> Null]]
          /\ calls' = calls
    BY <1>1 DEF Begin
  <2>2. /\ \A q \in Request \ {r} : request'[q] = request[q]
        /\ request'[r].pc = "calling" /\ request'[r].key = k
        /\ \A j \in Key \ {k} : ops'[j] = ops[j]
    BY <2>1 DEF Typed, TypeOK
  <2>3. \A q \in Request : request[q].pc # "idle" => request[q].key # k
    BY <2>1 DEF Typed, Named
  <2>4. \A j \in Key : j # k => ~IsActive(ops'[j])
    BY <2>1, <2>2 DEF Conflicts
  <2>. QED BY <2>1, <2>2, <2>3, <2>4 DEF Alone
<1>2. CASE Works
  <2>1. Kept
    BY <1>2, OpsStep
  <2>2. \A j, k \in Key : IsActive(ops'[j]) /\ IsActive(ops'[k]) => j = k
    <3>1. \A k \in Key : IsActive(ops'[k]) => IsActive(ops[k])
      BY <2>1 DEF IsActive, Kept
    <3>. QED BY <3>1 DEF Alone
  <2>3. \A q, r \in Request :
          request'[q].pc # "idle" /\ request'[r].pc # "idle"
          /\ request'[q].key = request'[r].key => q = r
    BY <1>2, RequestsGoOn DEF Alone
  <2>4. CASE calls' = calls
    BY <1>2, <2>1, <2>2, <2>3, <2>4, RequestsGoOn DEF Alone, Kept
  <2>5. ASSUME NEW r \in Request, CallAccepted(r) \/ CallRefused(r)
        PROVE  Alone'
    <3>1. /\ request[r].pc = "calling" /\ request'[r].pc = "answered"
          /\ request[r].key \in Key /\ ops[request[r].key] # Null
          /\ \A q \in Request \ {r} : request'[q] = request[q]
      BY <2>5 DEF CallAccepted, CallRefused, Typed, TypeOK, Named
    <3>2. /\ calls'[request[r].key] = 1
          /\ \A k \in Key : k # request[r].key => calls'[k] = calls[k]
      BY <2>5, <3>1 DEF CallAccepted, CallRefused, Typed, TypeOK, Alone
    <3>3. \A q \in Request \ {r} : request[q].pc = "calling" => calls'[request[q].key] = 0
      <4>1. \A q \in Request \ {r} : request[q].pc = "calling" =>
              request[q].key \in Key /\ request[q].key # request[r].key
        BY <3>1 DEF Typed, Named, Alone
      <4>. QED BY <3>2, <4>1 DEF Alone
    <3>4. \A q \in Request : request'[q].pc = "calling" => calls'[request'[q].key] = 0
      BY <3>1, <3>3
    <3>5. \A k \in Key : ops'[k] = Null => calls'[k] = 0
      BY <2>1, <3>1, <3>2 DEF Alone, Kept
    <3>6. \A k \in Key : calls'[k] <= 1
      BY <3>2 DEF Alone
    <3>. QED BY <2>2, <2>3, <3>4, <3>5, <3>6 DEF Alone
  <2>. QED
    BY <1>2, <2>4, <2>5
    DEF Works, RequestStep, CashierSaves, Record, RequestDies, Time, LeaseExpires,
        BecomesDue, MarkCompletedReads, MarkFailed, WorkerStep, ClaimForRecovery,
        ReadRemoteSnapshot, SettleRecovery, WorkerDies, MarkCompleted
<1>3. CASE UNCHANGED vars
  BY <1>3 DEF vars, Alone
<1>. QED BY <1>1, <1>2, <1>3 DEF Next, Works

LEMMA AloneInvariant == Spec => [](Typed /\ Alone)
<1>1. Init => Typed /\ Alone
  <2>. SUFFICES ASSUME Init PROVE Alone
    BY InitTyped
  <2>1. /\ \A r \in Request : request[r].pc = "idle"
        /\ \A k \in Key : ops[k] = Null /\ calls[k] = 0
    BY DEF Init, NoRequest
  <2>. QED BY <2>1 DEF Alone, IsActive
<1>2. Typed /\ Alone /\ [Next]_vars => (Typed /\ Alone)'
  BY TypedStep, AloneStep
<1>. QED BY <1>1, <1>2, PTL DEF Spec

\* For all keys, plans, requests and runs, one operation at most is not settled,
\* and nobody calls Paddle twice for one.
THEOREM ChangesTakeTurns == Spec => []OneChangeAtATime
<1>1. Alone => OneChangeAtATime
  BY DEF Alone, OneChangeAtATime
<1>. QED BY <1>1, AloneInvariant, PTL

-----------------------------------------------------------------------------
(* What is completed has happened.                                         *)

\* Who may complete an operation has seen its result.
Truthful ==
  /\ \A k \in Key : ops[k] # Null /\ IsResult(ops[k].change, paddle) => k \in shown
  /\ \A k \in Key : ops[k] # Null /\ ops[k].status = "completed" => k \in shown
  /\ \A r \in Request : request[r].pc \in {"answered", "saved"} /\ request[r].answer = "ok"
                          => request[r].key \in shown
  /\ \A w \in Worker : /\ worker[w].pc = "settling"
                       /\ Proves(ops[worker[w].key].change, worker[w].snapshot)
                       => worker[w].key \in shown
  /\ operator.pc = "settling" => operator.key \in shown

LEMMA TruthStep ==
  ASSUME Typed, Typed', Truthful, [Next]_vars
  PROVE  Truthful'
<1>1. ASSUME NEW r \in Request, Begin(r) PROVE Truthful'
  <2>1. PICK k \in Key, change \in Change :
          /\ ops[k] = Null
          /\ ops' = [ops EXCEPT ![k] =
               [change |-> change, status |-> "processing", attempts |-> 0,
                claim |-> r, lease |-> "live", avail |-> "due"]]
          /\ request' = [request EXCEPT ![r] = [pc |-> "calling", key |-> k, answer |-> Null]]
          /\ shown' = IF IsResult(change, paddle) THEN shown \cup {k} ELSE shown
          /\ UNCHANGED <<paddle, worker, operator>>
    BY <1>1 DEF Begin
  <2>2. /\ \A q \in Request \ {r} : request'[q] = request[q]
        /\ request'[r].pc = "calling"
        /\ \A j \in Key \ {k} : ops'[j] = ops[j]
        /\ ops'[k].change = change /\ ops'[k].status = "processing"
        /\ shown \subseteq shown'
    BY <2>1 DEF Typed, TypeOK
  <2>3. \A w \in Worker : worker[w].pc = "settling" =>
          worker[w].key \in Key /\ worker[w].key # k
    BY <2>1 DEF Typed, Named
  <2>4. \A j \in Key : ops'[j] # Null /\ IsResult(ops'[j].change, paddle) => j \in shown'
    BY <2>1, <2>2 DEF Truthful
  <2>5. \A j \in Key : ops'[j] # Null /\ ops'[j].status = "completed" => j \in shown'
    BY <2>1, <2>2 DEF Truthful
  <2>6. \A q \in Request : request'[q].pc \in {"answered", "saved"} /\ request'[q].answer = "ok"
                             => request'[q].key \in shown'
    BY <2>2 DEF Truthful
  <2>7. \A w \in Worker : /\ worker[w].pc = "settling"
                          /\ Proves(ops'[worker[w].key].change, worker[w].snapshot)
                          => worker[w].key \in shown'
    BY <2>2, <2>3 DEF Truthful
  <2>8. operator.pc = "settling" => operator.key \in shown'
    BY <2>2 DEF Truthful
  <2>. QED BY <2>1, <2>4, <2>5, <2>6, <2>7, <2>8 DEF Truthful
<1>2. ASSUME NEW r \in Request, CallAccepted(r) PROVE Truthful'
  <2>1. PICK answer \in {"ok", "lost"} :
          request' = [request EXCEPT ![r].pc = "answered", ![r].answer = answer]
    BY <1>2 DEF CallAccepted
  <2>2. /\ request[r].key \in Key /\ ops[request[r].key] # Null
        /\ paddle' = Applied(ops[request[r].key].change, paddle) /\ paddle.status = "active"
        /\ shown' = shown \cup {j \in Key : ops[j] # Null /\ IsResult(ops[j].change, paddle')}
        /\ UNCHANGED <<ops, worker, operator>>
    BY <1>2 DEF CallAccepted, Typed, Named
  <2>3. IsResult(ops[request[r].key].change, paddle')
    BY <2>2, RecordedOperation, AppliedType DEF Typed, TypeOK
  <2>4. request[r].key \in shown'
    BY <2>2, <2>3
  <2>5. /\ \A q \in Request \ {r} : request'[q] = request[q]
        /\ request'[r].key = request[r].key
    BY <2>1 DEF Typed, TypeOK
  <2>6. \A q \in Request : request'[q].pc \in {"answered", "saved"} /\ request'[q].answer = "ok"
                             => request'[q].key \in shown'
    BY <2>2, <2>4, <2>5 DEF Truthful
  <2>. QED BY <2>2, <2>6 DEF Truthful
<1>3. ASSUME Works, UNCHANGED <<paddle, shown>> PROVE Truthful'
  <2>1. Kept
    BY <1>3, OpsStep
  <2>2. \A k \in Key : ops'[k] # Null => ops[k] # Null /\ ops'[k].change = ops[k].change
    BY <2>1 DEF Kept
  <2>3. \A k \in Key : ops'[k] # Null /\ ops'[k].status = "completed"
                        => ops[k].status = "completed" \/ k \in shown
    <3>1. CASE ops' = ops
      BY <3>1
    <3>2. ASSUME NEW r \in Request, Record(r),
                 NEW k \in Key, ops'[k] # Null, ops'[k].status = "completed",
                 ops[k].status # "completed"
          PROVE  k \in shown
      <4>1. request[r].key = k /\ request[r].answer = "ok"
        <5>1. /\ request[r].key \in Key /\ ops[request[r].key] \in Operation
              /\ request[r].answer \in {"ok", "rejected", "lost"}
          BY <3>2, RecordedOperation DEF Record, Typed, Named
        <5>2. request[r].key = k
          <6>1. \E op : ops' = [ops EXCEPT ![request[r].key] = op]
            <7>1. \/ ops' = [ops EXCEPT ![request[r].key] =
                             [ops[request[r].key] EXCEPT !.status = "completed"]]
                  \/ ops' = [ops EXCEPT ![request[r].key] =
                             [ops[request[r].key] EXCEPT !.status = "failed"]]
                  \/ ops' = [ops EXCEPT ![request[r].key] =
                             [ops[request[r].key] EXCEPT !.status = "unknown", !.avail = "later"]]
                  \/ ops' = ops
              BY <3>2, <5>1 DEF Record
            <7>. QED BY <7>1, <3>2
          <6>. QED BY <3>2, <6>1 DEF Typed, TypeOK
        <5>3. OwnsClaim(k, r)
          BY <3>2, <5>2 DEF Record
        <5>4. ASSUME request[r].answer = "rejected" PROVE FALSE
          <6>1. ops' = [ops EXCEPT ![k].status = "failed"]
            BY <3>2, <5>2, <5>3, <5>4 DEF Record
          <6>. QED BY <3>2, <6>1 DEF Typed, TypeOK
        <5>5. ASSUME request[r].answer = "lost" PROVE FALSE
          <6>1. ops' = [ops EXCEPT ![k].status = "unknown", ![k].avail = "later"]
            BY <3>2, <5>2, <5>3, <5>5 DEF Record
          <6>2. ops'[k].status = "unknown"
            BY <5>1, <5>2, <6>1 DEF Typed, TypeOK, Operation
          <6>. QED BY <3>2, <6>2
        <5>. QED BY <5>1, <5>2, <5>4, <5>5
      <4>. QED BY <3>2, <4>1 DEF Record, Truthful
    <3>3. ASSUME NEW w \in Worker, SettleRecovery(w),
                 NEW k \in Key, ops'[k] # Null, ops'[k].status = "completed",
                 ops[k].status # "completed"
          PROVE  k \in shown
      <4>1. worker[w].pc = "settling" /\ worker[w].key = k
            /\ Proves(ops[k].change, worker[w].snapshot)
        <5>1. /\ worker[w].pc = "settling" /\ worker[w].key \in Key
              /\ ops[worker[w].key] # Null
          BY <3>3 DEF SettleRecovery, Typed, Named
        <5>2. ASSUME RescheduleAfterFailedRead(worker[w].key) PROVE FALSE
          <6>. DEFINE j == worker[w].key
          <6>1. \/ ops' = [ops EXCEPT ![j] = [ops[j] EXCEPT !.status = "manual_review",
                                                         !.attempts = @ + 1]]
                \/ ops' = [ops EXCEPT ![j] = [ops[j] EXCEPT !.status = "unknown",
                                                         !.attempts = @ + 1, !.avail = "later"]]
            BY <5>2 DEF RescheduleAfterFailedRead
          <6>2. ops[j] \in Operation /\ j \in Key
            BY <5>1 DEF Typed, TypeOK
          <6>3. ops'[j].status \in {"manual_review", "unknown"}
            <7>1. CASE ops' = [ops EXCEPT ![j] = [ops[j] EXCEPT !.status = "manual_review",
                                                             !.attempts = @ + 1]]
              BY <6>2, <7>1 DEF Typed, TypeOK, Operation
            <7>2. CASE ops' = [ops EXCEPT ![j] = [ops[j] EXCEPT !.status = "unknown",
                                                 !.attempts = @ + 1, !.avail = "later"]]
              BY <6>2, <7>2 DEF Typed, TypeOK, Operation
            <7>. QED BY <6>1, <7>1, <7>2
          <6>4. \A i \in Key \ {j} : ops'[i] = ops[i]
            BY <6>1, <6>2 DEF Typed, TypeOK
          <6>. QED BY <3>3, <6>3, <6>4
        <5>3. Complete(worker[w].key) => worker[w].key = k
          BY <3>3, <5>1 DEF Complete, Typed, TypeOK
        <5>. QED BY <3>3, <5>1, <5>2, <5>3 DEF SettleRecovery
      <4>. QED BY <4>1 DEF Truthful
    <3>4. ASSUME MarkCompleted,
                 NEW k \in Key, ops'[k] # Null, ops'[k].status = "completed",
                 ops[k].status # "completed"
          PROVE  k \in shown
      BY <3>4 DEF MarkCompleted, Truthful, Typed, TypeOK
    <3>5. ASSUME NEW j \in Key, LeaseExpires(j) \/ BecomesDue(j) \/ MarkFailed(j),
                 NEW k \in Key, ops'[k] # Null, ops'[k].status = "completed"
          PROVE  ops[k].status = "completed"
      <4>1. CASE k = j
        BY <3>5, <4>1 DEF LeaseExpires, BecomesDue, MarkFailed, Typed, TypeOK, Operation
      <4>2. CASE k # j
        BY <3>5, <4>2 DEF LeaseExpires, BecomesDue, MarkFailed, Typed, TypeOK
      <4>. QED BY <4>1, <4>2
    <3>6. ASSUME NEW w \in Worker, ClaimForRecovery(w),
                 NEW k \in Key, ops'[k] # Null, ops'[k].status = "completed"
          PROVE  ops[k].status = "completed"
      <4>1. PICK j \in Key :
              /\ ops[j] # Null
              /\ ops' = [ops EXCEPT ![j].status = "processing", ![j].claim = w,
                                    ![j].lease = "live"]
        BY <3>6 DEF ClaimForRecovery, ReadyForRecovery
      <4>2. ops[j] \in Operation
        BY <4>1, RecordedOperation
      <4>. QED BY <3>6, <4>1, <4>2 DEF Typed, TypeOK, Operation
    <3>. QED
      BY <1>3, <3>1, <3>2, <3>3, <3>4, <3>5, <3>6
      DEF Works, Time, RequestStep, WorkerStep, CallAccepted, CallRefused, CashierSaves,
          RequestDies, MarkCompletedReads, ReadRemoteSnapshot, WorkerDies
  <2>4. \A r \in Request : request'[r].pc \in {"answered", "saved"} /\ request'[r].answer = "ok"
                             => request'[r].key \in shown
    <3>1. CASE request' = request
      BY <3>1 DEF Truthful
    <3>2. ASSUME NEW q \in Request,
                 CallRefused(q) \/ CashierSaves(q) \/ Record(q) \/ RequestDies(q)
          PROVE  \A r \in Request :
                   request'[r].pc \in {"answered", "saved"} /\ request'[r].answer = "ok"
                     => request'[r].key \in shown
      BY <3>2
      DEF CallRefused, CashierSaves, Record, RequestDies, NoRequest, Typed, TypeOK, Truthful
    <3>3. ASSUME NEW q \in Request, CallAccepted(q)
          PROVE  \A r \in Request :
                   request'[r].pc \in {"answered", "saved"} /\ request'[r].answer = "ok"
                     => request'[r].key \in shown
      BY <1>2, <1>3, <3>3 DEF Truthful
    <3>. QED
      BY <1>3, <3>1, <3>2, <3>3
      DEF Works, RequestStep, Time, LeaseExpires, BecomesDue, MarkCompletedReads, MarkFailed,
          WorkerStep, ClaimForRecovery, ReadRemoteSnapshot, SettleRecovery, WorkerDies,
          MarkCompleted
  <2>5. \A w \in Worker : /\ worker'[w].pc = "settling"
                          /\ Proves(ops[worker'[w].key].change, worker'[w].snapshot)
                          => worker'[w].key \in shown
    <3>1. CASE worker' = worker
      BY <3>1 DEF Truthful
    <3>2. ASSUME NEW v \in Worker, ReadRemoteSnapshot(v)
          PROVE  \A w \in Worker : /\ worker'[w].pc = "settling"
                                   /\ Proves(ops[worker'[w].key].change, worker'[w].snapshot)
                                   => worker'[w].key \in shown
      <4>1. PICK snapshot \in {paddle, Null} :
              worker' = [worker EXCEPT ![v].pc = "settling", ![v].snapshot = snapshot]
        BY <3>2 DEF ReadRemoteSnapshot
      <4>2. /\ worker[v].key \in Key /\ ops[worker[v].key] # Null
            /\ worker'[v].key = worker[v].key /\ worker'[v].snapshot = snapshot
            /\ \A w \in Worker \ {v} : worker'[w] = worker[w]
        BY <3>2, <4>1 DEF ReadRemoteSnapshot, Typed, TypeOK, Named
      <4>3. Proves(ops[worker[v].key].change, snapshot) => worker[v].key \in shown
        <5>1. Proves(ops[worker[v].key].change, snapshot) => snapshot = paddle
          BY DEF Proves
        <5>. QED BY <4>2, <5>1, RecordedOperation, AppliedType DEF Truthful, Typed, TypeOK
      <4>. QED BY <4>2, <4>3 DEF Truthful
    <3>3. ASSUME NEW v \in Worker, ClaimForRecovery(v) \/ SettleRecovery(v) \/ WorkerDies(v)
          PROVE  \A w \in Worker : /\ worker'[w].pc = "settling"
                                   /\ Proves(ops[worker'[w].key].change, worker'[w].snapshot)
                                   => worker'[w].key \in shown
      <4>1. worker'[v].pc # "settling" /\ \A w \in Worker \ {v} : worker'[w] = worker[w]
        <5>1. CASE ClaimForRecovery(v)
          BY <5>1 DEF ClaimForRecovery, Typed, TypeOK
        <5>2. CASE SettleRecovery(v) \/ WorkerDies(v)
          BY <5>2 DEF SettleRecovery, WorkerDies, NoWork, Typed, TypeOK
        <5>. QED BY <3>3, <5>1, <5>2
      <4>. QED BY <4>1 DEF Truthful
    <3>. QED
      BY <1>3, <3>1, <3>2, <3>3
      DEF Works, RequestStep, CallAccepted, CallRefused, CashierSaves, Record, RequestDies,
          Time, LeaseExpires, BecomesDue, MarkCompletedReads, MarkFailed, WorkerStep,
          MarkCompleted
  <2>6. operator'.pc = "settling" => operator'.key \in shown
    <3>1. CASE operator' = operator
      BY <3>1 DEF Truthful
    <3>2. ASSUME NEW k \in Key, MarkCompletedReads(k)
          PROVE  operator'.pc = "settling" => operator'.key \in shown
      BY <3>2, RecordedOperation, AppliedType
      DEF MarkCompletedReads, Truthful, Typed, TypeOK
    <3>3. CASE MarkCompleted
      BY <3>3 DEF MarkCompleted, NoWork
    <3>. QED
      BY <1>3, <3>1, <3>2, <3>3
      DEF Works, RequestStep, CallAccepted, CallRefused, CashierSaves, Record, RequestDies,
          Time, LeaseExpires, BecomesDue, MarkFailed, WorkerStep, ClaimForRecovery,
          ReadRemoteSnapshot, SettleRecovery, WorkerDies
  <2>7. \A w \in Worker : /\ worker'[w].pc = "settling"
                          /\ Proves(ops'[worker'[w].key].change, worker'[w].snapshot)
                          => worker'[w].key \in shown
    <3>1. \A w \in Worker : worker'[w].pc = "settling" =>
            worker'[w].key \in Key /\ ops'[worker'[w].key] # Null
      BY DEF Typed, Named
    <3>. QED BY <2>2, <2>5, <3>1
  <2>. QED BY <1>3, <2>2, <2>3, <2>4, <2>6, <2>7 DEF Truthful
<1>4. CASE UNCHANGED vars
  BY <1>4 DEF vars, Truthful
<1>. QED
  BY <1>1, <1>2, <1>3, <1>4
  DEF Next, Works, RequestStep, CallRefused, CashierSaves, Record, RequestDies, Time,
      LeaseExpires, BecomesDue, MarkCompletedReads, MarkFailed, WorkerStep, ClaimForRecovery,
      ReadRemoteSnapshot, SettleRecovery, WorkerDies, MarkCompleted

\* For all keys, plans, requests and runs, an operation is completed only after
\* Paddle has shown its result.
THEOREM CompletedMeansShown == Spec => []CompletedHappened
<1>1. Init => Typed /\ Truthful
  <2>. SUFFICES ASSUME Init PROVE Truthful
    BY InitTyped
  <2>1. /\ \A r \in Request : request[r].pc = "idle"
        /\ \A w \in Worker : worker[w].pc = "idle"
        /\ \A k \in Key : ops[k] = Null
        /\ operator.pc = "idle"
    BY DEF Init, NoRequest, NoWork
  <2>. QED BY <2>1 DEF Truthful
<1>2. Typed /\ Truthful /\ [Next]_vars => (Typed /\ Truthful)'
  BY TypedStep, TruthStep
<1>3. Truthful => CompletedHappened
  BY DEF Truthful, CompletedHappened
<1>. QED BY <1>1, <1>2, <1>3, PTL DEF Spec

-----------------------------------------------------------------------------
(* Nobody takes a live claim away.                                         *)

\* For all keys, plans, requests and runs, an operation under a live claim is
\* changed by the owner of the claim, until the claim lapses.
THEOREM OwnerKeepsClaim == Spec => LiveClaimIsOwners
<1>. DEFINE Owned ==
       \A k \in Key :
         /\ ops[k] # Null /\ ops'[k] # ops[k]
         /\ ops[k].status = "processing" /\ ops[k].lease = "live"
         => \/ ops'[k] = [ops[k] EXCEPT !.lease = "expired"]
            \/ \E r \in Request : ops[k].claim = r /\ request'[r] # request[r]
            \/ \E w \in Worker : ops[k].claim = w /\ worker'[w] # worker[w]
<1>1. Typed /\ [Next]_vars => Owned
  <2>. SUFFICES ASSUME Typed, Next, NEW k \in Key,
                       ops[k] # Null, ops'[k] # ops[k],
                       ops[k].status = "processing", ops[k].lease = "live"
                PROVE  \/ ops'[k] = [ops[k] EXCEPT !.lease = "expired"]
                       \/ \E r \in Request : ops[k].claim = r /\ request'[r] # request[r]
                       \/ \E w \in Worker : ops[k].claim = w /\ worker'[w] # worker[w]
    BY DEF vars
  <2>1. ASSUME NEW r \in Request, Begin(r) PROVE FALSE
    BY <2>1 DEF Begin, Typed, TypeOK
  <2>2. ASSUME NEW r \in Request, Record(r)
        PROVE  ops[k].claim = r /\ request'[r] # request[r]
    <3>1. request[r].key = k /\ OwnsClaim(k, r)
      BY <2>2 DEF Record, Typed, TypeOK, Named
    <3>2. request[r].pc # "idle" /\ request'[r].pc = "idle"
      BY <2>2 DEF Record, NoRequest, Typed, TypeOK
    <3>. QED BY <3>1, <3>2 DEF OwnsClaim
  <2>3. ASSUME NEW j \in Key, Time(j)
        PROVE  ops'[k] = [ops[k] EXCEPT !.lease = "expired"]
    BY <2>3 DEF Time, LeaseExpires, BecomesDue, Typed, TypeOK
  <2>4. ASSUME NEW j \in Key, MarkFailed(j) PROVE FALSE
    BY <2>4 DEF MarkFailed, Typed, TypeOK
  <2>5. ASSUME NEW w \in Worker, ClaimForRecovery(w) PROVE FALSE
    BY <2>5 DEF ClaimForRecovery, ReadyForRecovery, Typed, TypeOK
  <2>6. ASSUME NEW w \in Worker, SettleRecovery(w)
        PROVE  ops[k].claim = w /\ worker'[w] # worker[w]
    <3>1. worker[w].key = k /\ HasLiveClaim(k, w)
      BY <2>6 DEF SettleRecovery, Complete, RescheduleAfterFailedRead, Typed, TypeOK, Named
    <3>2. worker[w].pc # "idle" /\ worker'[w].pc = "idle"
      BY <2>6 DEF SettleRecovery, NoWork, Typed, TypeOK
    <3>. QED BY <3>1, <3>2 DEF HasLiveClaim, OwnsClaim
  <2>7. CASE MarkCompleted
    BY <2>7 DEF MarkCompleted, Typed, TypeOK
  <2>. QED
    BY <2>1, <2>2, <2>3, <2>4, <2>5, <2>6, <2>7
    DEF Next, RequestStep, CallAccepted, CallRefused, CashierSaves, RequestDies,
        MarkCompletedReads, WorkerStep, ReadRemoteSnapshot, WorkerDies
<1>. QED BY <1>1, InitTyped, TypedStep, PTL DEF Spec, LiveClaimIsOwners

-----------------------------------------------------------------------------
(* The local subscription and Paddle's.                                    *)

\* What InStep is about: no request outlived its claim, nothing was given up.
Clean == ~overtaken /\ \A k \in Key : ops[k] # Null => ops[k].status # "failed"

\* A request at work has a live claim, and knows how the two subscriptions differ.
RequestsKnow ==
  \A r \in Request : request[r].pc # "idle" =>
    LET op == ops[request[r].key] IN
    /\ op.status = "processing" /\ op.claim = r /\ op.lease = "live"
    /\ request[r].pc \in {"calling", "saved"} => paddle = local
    /\ request[r].pc = "answered" /\ request[r].answer = "ok" => paddle = Applied(op.change, local)

\* The two differ by the operation that is not settled, and by no more.
Explained ==
  /\ (\A k \in Key : ~IsActive(ops[k])) => paddle = local
  /\ \A k \in Key : IsActive(ops[k]) => paddle \in {local, Applied(ops[k].change, local)}

\* What a run has read is still Paddle's subscription while it owns the claim.
RunsKnow ==
  \A w \in Worker : worker[w].pc = "settling" /\ OwnsClaim(worker[w].key, w) =>
    worker[w].snapshot \in {paddle, Null}

\* What an operator has read still holds while the operation is under review.
OperatorKnows ==
  operator.pc = "settling" =>
    /\ ops[operator.key].status \in {"manual_review", "completed", "failed"}
    /\ ops[operator.key].status = "manual_review" => Proves(ops[operator.key].change, paddle)

Synced == RequestsKnow /\ Explained /\ RunsKnow /\ OperatorKnows

\* A proof at Paddle of an operation that explains the difference removes it.
LEMMA ReconciledIsRemote ==
  ASSUME NEW change \in Change, NEW sub \in Subscription, NEW remote \in Subscription,
         remote \in {sub, Applied(change, sub)}, Proves(change, remote)
  PROVE  Reconciled(change, sub) = remote
<1>1. CASE change.type = "swap"
  BY <1>1 DEF Change, Subscription, Applied, Reconciled, Proves
<1>2. CASE change.type = "cancel"
  BY <1>2 DEF Change, Subscription, Applied, Reconciled, Proves
<1>. QED BY <1>1, <1>2 DEF Change

\* A request at work is the only one, and nobody else may settle anything.
LEMMA Sole ==
  ASSUME Typed, Alone, RequestsKnow, NEW r \in Request, request[r].pc # "idle"
  PROVE  /\ request[r].key \in Key /\ ops[request[r].key] \in Operation
         /\ ops[request[r].key].status = "processing" /\ ops[request[r].key].claim = r
         /\ \A q \in Request \ {r} : request[q].pc = "idle"
         /\ \A j \in Key : IsActive(ops[j]) => j = request[r].key
         /\ \A w \in Worker : worker[w].pc # "idle" => ~OwnsClaim(worker[w].key, w)
         /\ operator.pc # "idle" => ops[operator.key].status # "manual_review"
<1>1. \A q \in Request : request[q].pc # "idle" =>
        /\ request[q].key \in Key /\ ops[request[q].key] \in Operation
        /\ ops[request[q].key] # Null /\ ops[request[q].key].status = "processing"
        /\ ops[request[q].key].claim = q
  BY DEF Typed, TypeOK, Named, RequestsKnow
<1>2. \A j \in Key : IsActive(ops[j]) => j = request[r].key
  BY <1>1 DEF Alone, IsActive
<1>3. \A q \in Request \ {r} : request[q].pc = "idle"
  BY <1>1, <1>2 DEF IsActive
<1>4. \A w \in Worker : worker[w].pc # "idle" => ~OwnsClaim(worker[w].key, w)
  <2>. SUFFICES ASSUME NEW w \in Worker, worker[w].pc # "idle", OwnsClaim(worker[w].key, w)
                PROVE  FALSE
    OBVIOUS
  <2>1. worker[w].key \in Key /\ IsActive(ops[worker[w].key])
    BY DEF Typed, Named, OwnsClaim, IsActive
  <2>2. ops[worker[w].key].claim = w /\ ops[worker[w].key].claim = r
    BY <1>1, <1>2, <2>1 DEF OwnsClaim
  <2>. QED BY <2>2, SubscriptionAssumption
<1>5. operator.pc # "idle" => ops[operator.key].status # "manual_review"
  <2>. SUFFICES ASSUME operator.pc # "idle", ops[operator.key].status = "manual_review"
                PROVE  FALSE
    OBVIOUS
  <2>1. operator.key \in Key /\ IsActive(ops[operator.key])
    BY DEF Typed, Named, IsActive
  <2>. QED BY <1>1, <1>2, <2>1
<1>. QED BY <1>1, <1>2, <1>3, <1>4, <1>5

\* Once something was given up or a claim outlived, it stays so.
LEMMA CleanBefore ==
  ASSUME Typed, Typed', [Next]_vars, Clean'
  PROVE  Clean
<1>1. ~overtaken
  BY DEF Clean, Next, vars, Begin, RequestStep, CallAccepted, CallRefused, CashierSaves, Record,
         RequestDies, Time, LeaseExpires, BecomesDue, MarkCompletedReads, MarkFailed,
         WorkerStep, ClaimForRecovery, ReadRemoteSnapshot, SettleRecovery, WorkerDies,
         MarkCompleted
<1>2. ASSUME NEW k \in Key, ops[k] # Null, ops[k].status = "failed"
      PROVE  ops'[k] # Null /\ ops'[k].status = "failed"
  <2>1. ASSUME NEW r \in Request, Begin(r) PROVE ops'[k] = ops[k]
    BY <1>2, <2>1 DEF Begin, Typed, TypeOK
  <2>2. ASSUME NEW r \in Request, Record(r) PROVE ops'[k] = ops[k]
    <3>1. /\ request[r].key \in Key /\ request[r].answer \in {"ok", "rejected", "lost"}
      BY <2>2 DEF Record, Typed, Named
    <3>2. CASE ~OwnsClaim(request[r].key, r)
      BY <2>2, <3>2 DEF Record
    <3>3. CASE OwnsClaim(request[r].key, r)
      <4>1. request[r].key # k
        BY <1>2, <3>3 DEF OwnsClaim
      <4>2. \E op : ops' = [ops EXCEPT ![request[r].key] = op]
        <5>1. CASE request[r].answer = "ok"
          BY <2>2, <3>3, <5>1 DEF Record
        <5>2. CASE request[r].answer = "rejected"
          BY <2>2, <3>3, <5>2 DEF Record
        <5>3. CASE request[r].answer = "lost"
          <6>1. ops' = [ops EXCEPT ![request[r].key] =
                          [ops[request[r].key] EXCEPT !.status = "unknown", !.avail = "later"]]
            BY <2>2, <3>3, <5>3 DEF Record
          <6>. QED BY <6>1
        <5>. QED BY <3>1, <5>1, <5>2, <5>3
      <4>. QED BY <3>1, <4>1, <4>2 DEF Typed, TypeOK
    <3>. QED BY <3>2, <3>3
  <2>3. ASSUME NEW j \in Key, Time(j) \/ MarkFailed(j) PROVE ops'[k] = ops[k]
    BY <1>2, <2>3 DEF Time, LeaseExpires, BecomesDue, MarkFailed, Typed, TypeOK
  <2>4. ASSUME NEW w \in Worker, ClaimForRecovery(w) PROVE ops'[k] = ops[k]
    BY <1>2, <2>4 DEF ClaimForRecovery, ReadyForRecovery, Typed, TypeOK
  <2>5. ASSUME NEW w \in Worker, SettleRecovery(w) PROVE ops'[k] = ops[k]
    <3>. DEFINE j == worker[w].key
    <3>1. j \in Key
      BY <2>5 DEF SettleRecovery, Typed, Named
    <3>2. CASE ~HasLiveClaim(j, w)
      BY <2>5, <3>2 DEF SettleRecovery
    <3>3. CASE HasLiveClaim(j, w)
      <4>1. j # k
        BY <1>2, <3>3 DEF HasLiveClaim, OwnsClaim
      <4>2. Complete(j) \/ RescheduleAfterFailedRead(j)
        BY <2>5, <3>3 DEF SettleRecovery
      <4>3. \E op : ops' = [ops EXCEPT ![j] = op]
        BY <4>2 DEF Complete, RescheduleAfterFailedRead
      <4>. QED BY <3>1, <4>1, <4>3 DEF Typed, TypeOK
    <3>. QED BY <3>2, <3>3
  <2>6. ASSUME MarkCompleted PROVE ops'[k] = ops[k]
    BY <1>2, <2>6 DEF MarkCompleted, Typed, TypeOK
  <2>7. CASE ops' = ops
    BY <1>2, <2>7
  <2>. QED
    BY <1>2, <2>1, <2>2, <2>3, <2>4, <2>5, <2>6, <2>7
    DEF Next, vars, RequestStep, CallAccepted, CallRefused, CashierSaves, RequestDies,
        MarkCompletedReads, WorkerStep, ReadRemoteSnapshot, WorkerDies
<1>. QED BY <1>1, <1>2 DEF Clean

LEMMA BeginSyncs ==
  ASSUME Typed, Alone, Synced, NEW r \in Request, Begin(r)
  PROVE  Synced'
<1>1. PICK k \in Key, change \in Change :
        /\ ops[k] = Null
        /\ \A j \in Key : ~IsActive(ops[j])
        /\ ops' = [ops EXCEPT ![k] =
             [change |-> change, status |-> "processing", attempts |-> 0,
              claim |-> r, lease |-> "live", avail |-> "due"]]
        /\ request' = [request EXCEPT ![r] = [pc |-> "calling", key |-> k, answer |-> Null]]
        /\ UNCHANGED <<local, paddle, worker, operator>>
  BY DEF Begin, Conflicts
<1>2. paddle = local /\ \A q \in Request : request[q].pc = "idle"
  <2>1. paddle = local
    BY <1>1 DEF Synced, Explained
  <2>2. ASSUME NEW q \in Request, request[q].pc # "idle" PROVE FALSE
    <3>1. ops[request[q].key].status = "processing" /\ request[q].key \in Key
          /\ ops[request[q].key] # Null
      BY <2>2 DEF Synced, RequestsKnow, Typed, Named
    <3>. QED BY <1>1, <3>1 DEF IsActive
  <2>. QED BY <2>1, <2>2
<1>3. /\ \A q \in Request \ {r} : request'[q].pc = "idle"
      /\ request'[r].pc = "calling" /\ request'[r].key = k
      /\ ops'[k].status = "processing" /\ ops'[k].claim = r /\ ops'[k].lease = "live"
      /\ \A j \in Key \ {k} : ops'[j] = ops[j]
      /\ ops'[k] # Null
  BY <1>1, <1>2, SubscriptionAssumption DEF Typed, TypeOK, Operation, Statuses
<1>4. RequestsKnow'
  BY <1>1, <1>2, <1>3 DEF RequestsKnow
<1>5. Explained'
  BY <1>1, <1>2, <1>3 DEF Explained, IsActive
<1>6. RunsKnow'
  BY <1>1, <1>3 DEF RunsKnow, OwnsClaim, Typed, Named, Synced
<1>7. OperatorKnows'
  BY <1>1, <1>3 DEF OperatorKnows, Typed, Named, Synced
<1>. QED BY <1>4, <1>5, <1>6, <1>7 DEF Synced

LEMMA CallSyncs ==
  ASSUME Typed, Alone, Synced, NEW r \in Request, CallAccepted(r) \/ CallRefused(r)
  PROVE  Synced'
<1>. DEFINE k == request[r].key
<1>1. /\ request[r].pc = "calling" /\ UNCHANGED <<ops, local, worker, operator>>
      /\ paddle' = paddle \/ paddle' = Applied(ops[k].change, paddle)
  BY DEF CallAccepted, CallRefused
<1>2. PICK answer \in {"ok", "rejected", "lost"} :
        /\ request' = [request EXCEPT ![r].pc = "answered", ![r].answer = answer]
        /\ answer = "ok" => paddle' = Applied(ops[k].change, paddle)
  BY DEF CallAccepted, CallRefused
<1>3. /\ request'[r].pc = "answered" /\ request'[r].answer = answer /\ request'[r].key = k
      /\ \A q \in Request \ {r} : request'[q] = request[q]
  BY <1>2 DEF Typed, TypeOK
<1>4. /\ k \in Key
      /\ ops[k].status = "processing" /\ ops[k].claim = r /\ ops[k].lease = "live"
      /\ \A q \in Request \ {r} : request[q].pc = "idle"
      /\ \A j \in Key : IsActive(ops[j]) => j = k
      /\ \A w \in Worker : worker[w].pc # "idle" => ~OwnsClaim(worker[w].key, w)
      /\ operator.pc # "idle" => ops[operator.key].status # "manual_review"
      /\ paddle = local
      /\ ops[k] # Null
  BY <1>1, Sole DEF Synced, RequestsKnow, Typed, Named
<1>5. RequestsKnow'
  <2>. SUFFICES ASSUME NEW q \in Request, request'[q].pc # "idle"
                PROVE  LET op == ops'[request'[q].key] IN
                       /\ op.status = "processing" /\ op.claim = q /\ op.lease = "live"
                       /\ request'[q].pc \in {"calling", "saved"} => paddle' = local'
                       /\ request'[q].pc = "answered" /\ request'[q].answer = "ok"
                            => paddle' = Applied(op.change, local')
    BY DEF RequestsKnow
  <2>1. q = r
    BY <1>3, <1>4
  <2>2. answer = "ok" => paddle' = Applied(ops[k].change, local)
    BY <1>2, <1>4
  <2>3. ops'[request'[q].key] = ops[k] /\ local' = local
    BY <1>1, <1>3, <2>1
  <2>. QED BY <1>3, <1>4, <2>1, <2>2, <2>3
<1>6. Explained'
  BY <1>1, <1>4 DEF Explained, IsActive
<1>7. RunsKnow'
  BY <1>1, <1>4 DEF RunsKnow, OwnsClaim
<1>8. OperatorKnows'
  BY <1>1, <1>4 DEF OperatorKnows, Synced
<1>. QED BY <1>5, <1>6, <1>7, <1>8 DEF Synced

LEMMA SaveSyncs ==
  ASSUME Typed, Alone, Synced, NEW r \in Request, CashierSaves(r)
  PROVE  Synced'
<1>. DEFINE k == request[r].key
<1>1. /\ request[r].pc = "answered" /\ request[r].answer = "ok"
      /\ local' = Applied(ops[k].change, local)
      /\ request'[r].pc = "saved" /\ request'[r].key = k
      /\ \A q \in Request \ {r} : request'[q] = request[q]
      /\ UNCHANGED <<ops, paddle, worker, operator>>
  BY DEF CashierSaves, Typed, TypeOK
<1>2. /\ ops[k].status = "processing" /\ ops[k].claim = r /\ ops[k].lease = "live"
      /\ \A q \in Request \ {r} : request[q].pc = "idle"
      /\ paddle = local'
  BY <1>1, Sole DEF Synced, RequestsKnow
<1>3. RequestsKnow'
  BY <1>1, <1>2 DEF RequestsKnow
<1>4. Explained'
  BY <1>1, <1>2 DEF Explained
<1>. QED BY <1>1, <1>3, <1>4 DEF Synced, RunsKnow, OwnsClaim, OperatorKnows

LEMMA RecordSyncs ==
  ASSUME Typed, Alone, Synced, NEW r \in Request, Record(r), Clean'
  PROVE  Synced'
<1>. DEFINE k == request[r].key
<1>1. /\ request[r].pc # "idle" /\ UNCHANGED <<local, paddle, worker, operator>>
      /\ request'[r].pc = "idle"
      /\ \A q \in Request \ {r} : request'[q] = request[q]
  BY DEF Record, NoRequest, Typed, TypeOK
<1>2. /\ k \in Key /\ ops[k] \in Operation /\ ops[k] # Null
      /\ ops[k].status = "processing" /\ ops[k].claim = r
      /\ \A q \in Request \ {r} : request[q].pc = "idle"
      /\ \A j \in Key : IsActive(ops[j]) => j = k
      /\ \A w \in Worker : worker[w].pc # "idle" => ~OwnsClaim(worker[w].key, w)
  BY <1>1, Sole DEF Synced, Typed, Named
<1>3. /\ \A j \in Key \ {k} : ops'[j] = ops[j]
      /\ ops'[k] # Null /\ ops'[k].change = ops[k].change
      /\ \/ ops'[k].status = "completed" /\ paddle = local
         \/ ops'[k].status = "unknown"
  <2>1. request[r].answer \in {"ok", "rejected", "lost"} /\ OwnsClaim(k, r)
    BY <1>1, <1>2 DEF Record, Typed, Named, OwnsClaim
  <2>2. CASE request[r].answer = "ok"
    <3>1. ops' = [ops EXCEPT ![k] = [ops[k] EXCEPT !.status = "completed"]]
      BY <2>1, <2>2 DEF Record
    <3>2. request[r].pc = "saved"
      BY <2>2 DEF Record
    <3>3. [ops[k] EXCEPT !.status = "completed"] \in Operation
      BY <1>2 DEF Operation, Statuses
    <3>4. ops'[k] = [ops[k] EXCEPT !.status = "completed"]
          /\ \A j \in Key \ {k} : ops'[j] = ops[j]
      BY <1>2, <3>1 DEF Typed, TypeOK
    <3>5. ops'[k] # Null
      BY <3>3, <3>4, SubscriptionAssumption
    <3>6. ops'[k].status = "completed" /\ ops'[k].change = ops[k].change
      BY <1>2, <3>4 DEF Operation
    <3>7. paddle = local
      BY <1>1, <3>2 DEF Synced, RequestsKnow
    <3>. QED BY <3>4, <3>5, <3>6, <3>7
  <2>3. CASE request[r].answer = "rejected"
    <3>1. ops' = [ops EXCEPT ![k] = [ops[k] EXCEPT !.status = "failed"]]
      BY <2>1, <2>3 DEF Record
    <3>2. [ops[k] EXCEPT !.status = "failed"] \in Operation
      BY <1>2 DEF Operation, Statuses
    <3>3. ops'[k] # Null /\ ops'[k].status = "failed"
      <4>1. ops'[k] = [ops[k] EXCEPT !.status = "failed"]
        BY <1>2, <3>1 DEF Typed, TypeOK
      <4>. QED BY <1>2, <3>2, <4>1, SubscriptionAssumption DEF Operation
    <3>. QED BY <1>2, <3>3 DEF Clean
  <2>4. CASE request[r].answer = "lost"
    <3>1. ops' = [ops EXCEPT ![k] = [ops[k] EXCEPT !.status = "unknown", !.avail = "later"]]
      BY <2>1, <2>4 DEF Record
    <3>2. [ops[k] EXCEPT !.status = "unknown", !.avail = "later"] \in Operation
      BY <1>2 DEF Operation, Statuses
    <3>3. ops'[k] = [ops[k] EXCEPT !.status = "unknown", !.avail = "later"]
          /\ \A j \in Key \ {k} : ops'[j] = ops[j]
      BY <1>2, <3>1 DEF Typed, TypeOK
    <3>4. ops'[k] # Null
      BY <3>2, <3>3, SubscriptionAssumption
    <3>5. ops'[k].status = "unknown" /\ ops'[k].change = ops[k].change
      BY <1>2, <3>3 DEF Operation
    <3>. QED BY <3>3, <3>4, <3>5
  <2>. QED BY <2>1, <2>2, <2>3, <2>4
<1>4. RequestsKnow'
  BY <1>1, <1>2 DEF RequestsKnow
<1>5. Explained'
  BY <1>1, <1>2, <1>3 DEF Explained, IsActive, Synced
<1>6. RunsKnow'
  BY <1>1, <1>2, <1>3 DEF RunsKnow, OwnsClaim, Typed, Named
<1>7. OperatorKnows'
  BY <1>1, <1>2, <1>3 DEF OperatorKnows, Typed, Named, Synced
<1>. QED BY <1>4, <1>5, <1>6, <1>7 DEF Synced

LEMMA RequestDiesSyncs ==
  ASSUME Typed, Alone, Synced, NEW r \in Request, RequestDies(r)
  PROVE  Synced'
<1>1. /\ request'[r].pc = "idle"
      /\ \A q \in Request \ {r} : request'[q] = request[q]
      /\ UNCHANGED <<ops, local, paddle, worker, operator>>
  BY DEF RequestDies, NoRequest, Typed, TypeOK
<1>. QED BY <1>1 DEF Synced, RequestsKnow, Explained, RunsKnow, OwnsClaim, OperatorKnows

LEMMA TimeSyncs ==
  ASSUME Typed, Alone, Synced, NEW k \in Key, Time(k), Clean'
  PROVE  Synced'
<1>1. /\ ops[k] # Null /\ UNCHANGED <<local, paddle, request, worker, operator>>
      /\ \A j \in Key \ {k} : ops'[j] = ops[j]
      /\ ops[k] \in Operation
  BY DEF Time, LeaseExpires, BecomesDue, Typed, TypeOK
<1>2. /\ ops'[k].status = ops[k].status /\ ops'[k].change = ops[k].change
      /\ ops'[k].claim = ops[k].claim /\ ops'[k] # Null
      /\ ops[k].status \in {"processing", "unknown"}
  BY <1>1, SubscriptionAssumption
  DEF Time, LeaseExpires, BecomesDue, Typed, TypeOK, Operation
<1>3. \A r \in Request : request[r].pc # "idle" => request[r].key # k
  <2>. SUFFICES ASSUME NEW r \in Request, request[r].pc # "idle", request[r].key = k
                PROVE  FALSE
    OBVIOUS
  <2>1. ops[k].status = "processing" /\ ops[k].claim = r
    BY DEF Synced, RequestsKnow
  <2>2. overtaken'
    BY <2>1 DEF Time, LeaseExpires, BecomesDue, Runs
  <2>. QED BY <2>2 DEF Clean
<1>4. \A j \in Key : IsActive(ops'[j]) <=> IsActive(ops[j])
  BY <1>1, <1>2 DEF IsActive
<1>5. \A j \in Key : ops'[j].status = ops[j].status /\ ops'[j].change = ops[j].change
                     /\ ops'[j].claim = ops[j].claim
  BY <1>1, <1>2
<1>6. RequestsKnow'
  BY <1>1, <1>3 DEF RequestsKnow, Synced, Typed, Named
<1>7. Explained'
  BY <1>1, <1>4, <1>5 DEF Explained, Synced
<1>8. RunsKnow'
  BY <1>1, <1>5 DEF RunsKnow, OwnsClaim, Synced, Typed, Named
<1>9. OperatorKnows'
  BY <1>1, <1>5 DEF OperatorKnows, Synced, Typed, Named
<1>. QED BY <1>6, <1>7, <1>8, <1>9 DEF Synced

LEMMA ClaimSyncs ==
  ASSUME Typed, Alone, Synced, NEW w \in Worker, ClaimForRecovery(w)
  PROVE  Synced'
<1>1. PICK k \in Key :
        /\ ReadyForRecovery(k)
        /\ ops' = [ops EXCEPT ![k].status = "processing", ![k].claim = w, ![k].lease = "live"]
        /\ worker' = [worker EXCEPT ![w] = [pc |-> "reading", key |-> k, snapshot |-> Null]]
        /\ UNCHANGED <<local, paddle, request, operator>>
  BY DEF ClaimForRecovery
<1>2. /\ ops[k] # Null /\ ops[k] \in Operation
      /\ ops[k].status \in {"processing", "unknown"}
      /\ ops[k].status = "processing" => ops[k].lease = "expired"
  BY <1>1 DEF ReadyForRecovery, Typed, TypeOK
<1>3. /\ \A j \in Key \ {k} : ops'[j] = ops[j]
      /\ ops'[k].status = "processing" /\ ops'[k].claim = w
      /\ ops'[k].change = ops[k].change /\ ops'[k] # Null
      /\ worker'[w].pc = "reading"
      /\ \A v \in Worker \ {w} : worker'[v] = worker[v]
  <2>. DEFINE op == [ops[k] EXCEPT !.status = "processing", !.claim = w, !.lease = "live"]
  <2>1. op \in Operation /\ op.status = "processing" /\ op.claim = w /\ op.change = ops[k].change
    BY <1>2 DEF Operation, Statuses
  <2>2. ops' = [ops EXCEPT ![k] = op]
    BY <1>1
  <2>. HIDE DEF op
  <2>3. ops'[k] = op /\ \A j \in Key \ {k} : ops'[j] = ops[j]
    BY <2>2 DEF Typed, TypeOK
  <2>4. op # Null
    BY <2>1, SubscriptionAssumption
  <2>5. worker'[w].pc = "reading" /\ \A v \in Worker \ {w} : worker'[v] = worker[v]
    BY <1>1 DEF Typed, TypeOK
  <2>. QED BY <2>1, <2>3, <2>4, <2>5
<1>. UNCHANGED <<local, paddle, request, operator>>
  BY <1>1
<1>4. \A r \in Request : request[r].pc # "idle" => request[r].key # k
  BY <1>2 DEF Synced, RequestsKnow
<1>5. \A j \in Key : /\ IsActive(ops'[j]) <=> IsActive(ops[j])
                     /\ ops'[j].change = ops[j].change
  BY <1>2, <1>3 DEF IsActive
<1>6. RequestsKnow'
  BY <1>3, <1>4 DEF RequestsKnow, Synced, Typed, Named
<1>7. Explained'
  BY <1>5 DEF Explained, Synced
<1>8. RunsKnow'
  BY <1>3 DEF RunsKnow, OwnsClaim, Synced, Typed, Named
<1>9. OperatorKnows'
  BY <1>2, <1>3 DEF OperatorKnows, Synced, Typed, Named
<1>. QED BY <1>6, <1>7, <1>8, <1>9 DEF Synced

LEMMA ReadSyncs ==
  ASSUME Typed, Alone, Synced, NEW w \in Worker, ReadRemoteSnapshot(w)
  PROVE  Synced'
<1>1. PICK snapshot \in {paddle, Null} :
        worker' = [worker EXCEPT ![w].pc = "settling", ![w].snapshot = snapshot]
  BY DEF ReadRemoteSnapshot
<1>2. /\ worker'[w].snapshot \in {paddle, Null}
      /\ \A v \in Worker \ {w} : worker'[v] = worker[v]
      /\ UNCHANGED <<ops, local, paddle, request, operator>>
  BY <1>1 DEF ReadRemoteSnapshot, Typed, TypeOK
<1>. QED BY <1>2 DEF Synced, RequestsKnow, Explained, RunsKnow, OwnsClaim, OperatorKnows

\* A recovery run or an operator settles the operation that explains the
\* difference, and leaves no difference if the operation is then completed.
LEMMA SettlingSyncs ==
  ASSUME Typed, Alone, Synced, NEW k \in Key, ops[k] # Null, IsActive(ops[k]),
         \A r \in Request : request[r].pc = "idle",
         \A j \in Key \ {k} : ops'[j] = ops[j],
         ops'[k] # Null, ops'[k].change = ops[k].change,
         \/ /\ ops'[k].status = "completed" /\ Proves(ops[k].change, paddle)
            /\ local' = Reconciled(ops[k].change, local)
         \/ /\ ops'[k].status \in {"unknown", "manual_review"}
            /\ ops[k].status = "processing" /\ local' = local,
         UNCHANGED <<paddle, request>>,
         \A w \in Worker : worker'[w].pc = "settling" => worker'[w] = worker[w],
         operator'.pc = "settling" => operator' = operator
  PROVE  Synced'
<1>1. \A j \in Key \ {k} : ~IsActive(ops[j])
  BY DEF Alone
<1>2. ops'[k].status = "completed" => local' = paddle
  BY ReconciledIsRemote, RecordedOperation DEF Synced, Explained, Typed, TypeOK
<1>3. RequestsKnow'
  BY DEF RequestsKnow
<1>4. Explained'
  BY <1>1, <1>2 DEF Explained, IsActive, Synced
<1>5. RunsKnow'
  BY DEF RunsKnow, OwnsClaim, Synced, Typed, Named
<1>6. OperatorKnows'
  BY DEF OperatorKnows, Synced, Typed, Named
<1>. QED BY <1>3, <1>4, <1>5, <1>6 DEF Synced

LEMMA SettleSyncs ==
  ASSUME Typed, Alone, Synced, NEW w \in Worker, SettleRecovery(w)
  PROVE  Synced'
<1>. DEFINE k == worker[w].key
<1>1. /\ worker[w].pc = "settling" /\ k \in Key /\ ops[k] # Null /\ ops[k] \in Operation
      /\ worker'[w].pc = "idle" /\ \A v \in Worker \ {w} : worker'[v] = worker[v]
      /\ UNCHANGED <<paddle, request, operator>>
  BY DEF SettleRecovery, NoWork, Typed, TypeOK, Named
<1>2. CASE ~HasLiveClaim(k, w)
  <2>1. UNCHANGED <<ops, local>>
    BY <1>2 DEF SettleRecovery
  <2>. QED BY <1>1, <2>1 DEF Synced, RequestsKnow, Explained, RunsKnow, OwnsClaim, OperatorKnows
<1>3. CASE HasLiveClaim(k, w)
  <2>1. ops[k].status = "processing" /\ IsActive(ops[k])
    BY <1>1, <1>3 DEF HasLiveClaim, OwnsClaim, IsActive
  <2>2. \A r \in Request : request[r].pc = "idle"
    BY <1>1, <1>3, Sole DEF HasLiveClaim, Synced
  <2>3. worker[w].snapshot \in {paddle, Null}
    BY <1>1, <1>3 DEF HasLiveClaim, Synced, RunsKnow
  <2>4. ops[k].attempts + 1 \in Nat
    BY <1>1, SubscriptionAssumption DEF Operation
  <2>5. CASE Proves(ops[k].change, worker[w].snapshot)
    <3>1. Complete(k) /\ Proves(ops[k].change, paddle)
      BY <1>3, <2>3, <2>5 DEF SettleRecovery, Proves
    <3>2. /\ ops' = [ops EXCEPT ![k] = [ops[k] EXCEPT !.status = "completed", !.attempts = @ + 1]]
          /\ local' = Reconciled(ops[k].change, local)
      BY <3>1 DEF Complete
    <3>3. /\ \A j \in Key \ {k} : ops'[j] = ops[j]
          /\ ops'[k].status = "completed" /\ ops'[k].change = ops[k].change
      BY <1>1, <3>2 DEF Typed, TypeOK, Operation
    <3>4. ops'[k] # Null
      BY <1>1, OpsStep, <2>1 DEF Works, WorkerStep, Kept
    <3>. QED BY <1>1, <2>1, <2>2, <3>1, <3>2, <3>3, <3>4, SettlingSyncs
  <2>6. CASE ~Proves(ops[k].change, worker[w].snapshot)
    <3>1. RescheduleAfterFailedRead(k)
      BY <1>3, <2>6 DEF SettleRecovery
    <3>2. \/ ops' = [ops EXCEPT ![k] = [ops[k] EXCEPT !.status = "manual_review", !.attempts = @ + 1]]
          \/ ops' = [ops EXCEPT ![k] = [ops[k] EXCEPT !.status = "unknown", !.attempts = @ + 1,
                                                      !.avail = "later"]]
      BY <3>1 DEF RescheduleAfterFailedRead
    <3>3. /\ \A j \in Key \ {k} : ops'[j] = ops[j]
          /\ ops'[k].status \in {"manual_review", "unknown"} /\ ops'[k].change = ops[k].change
          /\ local' = local
      BY <1>1, <3>1, <3>2 DEF RescheduleAfterFailedRead, Typed, TypeOK, Operation
    <3>4. ops'[k] # Null
      BY <1>1, OpsStep, <2>1 DEF Works, WorkerStep, Kept
    <3>. QED BY <1>1, <2>1, <2>2, <3>3, <3>4, SettlingSyncs
  <2>. QED BY <2>5, <2>6
<1>. QED BY <1>2, <1>3

LEMMA OperatorSyncs ==
  ASSUME Typed, Alone, Synced, MarkCompleted
  PROVE  Synced'
<1>. DEFINE k == operator.key
<1>1. /\ operator.pc = "settling" /\ k \in Key /\ ops[k] # Null /\ ops[k] \in Operation
      /\ operator'.pc = "idle"
      /\ UNCHANGED <<paddle, request, worker>>
  BY DEF MarkCompleted, NoWork, Typed, TypeOK, Named
<1>2. CASE ops[k].status # "manual_review"
  <2>1. UNCHANGED <<ops, local>>
    BY <1>2 DEF MarkCompleted
  <2>. QED BY <1>1, <2>1 DEF Synced, RequestsKnow, Explained, RunsKnow, OwnsClaim, OperatorKnows
<1>3. CASE ops[k].status = "manual_review"
  <2>1. IsActive(ops[k]) /\ Proves(ops[k].change, paddle)
    BY <1>1, <1>3 DEF IsActive, Synced, OperatorKnows
  <2>2. \A r \in Request : request[r].pc = "idle"
    BY <1>1, <1>3, Sole DEF Synced
  <2>3. /\ ops' = [ops EXCEPT ![k] = [ops[k] EXCEPT !.status = "completed"]]
        /\ local' = Reconciled(ops[k].change, local)
    BY <1>3 DEF MarkCompleted
  <2>4. /\ \A j \in Key \ {k} : ops'[j] = ops[j]
        /\ ops'[k].status = "completed" /\ ops'[k].change = ops[k].change
    BY <1>1, <2>3 DEF Typed, TypeOK, Operation
  <2>5. ops'[k] # Null
    BY <1>1, OpsStep DEF Works, Kept
  <2>. QED BY <1>1, <2>1, <2>2, <2>3, <2>4, <2>5, SettlingSyncs
<1>. QED BY <1>2, <1>3

LEMMA SyncedStep ==
  ASSUME Typed, Typed', Alone, Clean => Synced, [Next]_vars
  PROVE  (Clean => Synced)'
<1>. SUFFICES ASSUME Clean' PROVE Synced'
  OBVIOUS
<1>. Synced
  BY CleanBefore
<1>1. ASSUME NEW w \in Worker, WorkerDies(w) PROVE Synced'
  <2>1. /\ worker'[w].pc = "idle" /\ \A v \in Worker \ {w} : worker'[v] = worker[v]
        /\ UNCHANGED <<ops, local, paddle, request, operator>>
    BY <1>1 DEF WorkerDies, NoWork, Typed, TypeOK
  <2>. QED BY <2>1 DEF Synced, RequestsKnow, Explained, RunsKnow, OwnsClaim, OperatorKnows
<1>2. ASSUME NEW k \in Key, MarkCompletedReads(k) PROVE Synced'
  BY <1>2 DEF MarkCompletedReads, Synced, RequestsKnow, Explained, RunsKnow, OwnsClaim,
              OperatorKnows
<1>3. ASSUME NEW k \in Key, MarkFailed(k) PROVE FALSE
  <2>1. ops'[k] # Null
    BY <1>3, OpsStep DEF Works, Kept, MarkFailed
  <2>2. ops'[k].status = "failed"
    BY <1>3 DEF MarkFailed, Typed, TypeOK, Operation
  <2>. QED BY <2>1, <2>2 DEF Clean
<1>4. CASE UNCHANGED vars
  BY <1>4 DEF vars, Synced, RequestsKnow, Explained, RunsKnow, OwnsClaim, OperatorKnows
<1>. QED
  BY <1>1, <1>2, <1>3, <1>4, BeginSyncs, CallSyncs, SaveSyncs, RecordSyncs, RequestDiesSyncs,
     TimeSyncs, ClaimSyncs, ReadSyncs, SettleSyncs, OperatorSyncs
  DEF Next, RequestStep, WorkerStep

\* For all keys, plans, requests and runs: once all operations are completed the
\* local subscription is Paddle's, unless a request outlived its claim.
THEOREM CompletedMeansInStep == Spec => []InStep
<1>1. Init => (Clean => Synced)
  <2>. SUFFICES ASSUME Init PROVE Synced
    OBVIOUS
  <2>1. /\ \A r \in Request : request[r].pc = "idle"
        /\ \A w \in Worker : worker[w].pc = "idle"
        /\ \A k \in Key : ops[k] = Null
        /\ operator.pc = "idle" /\ paddle = local
    BY DEF Init, NoRequest, NoWork
  <2>. QED BY <2>1 DEF Synced, RequestsKnow, Explained, RunsKnow, OperatorKnows, IsActive
<1>2. Typed /\ Typed' /\ Alone /\ (Clean => Synced) /\ [Next]_vars => (Clean => Synced)'
  BY SyncedStep
<1>3. (Clean => Synced) => InStep
  BY DEF Clean, Synced, Explained, IsActive, InStep
<1>. QED BY <1>1, <1>2, <1>3, AloneInvariant, PTL DEF Spec
=============================================================================
