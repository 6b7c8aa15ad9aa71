------------------------ MODULE SubscriptionOperation ------------------------
(***************************************************************************)
(* Changing the plan of one user's paid subscription and cancelling it.    *)
(* A request records an operation under its idempotency key, calls Paddle  *)
(* once outside the transaction, and records the answer under its claim    *)
(* (SubscriptionService).  What stays uncertain is claimed by a scheduled  *)
(* command that reads Paddle and completes the operation if Paddle shows   *)
(* its result, without ever repeating the call                             *)
(* (RecoverSubscriptionOperation); after some attempts an operator decides *)
(* (ResolveSubscriptionOperation).                                         *)
(*                                                                         *)
(* The operation is stored by its key.  A claim token is named after the   *)
(* process that made it: a process holds one claim at a time.              *)
(***************************************************************************)
EXTENDS Naturals

CONSTANTS
  Key,          \* idempotency keys
  Plan,         \* billing plans
  Request,      \* concurrent HTTP requests
  Worker,       \* overlapping runs of the recovery command
  Null,
  MaxAttempts,  \* RecoverSubscriptionOperation::MAX_RECOVERY_ATTEMPTS
  MaxFaults     \* bound on deaths, and on claims a live process outlives

Change == [type: {"swap"}, plan: Plan] \cup [type: {"cancel"}, plan: Plan]

Subscription == [plan: Plan, status: {"active", "deleted"}]

Statuses == {"processing", "completed", "failed", "unknown", "manual_review"}

Operation == [change: Change, status: Statuses, attempts: 0..MaxAttempts,
              claim: Request \cup Worker, lease: {"live", "expired"},
              avail: {"later", "due"}]

ASSUME SubscriptionAssumption ==
  /\ MaxAttempts \in Nat \ {0} /\ MaxFaults \in Nat
  /\ Null \notin Key \cup Plan \cup Request \cup Worker \cup Subscription \cup Operation
  /\ Request \cap Worker = {}

VARIABLES
  ops,        \* the operations, by key
  local,      \* the local subscription
  paddle,     \* Paddle's subscription
  request,    \* what every HTTP request is doing
  worker,     \* what every recovery run is doing
  operator,   \* what the operator who completes an operation has read
  faults,
  calls,      \* history: calls made for the operation of a key
  shown,      \* history: keys whose result Paddle has shown since they were recorded
  overtaken   \* history: a request has lost its claim while it ran

vars == <<ops, local, paddle, request, worker, operator, faults, calls, shown, overtaken>>

NoRequest == [pc |-> "idle", key |-> Null, answer |-> Null]

NoWork == [pc |-> "idle", key |-> Null, snapshot |-> Null]

\* What recovery still works on has attempts left.
TypeOK ==
  /\ ops \in [Key -> Operation \cup {Null}]
  /\ \A k \in Key : ops[k] # Null /\ ops[k].status \in {"processing", "unknown"}
                     => ops[k].attempts < MaxAttempts
  /\ local \in Subscription /\ paddle \in Subscription
  /\ request \in [Request -> [pc: {"idle", "calling", "answered", "saved"},
                              key: Key \cup {Null},
                              answer: {"ok", "rejected", "lost", Null}]]
  /\ worker \in [Worker -> [pc: {"idle", "reading", "settling"}, key: Key \cup {Null},
                            snapshot: Subscription \cup {Null}]]
  /\ operator \in [pc: {"idle", "settling"}, key: Key \cup {Null},
                   snapshot: Subscription \cup {Null}]
  /\ faults \in 0..MaxFaults
  /\ calls \in [Key -> Nat] /\ shown \subseteq Key /\ overtaken \in BOOLEAN

Init ==
  /\ ops = [k \in Key |-> Null]
  /\ \E plan \in Plan : local = [plan |-> plan, status |-> "active"]
  /\ paddle = local
  /\ request = [r \in Request |-> NoRequest]
  /\ worker = [w \in Worker |-> NoWork]
  /\ operator = NoWork
  /\ faults = 0
  /\ calls = [k \in Key |-> 0] /\ shown = {} /\ overtaken = FALSE

-----------------------------------------------------------------------------
IsActive(op) == op # Null /\ op.status \in {"processing", "unknown", "manual_review"}

\* Variant of the next definition: what nobody works on does not conflict.
ConflictsWhileProcessing(k) == ops[k] # Null /\ ops[k].status = "processing"

Conflicts(k) == IsActive(ops[k])

\* What the change makes of a subscription.
Applied(change, sub) ==
  IF change.type = "swap" THEN [sub EXCEPT !.plan = change.plan]
                          ELSE [sub EXCEPT !.status = "deleted"]

\* sub is as the change leaves an active subscription.
IsResult(change, sub) == sub = Applied(change, [sub EXCEPT !.status = "active"])

\* validateSwapAllowed and validateCancelAllowed, of the local subscription.
IsAllowed(change) ==
  /\ local.status = "active"
  /\ change.type = "swap" <=> change.plan # local.plan

\* Variant of the next definition: the plan is not compared.
ProvesByStatus(change, sub) ==
  sub # Null /\ (sub.status = "deleted" <=> change.type = "cancel")

\* VerifySubscriptionOperation.
Proves(change, sub) ==
  /\ sub # Null
  /\ IF change.type = "swap" THEN sub.plan = change.plan /\ sub.status = "active"
                             ELSE sub.status = "deleted"

Fault == faults < MaxFaults /\ faults' = faults + 1

-----------------------------------------------------------------------------
(* SubscriptionService.                                                    *)

\* One transaction under the lock of the user.  A key that is known calls
\* nothing: its operation is returned, or refused as another request's.
Begin(r) ==
  /\ request[r].pc = "idle"
  /\ \E k \in Key, change \in Change :
       /\ ops[k] = Null
       /\ IsAllowed(change)
       /\ \A j \in Key : ~Conflicts(j)
       /\ ops' = [ops EXCEPT ![k] =
            [change |-> change, status |-> "processing", attempts |-> 0,
             claim |-> r, lease |-> "live", avail |-> "due"]]
       /\ request' = [request EXCEPT ![r] = [pc |-> "calling", key |-> k, answer |-> Null]]
       /\ shown' = IF IsResult(change, paddle) THEN shown \cup {k} ELSE shown
  /\ UNCHANGED <<local, paddle, worker, operator, faults, calls, overtaken>>

\* Paddle makes the change of an active subscription; its answer may be lost.
CallAccepted(r) ==
  /\ request[r].pc = "calling" /\ paddle.status = "active"
  /\ LET k == request[r].key IN
       /\ paddle' = Applied(ops[k].change, paddle)
       /\ calls' = [calls EXCEPT ![k] = @ + 1]
       /\ shown' = shown \cup {j \in Key : ops[j] # Null /\ IsResult(ops[j].change, paddle')}
  /\ \E answer \in {"ok", "lost"} :
       request' = [request EXCEPT ![r].pc = "answered", ![r].answer = answer]
  /\ UNCHANGED <<ops, local, worker, operator, faults, overtaken>>

\* Paddle refuses, or the call does not get there.
CallRefused(r) ==
  /\ request[r].pc = "calling"
  /\ \E answer \in {"rejected", "lost"} :
       request' = [request EXCEPT ![r].pc = "answered", ![r].answer = answer]
  /\ calls' = [calls EXCEPT ![request[r].key] = @ + 1]
  /\ UNCHANGED <<ops, local, paddle, worker, operator, faults, shown, overtaken>>

\* Cashier saves its model of the subscription before it returns.
CashierSaves(r) ==
  /\ request[r].pc = "answered" /\ request[r].answer = "ok"
  /\ local' = Applied(ops[request[r].key].change, local)
  /\ request' = [request EXCEPT ![r].pc = "saved"]
  /\ UNCHANGED <<ops, paddle, worker, operator, faults, calls, shown, overtaken>>

\* Variant of the next definition: the token is not compared.
StillProcessing(k, r) == ops[k].status = "processing"

OwnsClaim(k, r) == ops[k].status = "processing" /\ ops[k].claim = r

\* recordSuccess, recordFailure, recordUnknown: one statement, under the claim.
Record(r) ==
  /\ \/ request[r].pc = "saved"
     \/ request[r].pc = "answered" /\ request[r].answer # "ok"
  /\ LET k == request[r].key IN
       ops' = IF ~OwnsClaim(k, r) THEN ops
              ELSE CASE request[r].answer = "ok" -> [ops EXCEPT ![k].status = "completed"]
                     [] request[r].answer = "rejected" -> [ops EXCEPT ![k].status = "failed"]
                     [] request[r].answer = "lost" ->
                          [ops EXCEPT ![k].status = "unknown", ![k].avail = "later"]
  /\ request' = [request EXCEPT ![r] = NoRequest]
  /\ UNCHANGED <<local, paddle, worker, operator, faults, calls, shown, overtaken>>

RequestDies(r) ==
  /\ request[r].pc # "idle"
  /\ Fault
  /\ request' = [request EXCEPT ![r] = NoRequest]
  /\ UNCHANGED <<ops, local, paddle, worker, operator, calls, shown, overtaken>>

-----------------------------------------------------------------------------
(* Time.                                                                   *)

Runs(p, k) ==
  \/ p \in Request /\ request[p].key = k
  \/ p \in Worker /\ worker[p].key = k

\* Nothing keeps a process alive from outliving its five minutes.
LeaseExpires(k) ==
  /\ ops[k] # Null
  /\ ops[k].status = "processing" /\ ops[k].lease = "live"
  /\ IF Runs(ops[k].claim, k) THEN Fault ELSE UNCHANGED faults
  /\ overtaken' = (overtaken \/ (ops[k].claim \in Request /\ Runs(ops[k].claim, k)))
  /\ ops' = [ops EXCEPT ![k].lease = "expired"]
  /\ UNCHANGED <<local, paddle, request, worker, operator, calls, shown>>

BecomesDue(k) ==
  /\ ops[k] # Null
  /\ ops[k].status = "unknown" /\ ops[k].avail = "later"
  /\ ops' = [ops EXCEPT ![k].avail = "due"]
  /\ UNCHANGED <<local, paddle, request, worker, operator, faults, calls, shown, overtaken>>

-----------------------------------------------------------------------------
(* RecoverSubscriptionOperation.                                           *)

\* Variant of the next definition: a claim that lapsed is not taken over.
OnlyUnknownIsReady(k) == ops[k] # Null /\ ops[k].status = "unknown" /\ ops[k].avail = "due"

ReadyForRecovery(k) ==
  /\ ops[k] # Null /\ ops[k].attempts < MaxAttempts
  /\ \/ ops[k].status = "unknown" /\ ops[k].avail = "due"
     \/ ops[k].status = "processing" /\ ops[k].lease = "expired"

ClaimForRecovery(w) ==
  /\ worker[w].pc = "idle"
  /\ \E k \in Key :
       /\ ReadyForRecovery(k)
       /\ ops' = [ops EXCEPT ![k].status = "processing", ![k].claim = w, ![k].lease = "live"]
       /\ worker' = [worker EXCEPT ![w] = [pc |-> "reading", key |-> k, snapshot |-> Null]]
  /\ UNCHANGED <<local, paddle, request, operator, faults, calls, shown, overtaken>>

\* A read that fails gives no snapshot.
ReadRemoteSnapshot(w) ==
  /\ worker[w].pc = "reading"
  /\ \E snapshot \in {paddle, Null} :
       worker' = [worker EXCEPT ![w].pc = "settling", ![w].snapshot = snapshot]
  /\ UNCHANGED <<ops, local, paddle, request, operator, faults, calls, shown, overtaken>>

HasLiveClaim(k, w) == OwnsClaim(k, w) /\ ops[k].lease = "live"

\* localSubscriptionChanges.
Reconciled(change, sub) ==
  IF change.type = "swap" THEN [plan |-> change.plan, status |-> "active"]
                          ELSE [sub EXCEPT !.status = "deleted"]

\* Variant of the next definition: the local subscription is left to a webhook.
CompleteOnly(k) ==
  /\ ops' = [ops EXCEPT ![k].status = "completed", ![k].attempts = @ + 1]
  /\ UNCHANGED local

Complete(k) ==
  /\ ops' = [ops EXCEPT ![k].status = "completed", ![k].attempts = @ + 1]
  /\ local' = Reconciled(ops[k].change, local)

\* Variant of the next definition: one read too many.
RescheduleOnceMore(k) ==
  /\ ops' = IF ops[k].attempts + 1 > MaxAttempts
            THEN [ops EXCEPT ![k].status = "manual_review", ![k].attempts = @ + 1]
            ELSE [ops EXCEPT ![k].status = "unknown", ![k].attempts = @ + 1,
                             ![k].avail = "later"]
  /\ UNCHANGED local

RescheduleAfterFailedRead(k) ==
  /\ ops' = IF ops[k].attempts + 1 >= MaxAttempts
            THEN [ops EXCEPT ![k].status = "manual_review", ![k].attempts = @ + 1]
            ELSE [ops EXCEPT ![k].status = "unknown", ![k].attempts = @ + 1,
                             ![k].avail = "later"]
  /\ UNCHANGED local

SettleRecovery(w) ==
  /\ worker[w].pc = "settling"
  /\ LET k == worker[w].key IN
       IF ~HasLiveClaim(k, w) THEN UNCHANGED <<ops, local>>
       ELSE IF Proves(ops[k].change, worker[w].snapshot) THEN Complete(k)
       ELSE RescheduleAfterFailedRead(k)
  /\ worker' = [worker EXCEPT ![w] = NoWork]
  /\ UNCHANGED <<paddle, request, operator, faults, calls, shown, overtaken>>

WorkerDies(w) ==
  /\ worker[w].pc # "idle"
  /\ Fault
  /\ worker' = [worker EXCEPT ![w] = NoWork]
  /\ UNCHANGED <<ops, local, paddle, request, operator, calls, shown, overtaken>>

-----------------------------------------------------------------------------
(* ResolveSubscriptionOperation.                                           *)

MarkCompletedReads(k) ==
  /\ operator.pc = "idle"
  /\ ops[k] # Null
  /\ ops[k].status = "manual_review" /\ Proves(ops[k].change, paddle)
  /\ operator' = [pc |-> "settling", key |-> k, snapshot |-> paddle]
  /\ UNCHANGED <<ops, local, paddle, request, worker, faults, calls, shown, overtaken>>

MarkCompleted ==
  /\ operator.pc = "settling"
  /\ LET k == operator.key IN
       IF ops[k].status = "manual_review"
       THEN /\ ops' = [ops EXCEPT ![k].status = "completed"]
            /\ local' = Reconciled(ops[k].change, local)
       ELSE UNCHANGED <<ops, local>>
  /\ operator' = NoWork
  /\ UNCHANGED <<paddle, request, worker, faults, calls, shown, overtaken>>

\* Another operator gives the operation up, with a reference to a ticket.
MarkFailed(k) ==
  /\ ops[k] # Null
  /\ ops[k].status = "manual_review"
  /\ ops' = [ops EXCEPT ![k].status = "failed"]
  /\ UNCHANGED <<local, paddle, request, worker, operator, faults, calls, shown, overtaken>>

-----------------------------------------------------------------------------
RequestStep(r) == CallAccepted(r) \/ CallRefused(r) \/ CashierSaves(r) \/ Record(r)

WorkerStep(w) == ClaimForRecovery(w) \/ ReadRemoteSnapshot(w) \/ SettleRecovery(w)

Time(k) == LeaseExpires(k) \/ BecomesDue(k)

Next ==
  \/ \E r \in Request : Begin(r) \/ RequestStep(r) \/ RequestDies(r)
  \/ \E k \in Key : Time(k) \/ MarkCompletedReads(k) \/ MarkFailed(k)
  \/ \E w \in Worker : WorkerStep(w) \/ WorkerDies(w)
  \/ MarkCompleted

\* A call to Paddle ends, time passes, and the command is scheduled every
\* minute.  Nobody promises that an operator comes.
Fairness ==
  /\ \A r \in Request : WF_vars(RequestStep(r))
  /\ \A k \in Key : WF_vars(Time(k))
  /\ \A w \in Worker : WF_vars(WorkerStep(w))

Spec == Init /\ [][Next]_vars /\ Fairness

-----------------------------------------------------------------------------
(* Properties.                                                             *)

\* Two requests of a user never change the subscription at once, and an
\* operation calls Paddle at most once, whoever retries or recovers it.
OneChangeAtATime ==
  /\ \A j, k \in Key : IsActive(ops[j]) /\ IsActive(ops[k]) => j = k
  /\ \A k \in Key : calls[k] <= 1

\* An operation is completed only if Paddle has shown its result.
CompletedHappened ==
  \A k \in Key : ops[k] # Null /\ ops[k].status = "completed" => k \in shown

\* When every operation is completed and no request runs, the local subscription
\* is Paddle's, although answers were lost and processes died and no webhook has
\* come; not so if a request outlived its claim, whose late save may follow a
\* newer change, or if an operation was given up.
InStep ==
  /\ \A r \in Request : request[r] = NoRequest
  /\ \A k \in Key : ops[k] # Null => ops[k].status = "completed"
  /\ ~overtaken
  => local = paddle

\* An operation whose claim is live changes only by the hand of its owner.
LiveClaimIsOwners ==
  [][\A k \in Key :
       /\ ops[k] # Null /\ ops'[k] # ops[k]
       /\ ops[k].status = "processing" /\ ops[k].lease = "live"
       => \/ ops'[k] = [ops[k] EXCEPT !.lease = "expired"]
          \/ \E r \in Request : ops[k].claim = r /\ request'[r] # request[r]
          \/ \E w \in Worker : ops[k].claim = w /\ worker'[w] # worker[w]]_vars

\* Every operation ends, or waits for an operator.
OperationEnds ==
  \A k \in Key :
    ops[k] # Null
      ~> ops[k] # Null /\ ops[k].status \in {"completed", "failed", "manual_review"}
=============================================================================
