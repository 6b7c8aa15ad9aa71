# A verification of Daywright

Daywright is a Laravel application (projects, tasks, messages, Zoom meetings,
Paddle subscriptions) with a Vue client. Most of its requests are one database
transaction over one row. What is hard is where state is shared with someone the
application cannot lock: a provider (Zoom, Paddle), or a browser that shows an
old row and repeats its calls. There it writes down an intent or compares a
version, calls outside any transaction, and records what came of it; queues,
scheduled commands, webhooks, operators and the user finish what a crash or a
lost answer left open. These protocols are what is modelled here.

## Inventory

| Component | State | Operations | What is hard, what must hold |
|---|---|---|---|
| Webhook inbox (`ZoomWebhookInboxService`, `WebhookInbox`, `ProcessZoomWebhookInbox`) | a row per event: state, attempts, claim token, claim expiry, retry time; a queue of row ids | accept, claim, complete, record a failure, redispatch, fail exhausted claims | duplicate deliveries and jobs, crashed and late workers, a lost queue; one handler at a time, nothing accepted is lost |
| Meeting update and deletion (`UpdateProjectMeeting`, `DeleteProjectMeeting`, `RecoverPendingZoomMeetingOperations`, `RecoverZoomMeetingOperationJob`, `PerformZoomMeetingRecovery`, `MeetingOperationLock`) | the `sync_*` columns of `meetings`, a cache lock per meeting, queued jobs, Zoom's meeting | save an intent, call Zoom, record an outcome; claim, read Zoom, repeat, verify, finish, review | ambiguous answers, lapsed claims, orphaned locks; one writer at Zoom, no confirmed change Zoom does not have, nothing pending for ever |
| Meeting creation (`CreateProjectMeeting`, `HandleMeetingCreatedWebhook`, `RecoverAmbiguousZoomMeeting`, `FinalizeZoomMeetingRecovery`, `ResolveAmbiguousZoomMeetingManually`) | the same columns, the tracking field of Zoom's meetings | create, attach, search, finalize, resolve by hand | webhook, recovery, answer and operator in any order; one Zoom id for good, no established meeting failed |
| Zoom runtime webhooks (`ZoomMeetingUpdatedWebhookProcessor`, `ZoomWebhookSupport`, the handlers of updated, deleted, started, ended) | watermark, reconciliation cutoff, operation id, the fields | apply an event, reconcile with Zoom, finish a pending update, delete, start, end | events out of order and tied within a second, a read before the lock; the row ends up as Zoom has it |
| Zoom client (`ZoomService`, connectors, OAuth) | tokens, rate limits | create, update, delete, get, list | an answer in error proves nothing |
| Idempotent requests (`IdempotencyRequestService.js`, `MeetingModal.vue`, the patched middleware) | the helper's key and request; a lock and a stored answer per key | send, repeat, give up; check, lock, check again, run, store | lost answers, double clicks, dead processes, a lock that times out; one effect per submission, a repeat is answered |
| Subscription operations (`SubscriptionService`, `RecoverSubscriptionOperation`, `ResolveSubscriptionOperation`) | `subscription_operations`, the local subscription, Paddle's | swap, cancel, recover, resolve by hand | a claim that its request outlives, lost answers; one change at a time, nothing completed that did not happen |
| Tasks (`TaskService`, `store/SingleTask`, `Task.vue`, the task modal) | the row and its version; the store, the open forms | open, edit, save, take an answer | answers that come late and to another form; no edit lost unseen |
| Plan limits (`PlanLimitService`, `PlanLimitType`) | counts under a row lock | guarded create | what is counted while an operation is uncertain |
| Projects, members, invitations (`ProjectService`, `Actions/Project`) | project row, pivot table | update, invite, accept, cancel, reject, remove | single transactions |
| Project messages (`DispatchProjectMessageAction`, `ScheduledMessages`) | `batch_id`, `delivered` | claim, dispatch a batch, its callbacks | a crash between claim and dispatch, a batch with failures |
| Meeting notifications, abandoned projects, authentication, admin, health metrics, insights, files, conversations, the rest of the client | little shared state | see `PROJECT.json` | sequential, framework code, queries or I/O |

The components meet in the row of a meeting (requests, both recovery commands,
every Zoom webhook and operators write it), in the queue, and in the cache lock.
The webhook inbox runs the handlers of the runtime webhooks and of
`meeting.created`. The client's idempotent requests stand before the creation of
meetings, the subscription operations and a few more mutations.

`PROJECT.json` lists every component with its status, and under `hazards` the
places where this code can go wrong in ways a test would hardly reach; the
properties below exist for those.

## Plan

Done, in this order:

1. `WebhookInbox` with its abstract specification `DurableInbox`, runs and proofs.
2. `MeetingRow`, `MeetingOperation` with its abstract specification `MeetingContract`.
3. `MeetingCreation`.
4. `ZoomEvents`: the runtime webhooks, the host, a user's update.
5. `IdempotentRequest` and, over it, the form `MeetingModal`; proofs.
6. `SubscriptionOperation`; proofs.
7. `TaskEditing`; proofs.
8. Proofs of every safety property and action property the passing runs check, and
   of both refinements: `MeetingOperationProofs`, `MeetingCreationProofs`,
   `ZoomEventsProofs`, `InStep`, and the refinement of `DurableInbox`.

To come:

9. More proofs: what `MeetingModal` and `TaskEditing` keep when the user waits for
   the answers, next to the violations their runs show when he does not; steps of the
   liveness arguments that are safety (what is due stays due until it is taken).
10. If the scope grows: what the limit on meetings counts (see below), and project
   messages once they track every recipient.

## Modules

| Module | What it is |
|---|---|
| `DurableInbox` | what the inbox promises a provider: bounded attempts, effects only while an event is open, done only after an effect, dead only when the attempts are spent |
| `WebhookInbox` | the inbox; one action per handler, statement or callback |
| `MCInboxRunbook` | the inbox and the operator of `docs/WEBHOOK_INBOX.md` |
| `WebhookInboxProofs` | theorems about `WebhookInbox` |
| `MeetingRow` | constants, query scopes, recovery policy and row updates shared by the two modules that follow |
| `MeetingContract` | what changing a meeting promises, without locks, claims, retries or crashes |
| `MeetingOperation` | update and deletion: requests, scheduled recovery, jobs, the cache lock, Zoom |
| `MCMeetingOperation` | payloads and symmetry for TLC |
| `MeetingOperationProofs` | theorems about `MeetingOperation` |
| `MeetingCreation` | creation: request, webhook, scheduled recovery, operator, Zoom |
| `MeetingCreationProofs` | theorems about `MeetingCreation` |
| `MCLateCreation` | creation, and the update a user begins before Zoom's answer to it arrives |
| `ZoomEvents` | the four runtime webhooks over one established meeting, next to its host and a user's update |
| `MCZoomEvents` | updates and symmetry for TLC |
| `ZoomEventsProofs` | theorems about `ZoomEvents` |
| `IdempotentRequest` | the client's helper and the middleware, for one form of one user |
| `MeetingModal` | the form that creates meetings, over `IdempotentRequest` |
| `IdempotentRequestProofs` | theorems about `IdempotentRequest` |
| `SubscriptionOperation` | plan changes and cancellations of one user, their recovery and the operator |
| `SubscriptionOperationProofs` | theorems about `SubscriptionOperation` |
| `TaskEditing` | one browser over the tasks of a project, the server, and what others edit |
| `MCTaskEditing` | its symmetry for TLC |
| `TaskEditingProofs` | theorems about `TaskEditing` |

### How state and actions correspond to the code

*WebhookInbox.* `inbox[e]` is the row of event `e`; `lease` and `delay` are what
is left of `claim_expires_at` and `available_at`, so 0 is "in the past" or
`NULL`. `queue[e]` counts the jobs that name the row. `worker[w]` is a call of
`process` under way: handling (inside the handler), handled or thrown (about to
record the outcome); it keeps token and attempts as the PHP variables do.
`Accept` is `accept`, `ClaimForProcessing` the single UPDATE of
`claimForProcessing`, `CompleteActiveClaim` and `RecordProcessingFailure` the
methods of that name, `DispatchRecoverable` the scheduled command's work.
Closing the exhausted claims and selecting the batch are one step: a row closed
is never selected, and a job dispatched for a row that changed meanwhile only
finds it not claimable. `effects` is a history variable: commits of the
handler's business effect.

*MeetingOperation.* `row` holds the `sync_*` columns and the fields of the
meeting; a timestamp is `NULL`, ahead or past. Every action is one transaction
or one call to Zoom. A request goes from intent (`SaveUpdateIntent`,
`SaveDeleteIntent`) over `RequestCallsZoom` to `FinishRequest`, which is
`executeWithOperationIdCheck` around the method for the answer it got. A
recovery is `ClaimNextDueOperation`, then a job: `StartRecovery` (checks of
`execute`), `ReadZoom`, `ConsumeMismatchCycle`, `TakeLock`
(`withValidatedOperationLock`), `WorkerCallsZoom`, `Settle` (all the methods
that record an outcome, each of which checks claim and operation again under
the row lock). `Orphan` is the holder of a lock whose process died; the lock
goes at its TTL. `reached` is a history variable: the recorded operation has
changed Zoom.

*MeetingCreation.* `zoom` is the set of Zoom's meetings that carry the
operation id in their tracking field: a host who duplicates a meeting makes a
second one. `recoverer[r]` is one run of `meetings:recover-ambiguous`; `seen`
is the `meeting_id` it loaded with its list, which may be stale when it claims
the row and when it searches. `OperatorVerifies` and `OperatorActivates` are
the two halves of `withZoomMeetingId`, as the row may change between them.

*ZoomEvents.* `clock` counts the seconds of Zoom's timestamps, so events of one
second tie; a `cutoff` adds the millisecond (`ms`) that keeps two of them apart.
`handler[h]` is what a worker has read before its transaction: `BuildContext`
loads the row and decides whether Zoom is asked, `GetMeeting` asks, and
`ProcessUpdate` is the transaction of the processor with every early return. The
branches of `processPendingUpdate` that would need no check of Zoom are
unreachable, as a matching update is always checked. `CheckStatus` and
`Transition` are the two statements of the handlers of started and ended.
`events` are the accepted ones: any may be taken next, and one that threw or
whose worker died is taken again. `dropped` and `reached` are history variables.

*IdempotentRequest.* `helper` is `activeKey` with `activeRequest`. A call is
*arrived* at the server, has *missed* the stored answer, has the key *locked*,
is *running* the handler, has *committed* its effect, has *ended* with an answer
on the way. `Send` is the helper's `send`, which asks `getKey`; `Settle` is what
it does when the promise settles; `CheckStored`, `AcquireLock`, `Recheck` and
`StoreResponse` are the steps of `Idempotent::handle`. `excused[r]` is a history
variable: something happened to `r` that no key can make up for. The middleware
handles `POST`, `PUT` and `PATCH`; requests it leaves alone are not modelled.

*MeetingModal.* `join` is `form.join_before_host` as the form holds it; `CreateMeeting`
is `createMeeting`, which writes a Boolean back before it sends.

*SubscriptionOperation.* `ops[k]` is the row with idempotency key `k`. `Begin` is
the transaction that records it; `CallAccepted`/`CallRefused` the call,
`CashierSaves` Cashier's save of its model, `Record` the statement under the
claim. A worker claims, reads Paddle, and settles in one transaction; the
operator reads Paddle and completes in another. The token of a claim is the name
of the process that made it, because a process holds one claim at a time.
`IsActive` is the scope that blocks another operation. The filter on attempts,
which the code repeats in the claim and in the query, is one guard here.

*TaskEditing.* `store` is the Vuex module of the task modal, `form` the open
inputs, `calls` both the calls and the answers under way, in any order.
`UpdateTask` is `TaskService::updateTask` under its row lock; `EditElsewhere` is
the accepted edit of any other browser, which is all this browser can notice of
it. `Save` takes the version from the store at the moment of saving, as the code
does; `SetTask` and `Taken` are the mutations, which do not look at what the
modal shows by then. `seen`, `foreign` and `hasty` are history: what the user
saw when the edit began, which fields others edited last, and whether the user
has closed the modal or started a call while another was under way.

## Runs

| Run | Expect | What it shows |
|---|---|---|
| `WebhookInbox` | pass | typing; `NoSimultaneousProcessing`; `WaitingRowsHaveAttempts`; `LiveClaimIsOwners`; refinement of `DurableInbox`; `AcceptedIsSettled` |
| `InboxRunbook` | violation | the manual retry of the runbook is never processed |
| `MeetingOperation_safety` | pass | typing; `ClaimHasLease`; `NeverStranded`; `OneCurrentWriter`; refinement of `MeetingContract` |
| `MeetingOperation_liveness` | pass | `PendingIsSettled` |
| `MeetingCreation` | pass | typing; `NeverInLimbo`; `EstablishedNeverFails`; `AttachedForGood`; `OperatorIsLeftAlone`; `CreationIsSettled` |
| `MeetingCreation_late` | violation | a late answer to the creation ends a newer update |
| `ZoomEvents` | pass | typing; `InSync`: once everything is handled, the row is as Zoom has it except for fields of ignored events; `DeletedIsTrue`; `CompletedUpdateWasApplied`; `NeverBackwards` |
| `IdempotentRequest` | pass | typing; `TakesEffectOnce`; `OneRunPerKey`; `NeverMismatched`; `SubmitIsAnswered` |
| `MeetingModal_retry` | violation | a repeated submission says something else, gets a new key and creates a second meeting |
| `SubscriptionOperation` | pass | typing; `OneChangeAtATime`; `CompletedHappened`; `InStep`: the local subscription is Paddle's once everything is completed; `LiveClaimIsOwners`; `OperationEnds` |
| `TaskEditing` | pass | typing; `ShownIsCurrent`; `PatientEditsAreSafe` |
| `TaskEditing_switch` | violation | a second click on a card puts a new version under an open form |

Each property of a passing run has a mutant in `PROJECT.json`: a mapped
definition changed as a plausible bug would change it, under which the run
fails. The variants stand in the modules, before the definitions they replace.

### Bounds, and why they are enough

- *WebhookInbox.* Two events and two workers: every property is about one event
  and at most two workers; the second event makes the batch (`Limit = 1`)
  choose. Three attempts give a first, a middle and a last one. `LeaseTime = 2`
  and `JobTimeout = 1` keep the order of the real 5 minutes and 60 seconds.
  Three tokens are enough for every claim to find a fresh one.
- *MeetingOperation.* Two requests, two jobs under way, two queued; three
  attempts; the payloads are nothing, one field, and the password with a field
  (password changes take a path of their own). `MaxFaults = 2` bounds crashes,
  lost jobs and claims that lapse under their job together: one to open a
  window, one more inside it. Operation ids and tokens are used again once
  nothing names them, so three of each do not bound the length of a behaviour.
  The liveness run has one request, one job and one fault, and no symmetry.
- *MeetingCreation.* Two Zoom meetings, two overlapping runs of the recovery,
  two tokens, three attempts and one fault.
- *ZoomEvents.* Two handlers, so that each may change the row between the read
  and the transaction of the other; two seconds (`MaxTime = 1`), so that events
  tie and follow; two events, one update of the user with or without a password,
  one event handed over again. About two million distinct states.
- *IdempotentRequest.* Two contents of the form, two calls, three keys, which are
  drawn again once nothing names them; `LockTimeout = 2` against
  `RequestTime = 1` keeps the order of the real 90 seconds and the time limits of
  the handlers; one fault. About 124,000 states.
- *SubscriptionOperation.* Two keys, plans, requests and workers, two attempts
  (first and last), one fault: a claim that lapses under its request, or a death,
  with the other processes working meanwhile. About 192,000 states.
- *TaskEditing.* Two tasks, so that an answer may be about another one; one text
  field and the status; two values; three versions: what is shown, an edit, and
  one more; two calls under way, which is what a late answer needs. About
  974,000 states.
- `CHECK_DEADLOCK FALSE` stands where a system may stop: a deleted meeting, a
  creation that is settled, a completed or failed operation with the keys used
  up, all events handled with the bounds on Zoom reached, a served user, all
  versions used.

### Assumptions

- A database transaction with its row lock is atomic; transactions are retried
  by the framework until they commit or the process dies.
- A call that was lost or interrupted has taken effect, or never will, by the
  time the next step about the same row is taken: the provider's answer is
  awaited for 30 seconds, a retry comes after a minute, a lease lasts five.
  `SubscriptionOperation` lets a request outlive its claim with the call still to
  come, but not die with it still to come.
- A user request to Zoom ends before its lease (5 minutes) and its lock (120
  seconds) do: the connector gives up after 30 seconds. A recovery job is killed
  after 90 seconds, below the lock's 120. Its claim may lapse while it waits in
  the queue, for the lock or for Zoom: that is modelled.
- In `WebhookInbox` a job is killed at its timeout (60 seconds, `failOnTimeout`),
  which needs the PCNTL extension `DEPLOYMENT.md` asks for.
- In `IdempotentRequest` a handler takes less time than the lock of its key
  lives; the patch raised that lock to 90 seconds for this reason. What a key
  has stored is compared as such; hashing is not modelled.
- In `ZoomEvents` the clocks of Zoom and of the application agree, and recovery
  of pending updates, which is `MeetingOperation`'s, does not run: an update
  without an answer waits for a webhook. Hosts do not edit in `MeetingOperation`.
  The two modules share the row but are not composed: their product is beyond TLC,
  and each models all the writers its properties depend on.
- In `SubscriptionOperation` the customer changes nothing at Paddle itself, and
  Cashier's webhooks do not arrive: they are documented as unordered
  (`phase-4-production-readiness.md`), so nothing could be said of the local
  subscription with them. `InStep` excludes histories in which a request outlived
  its claim (`overtaken`), as its late save may follow a newer change.
- One meeting, one form, one user's operations are modelled. Rows, locks and
  jobs are never shared between them; the recovery commands do go over many,
  which is why `ClaimHasLease` is a property: a row that is selected and refused
  ends the run for all behind it.

### Fairness

- The scheduled commands run every minute on one server (`Console/Kernel.php`),
  so their steps are weakly fair. The selection of a creation is strongly fair: a
  command that runs every minute sees the row in one of the minutes in which it is due.
- Queue workers serve the queue in order: the claim of an event by some worker
  is strongly fair in `WebhookInbox`, as jobs that find the row taken come in
  between; a job of `MeetingOperation` is taken by some idle worker (weak).
- Calls and the steps that follow them end by their timeouts (weak); time
  passes (weak). In `IdempotentRequest` it is strongly fair, because other steps
  may always come between two ticks, and the user who has got no answer submits
  again (weak): without that user nothing is promised.
- Nothing is assumed of other users, hosts, operators, webhooks, or of the
  success of any call. `OperationEnds` therefore ends with the operator's queue.

## Proofs

Every invariant, action property and refinement a passing run checks on a small
instance is a theorem for every value of the constants. The argument of each module
is an inductive invariant, kept by a lemma per action; TLC checked it before it
was proved.

`WebhookInboxProofs` proves for any finite set of events, any workers, tokens and any
limits that satisfy `InboxAssumption`:

- `TypeCorrect`: `Spec => []TypeOK`
- `MutualExclusion`: `Spec => []NoSimultaneousProcessing`
- `NoStrandedEvent`: `Spec => []WaitingRowsHaveAttempts`
- `OwnerKeepsLiveClaim`: `Spec => LiveClaimIsOwners`
- `PromisesKept`: `Spec => ImplementsDurableInbox`

`NoSimultaneousProcessing` alone is not inductive: nothing in it says why the
row of a running worker cannot be claimed. The invariant `Inv` adds
`RunningHolds`: a running worker's row is in processing under its token with
its attempts, and *what remains of the claim plus the age of the job is
`LeaseTime`*. As a job never gets older than `JobTimeout < LeaseTime`, the
claim of a running worker is live (`RunningIsProtected`); so no claim, sweep or
other worker touches the row. There is a lemma per action, `Invariance` puts
them together, and the action property follows from the same invariant. The one
assumption that carries weight is `JobTimeout < LeaseTime`.

`PromisesKept` needs besides how often an event has acted: at most as often as the
attempts of its row say, and less often by one while its worker is still in the
handler. So the step in which the handler commits stays within the bound
`DurableInbox` promises, and every other step is one of its steps or a stutter.

`MeetingOperationProofs` proves for any requests, workers, queued jobs, fields, attempts
and faults that satisfy `RowAssumption` and `OperationAssumption`:

- `TypeCorrect`: `Spec => []TypeOK`
- `ClaimsAreLeased`: `Spec => []ClaimHasLease`
- `PendingIsRecoverable`: `Spec => []NeverStranded`
- `WritersExclude`: `Spec => []OneCurrentWriter`
- `ContractKept`: `Spec => ImplementsMeetingContract`

The invariant is about who may touch what. `RowShape`: a pending row has its
operation, attempts left and a lease or a retry time; any other is claimed by nobody.
`Requests`: a request under way is `Undisturbed`: it has the lock, the recorded
operation is its own, and the row carries no claim but a live lease, so that no
recovery can take it. `Workers`: a worker that calls Zoom or closes the operation has
the lock and works for the recorded operation, and what it means to store is what Zoom
shows. A worker whose claim has lapsed may find another claim on the row, but the new
owner cannot get the lock, and without it can only wait or hand the row over, which
leaves the operation recorded. So the recorded operation changes by the hand of the
holder of the lock alone: hence `OneCurrentWriter`, and hence that each step of the
code is a step of `MeetingContract` or none. The two assumptions that carry
weight are modelled, not stated: a request ends before its lease and its lock, and
the lock outlives a job that is killed (see Assumptions).

`MeetingCreationProofs` proves for any recovery runs, Zoom meetings, tokens, attempts and
faults that satisfy `RowAssumption` and `CreationAssumption`:

- `TypeCorrect`: `Spec => []TypeOK`
- `AlwaysSomebodys`: `Spec => []NeverInLimbo`
- `LateErrorsAreHarmless`: `Spec => []EstablishedNeverFails`
- `AttachmentIsFinal`: `Spec => AttachedForGood`
- `LateRunsAreHarmless`: `Spec => OperatorIsLeftAlone`

`Stages` says that while the request runs only the webhook can have moved its row, and
that an attached row is past its creation. `Counted` bounds the attempts: two steps
reopen a row whose attempts are spent, the webhook that attaches a meeting and the
late answer of the request, each once; so the counter exceeds `MAX_ATTEMPTS` by two at
most, and by none before both have happened.

`ZoomEventsProofs` proves for any handlers, fields, values, updates, events and times
that satisfy `EventsAssumption`:

- `TypeCorrect`: `Spec => []TypeOK`
- `DeletionIsTrue`: `Spec => []DeletedIsTrue`
- `CompletedWasApplied`: `Spec => CompletedUpdateWasApplied`
- `NothingGoesBack`: `Spec => NeverBackwards`
- `EndsInSync`: `Spec => []InSync`

`InSync` speaks of the moment when all is quiet; its invariant has to say why what is
under way will bring the row there. For every field no event was ignored for,
`InField` says: either an event that is not yet settled *decides* the field (it
carries Zoom's value and none known has a later time), or the row shows Zoom's value
and every known event that would change it back is *checked* (not later than the
watermark or the cutoff, so that whoever takes it is stale or asks Zoom). For a
handler that has asked Zoom and whose reading of the row still *fits*, what it has
seen is Zoom's value, or an event other than its own decides; the same for an answer of
success that is not yet recorded. The operation id is not part of `Fits`: an operation
may come and go between the read and the lock, and this does no harm. The watermark
and the cutoff do the work: the watermark never moves back (`Reading`) and a new
cutoff equals no earlier one (`FreshCutoff`), so a row that was written looks different
to everybody who read it before. `Noticed` says the same of a meeting that is gone: its
deletion event is still under way and not older than anything known. `Confirms`
says of a recorded update that no event later than its start matches it, and no answer
of success is there, before Zoom got its values: events of an earlier attempt are
known by their time.

`EventsAssumption` asks for stamps (operation ids, milliseconds of the cutoff) enough
that one is found which neither the row nor a handler holds. Operation ids are UUIDs.
That no two cutoffs of a meeting are equal is an abstraction of its clock: a handler
that saves a second time in a millisecond would have to have read the first cutoff and
called Zoom since; the request that saves in that millisecond changes the operation id
as well, which the handlers compare.

`IdempotentRequestProofs` proves for any contents of the form, keys and calls and any
times that satisfy `RequestAssumption`:

- `TypeCorrect`: `Spec => []TypeOK`
- `NoKeyRunsTwice`: `Spec => []OneRunPerKey`
- `NobodyIsMismatched`: `Spec => []NeverMismatched`
- `EffectOnce`: `ASSUME Patient PROVE Spec => []TakesEffectOnce`

The argument has three layers, each an invariant over the one before. `Locks`: a
call between lock and answer holds the lock of its key, and the age of the call
and what is left of the lock add up to `LockTimeout` at least, so the lock
outlives it (here `RequestTime < LockTimeout` is needed). `NobodyIsMismatched`
needs that a key belongs to one request wherever it occurs: in the helper, in a
call, in the store. `EffectOnce` needs that, while a user tries a request, the
helper and all its calls have one key between them, and that once the request has
taken effect an answer is stored under that key or the call that had the effect
still holds its lock. `Patient` is needed: a user who closes the form before the
answer comes and fills it in again has told the client to forget the key.

`SubscriptionOperationProofs` proves for any keys, plans, requests, recovery runs and
limits that satisfy `SubscriptionAssumption`:

- `TypeCorrect`: `Spec => []TypeOK`
- `ChangesTakeTurns`: `Spec => []OneChangeAtATime`
- `CompletedMeansShown`: `Spec => []CompletedHappened`
- `OwnerKeepsClaim`: `Spec => LiveClaimIsOwners`
- `CompletedMeansInStep`: `Spec => []InStep`

`Kept` says what every step but `Begin` leaves of a recorded operation: its change,
and that it does not become active again; `OpsStep` shows it once for all steps.
`Alone` adds to `OneChangeAtATime` that requests work for different keys and that
a request which has not called finds its key uncalled: without that a second call
could not be excluded when a claim has lapsed. `Truthful` adds to
`CompletedHappened` that everybody who may complete an operation has seen its
result: a request has an answer of success, a run or an operator has read a proof,
and what Paddle shows is in `shown` while the operation is recorded. No relation
between times is needed: tokens alone protect a live claim.
`CompletedMeansInStep` rests on `Clean => Synced`: as long as no request has outlived
its claim, one request at most is at work, it has the live claim of the one operation
that is not settled, and that operation explains how the local subscription and
Paddle's differ (`Explained`); requests, runs and the operator know as much of Paddle
as their point in the code says. Settling the operation removes the one explanation, so
nothing may differ then.

`TaskEditingProofs` proves for any tasks, fields, values and number of calls:

- `TypeCorrect`: `Spec => []TypeOK`
- `VersionStandsForShown`: `Spec => []ShownIsCurrent`
- `PatientUsersOverwriteNothing`: `Spec => PatientEditsAreSafe`

The invariant `Calm` holds as long as the user does one thing after the other.
At most one call is under way (`Awaited` says what each kind may carry): the
answer to a *get* finds the modal closed and carries no newer row than there is;
a save carries the version and the field of the store, which nothing changes
before its answer; a saved answer, put into the store, gives a task that is the
row or is older. If the server accepts a save, its version is the row's, so by
`Current` the store shows the row, and what the user saw is what is replaced.

Only model-checked are the liveness properties `AcceptedIsSettled`, `PendingIsSettled`,
`CreationIsSettled`, `SubmitIsAnswered` and `OperationEnds`: fairness and `ENABLED` are
out of the prover's reach. The runs that expect a violation have nothing to prove.

## Where code and documents differ

Shown by a run:

- **Manual retry of a failed webhook.** `docs/WEBHOOK_INBOX.md:196` has the
  operator set the row to `received`; its attempts are spent and
  `scopeClaimableAt` never lets it be claimed again.
- **Late answer to a creation.** `markMeetingAsSynced` does not look at the
  operation id. If webhook and recovery make the meeting active while the
  request waits, and the user starts an update, the late answer sets the row
  back to active and clears the lease of the update
  (`zoom_outbox_plan.md:76`).
- **Repeated submission of the meeting form.** `booleanJoinBeforeHost` compares
  the form with the text `"true"` and writes a Boolean back, so the second
  submission of the same form says `false`. It gets a new key, and the retry
  after a lost answer creates a second meeting. `UserTokens.vue:276` has the same
  shape: its `expires_at` is counted from the moment of the submission.
- **Silent overwrite of a task.** `FRONTEND_REMEDIATION_PLAN.md:52` promises a
  409. The version travels with the store, not with the form: a second click on a
  card (`Task.vue:144`), or the late answer to a save of another task, puts a new
  version under a form that was opened on an older text.

Seen while modelling:

- `zoom_outbox_plan.md:140` forbids to send an update Zoom has applied; the
  recovery reads Zoom before it takes the lock and does not read again, so it
  can. Sending the same fields twice is harmless at Zoom unless the host
  changed them in between.
- `zoom_outbox_plan.md:103-106` schedules a retry of a refused deletion; the code
  clears the retry time (`DeleteProjectMeeting.php:186`), so the recovery of `delete_failed` is never reached this way.
- A rate-limited update or deletion (`rollbackToActive`) from
  `update_failed` or `delete_failed` returns the row to active although the
  earlier change may be at Zoom.
- A recovery job that dies every time never counts an attempt and is started
  again for ever. A Zoom meeting whose creation was answered by an error that is
  not a 5xx stays without a row.
- A webhook that is ignored as stale, or because it does not match the pending
  update, loses its fields for good if nothing newer names them (`dropped`): a
  host's edit during a pending local update is one of them. A started event is
  dropped if the meeting is not active at that moment.
- The helper of idempotent requests drops its key on every answer but a lost one
  and a 409; a call turned away before the middleware (throttled, signed out,
  maintenance) is among them. The late answer to a form that was closed resets the
  helper of the form that is open by then (`IdempotencyRequestService.js:80`).
- The late answer to a click on the status that was set already may put an older
  status with its older version back into the store; the next save gets a 409.
- The limit on created meetings counts active ones only (`PlanLimitType.php`): a
  meeting under update, or whose creation is uncertain, is not counted, and once
  it is active again the user has more than the plan allows.
- A message's batch clears `batch_id` and leaves `delivered` alone if a recipient
  fails, so the scheduler sends it to all again; the comment in
  `DispatchProjectMessageAction.php:79-80` says it counts as delivered. A process
  that dies between claim and dispatch leaves the claim in `batch_id` for ever.
- The chat's loaded list replaces messages that were broadcast while it loaded.

## Not modelled

- *Project messages*: deferred by the project until every recipient is tracked
  (`code_rabbit_defect_status.md:85`); its gaps are above.
- *Plan limits*: one transaction under a lock, apart from what is said above.
- *Projects, members, invitations*: one transaction or statement each; the version
  protocol of the project page is that of `TaskEditing`.
- *Tasks* beyond editing: creation under the plan limit, members, archive,
  restore, deletion and due dates with their notifications are one transaction each.
- *Subscriptions* beyond swap and cancel: Cashier's webhooks, the pay link of a
  first subscription, changes at Paddle itself, operations without a Paddle id or
  a local subscription.
- *Zoom client*: OAuth tokens, their refresh and the store of the rate limiter.
- *Notifications, abandoned projects, authentication, metrics, insights, admin,
  audit, files, conversations, the rest of the client*: I/O, queries, arithmetic
  or framework calls on one row.
