---------------------------- MODULE WebhookInbox ----------------------------
(***************************************************************************)
(* The durable inbox of Zoom webhooks (ZoomWebhookInboxService, the model  *)
(* WebhookInbox and the job ProcessZoomWebhookInbox): a row per event, a   *)
(* queue of jobs that only name a row, workers that claim a row for a      *)
(* lease, run the event's handler and record the outcome, and the          *)
(* scheduled command that redispatches what was left behind.               *)
(*                                                                         *)
(* Time is discrete.  A row keeps what remains of its claim and of its     *)
(* retry delay; Tick lets one unit pass.  A job is killed at JobTimeout.   *)
(***************************************************************************)
EXTENDS Naturals, FiniteSets

CONSTANTS
  Event,        \* event keys Zoom may deliver
  Worker,       \* queue worker processes
  Token,        \* claim tokens (UUIDs; one is reused once nothing names it)
  Null,
  MaxAttempts,  \* ZoomWebhookInboxService::MAX_ATTEMPTS
  LeaseTime,    \* duration of a claim (5 minutes)
  JobTimeout,   \* ProcessZoomWebhookInbox::$timeout (60 seconds)
  Backoff,      \* delay before a failed event may be claimed again
  Limit,        \* rows one run of the recovery command selects
  MaxQueued,    \* bound on the jobs queued for one event
  MaxLosses     \* bound on the times the queue loses its jobs

ASSUME InboxAssumption ==
  /\ MaxAttempts \in Nat \ {0}
  /\ LeaseTime \in Nat /\ JobTimeout \in Nat
  /\ JobTimeout < LeaseTime
  /\ Backoff \in Nat /\ Limit \in Nat \ {0}
  /\ MaxQueued \in Nat \ {0} /\ MaxLosses \in Nat
  /\ IsFiniteSet(Event)
  /\ Null \notin Token /\ Null \notin Event

VARIABLES
  inbox,    \* the row of every event
  queue,    \* number of queued jobs per event
  worker,   \* what every worker is doing
  effects,  \* history: times the event's business effect was committed
  losses    \* times the queue was lost, up to MaxLosses

vars == <<inbox, queue, worker, effects, losses>>

State == {"absent", "received", "processing", "completed", "failed"}

\* created is the rank of the row's created_at; lease and delay are what is
\* left of claim_expires_at and available_at, 0 once they are in the past.
Row == [state: State, attempts: 0..MaxAttempts, token: Token \cup {Null},
        lease: 0..LeaseTime, delay: 0..Backoff, created: Nat]

Job == [pc: {"idle", "handling", "handled", "thrown"},
        event: Event \cup {Null}, token: Token \cup {Null},
        attempts: 0..MaxAttempts, age: 0..JobTimeout]

NoRow == [state |-> "absent", attempts |-> 0, token |-> Null,
          lease |-> 0, delay |-> 0, created |-> 0]

Idle == [pc |-> "idle", event |-> Null, token |-> Null, attempts |-> 0, age |-> 0]

TypeOK ==
  /\ inbox \in [Event -> Row]
  /\ queue \in [Event -> 0..MaxQueued]
  /\ worker \in [Worker -> Job]
  /\ effects \in [Event -> Nat]
  /\ losses \in 0..MaxLosses

-----------------------------------------------------------------------------
(* Scopes of the model WebhookInbox.                                       *)

\* Variants of the definitions below: a claim that expires a unit early, an
\* attempt beyond the limit.
ExpiringClaim(row) == row.state = "processing" /\ row.lease <= 1

ExpiredClaim(row) == row.state = "processing" /\ row.lease = 0

ClaimableForEver(row) ==
  (row.state = "received" /\ row.delay = 0) \/ ExpiredClaim(row)

Claimable(row) ==
  /\ row.attempts < MaxAttempts
  /\ \/ row.state = "received" /\ row.delay = 0
     \/ ExpiredClaim(row)

OwnsLiveClaim(row, token) ==
  /\ row.state = "processing"
  /\ row.token = token
  /\ row.lease > 0

Closed(row, outcome) == [row EXCEPT !.state = outcome, !.token = Null, !.lease = 0]

FreshToken(t) ==
  /\ \A e \in Event : inbox[e].token # t
  /\ \A w \in Worker : worker[w].token # t

Accepted == {e \in Event : inbox[e].state # "absent"}

\* Jobs beyond MaxQueued are not kept: they would only find the row claimed.
Enqueue(sent) ==
  [e \in Event |-> IF e \in sent /\ queue[e] < MaxQueued
                   THEN queue[e] + 1 ELSE queue[e]]

-----------------------------------------------------------------------------
(* accept: createOrFirst on the event key, then dispatch when the row is   *)
(* new or may be claimed.  The dispatch may fail: the row stays.  A        *)
(* delivery of a row that is neither changes nothing.                      *)
Accept(e) ==
  LET row == IF inbox[e].state = "absent"
             THEN [NoRow EXCEPT !.state = "received",
                                !.created = Cardinality(Accepted) + 1]
             ELSE inbox[e]
  IN /\ Claimable(row)
     /\ inbox' = [inbox EXCEPT ![e] = row]
     /\ \E sent \in SUBSET {e} : queue' = Enqueue(sent)
     /\ UNCHANGED <<worker, effects, losses>>

(* A worker takes a job and claims the row: one UPDATE counts the attempt  *)
(* and stores a new token and lease.  If the row cannot be claimed the job *)
(* ends there.                                                             *)
ClaimForProcessing(w, e) ==
  /\ worker[w].pc = "idle"
  /\ queue[e] > 0
  /\ queue' = [queue EXCEPT ![e] = @ - 1]
  /\ \/ /\ Claimable(inbox[e])
        /\ \E t \in Token :
             /\ FreshToken(t)
             /\ inbox' = [inbox EXCEPT ![e].state = "processing",
                                       ![e].attempts = @ + 1,
                                       ![e].token = t,
                                       ![e].lease = LeaseTime]
             /\ worker' = [worker EXCEPT ![w] =
                  [pc |-> "handling", event |-> e, token |-> t,
                   attempts |-> inbox[e].attempts + 1, age |-> 0]]
     \/ /\ ~Claimable(inbox[e])
        /\ UNCHANGED <<inbox, worker>>
  /\ UNCHANGED <<effects, losses>>

(* The handler returns: its business effect is committed.                  *)
HandlerReturns(w) ==
  /\ worker[w].pc = "handling"
  /\ worker' = [worker EXCEPT ![w].pc = "handled"]
  /\ effects' = [effects EXCEPT ![worker[w].event] = @ + 1]
  /\ UNCHANGED <<inbox, queue, losses>>

(* The handler throws, before its effect or after it.                      *)
HandlerThrows(w) ==
  /\ worker[w].pc = "handling"
  /\ worker' = [worker EXCEPT ![w].pc = "thrown"]
  /\ \/ UNCHANGED effects
     \/ effects' = [effects EXCEPT ![worker[w].event] = @ + 1]
  /\ UNCHANGED <<inbox, queue, losses>>

CompleteActiveClaim(w) ==
  LET e == worker[w].event IN
  /\ worker[w].pc = "handled"
  /\ inbox' = IF OwnsLiveClaim(inbox[e], worker[w].token)
              THEN [inbox EXCEPT ![e] = Closed(@, "completed")]
              ELSE inbox
  /\ worker' = [worker EXCEPT ![w] = Idle]
  /\ UNCHANGED <<queue, effects, losses>>

\* Variants of ShouldRetry: one retry too many, one too few.
RetriesOnceMore(attempts) == attempts <= MaxAttempts

RetriesOnceLess(attempts) == attempts + 1 < MaxAttempts

ShouldRetry(attempts) == attempts < MaxAttempts

(* Attempts below the limit wait for a retry, the last one ends the event. *)
RecordProcessingFailure(w) ==
  LET e == worker[w].event
      retry == [Closed(inbox[e], "received") EXCEPT !.delay = Backoff]
  IN
  /\ worker[w].pc = "thrown"
  /\ inbox' = IF OwnsLiveClaim(inbox[e], worker[w].token)
              THEN [inbox EXCEPT ![e] = IF ShouldRetry(worker[w].attempts)
                                        THEN retry
                                        ELSE [Closed(@, "failed") EXCEPT !.delay = 0]]
              ELSE inbox
  /\ worker' = [worker EXCEPT ![w] = Idle]
  /\ UNCHANGED <<queue, effects, losses>>

(* The worker process dies, or is killed at the job's timeout.  The job    *)
(* has tries = 1: the queue does not run it again.                         *)
Crash(w) ==
  /\ worker[w].pc # "idle"
  /\ worker' = [worker EXCEPT ![w] = Idle]
  /\ UNCHANGED <<inbox, queue, effects, losses>>

KilledAtTimeout(w) == worker[w].age = JobTimeout /\ Crash(w)

\* Variants of Exhausted: the lease is ignored; off by one.
ExhaustedOrNot(row) == row.state = "processing" /\ row.attempts >= MaxAttempts

ExhaustedTooLate(row) == ExpiredClaim(row) /\ row.attempts > MaxAttempts

Exhausted(row) == ExpiredClaim(row) /\ row.attempts >= MaxAttempts

\* The oldest Limit rows that may be claimed.
Batch ==
  {e \in Event : /\ Claimable(inbox[e])
                 /\ Cardinality({f \in Event : /\ Claimable(inbox[f])
                                               /\ inbox[f].created < inbox[e].created})
                      < Limit}

(* webhooks:recover-pending, every minute on one server: fail the claims   *)
(* whose last attempt expired, then dispatch a job for every selected row; *)
(* the dispatches outside sent fail.                                       *)
DispatchRecoverable(sent) ==
  /\ inbox' = [e \in Event |-> IF Exhausted(inbox[e])
                               THEN Closed(inbox[e], "failed") ELSE inbox[e]]
  /\ queue' = Enqueue(sent \cap Batch)
  /\ UNCHANGED <<worker, effects, losses>>

-----------------------------------------------------------------------------
(* The environment.                                                        *)

LoseQueue ==
  /\ losses < MaxLosses
  /\ losses' = losses + 1
  /\ queue' = [e \in Event |-> 0]
  /\ UNCHANGED <<inbox, worker, effects>>

Elapsed(n) == IF n > 0 THEN n - 1 ELSE 0

\* No time passes over a job that has reached its timeout: it is killed first.
Tick ==
  /\ \A w \in Worker : worker[w].pc # "idle" => worker[w].age < JobTimeout
  /\ inbox' = [e \in Event |-> [inbox[e] EXCEPT !.lease = Elapsed(@),
                                                !.delay = Elapsed(@)]]
  /\ worker' = [w \in Worker |-> IF worker[w].pc = "idle" THEN worker[w]
                                 ELSE [worker[w] EXCEPT !.age = @ + 1]]
  /\ UNCHANGED <<queue, effects, losses>>

Init ==
  /\ inbox   = [e \in Event |-> NoRow]
  /\ queue   = [e \in Event |-> 0]
  /\ worker  = [w \in Worker |-> Idle]
  /\ effects = [e \in Event |-> 0]
  /\ losses  = 0

WorkerStep(w) ==
  \/ HandlerReturns(w)
  \/ HandlerThrows(w)
  \/ CompleteActiveClaim(w)
  \/ RecordProcessingFailure(w)
  \/ Crash(w)

Next ==
  \/ \E e \in Event : Accept(e)
  \/ \E w \in Worker, e \in Event : ClaimForProcessing(w, e)
  \/ \E w \in Worker : WorkerStep(w)
  \/ \E sent \in SUBSET Event : DispatchRecoverable(sent)
  \/ LoseQueue
  \/ Tick

Spec == Init /\ [][Next]_vars

(* Kernel::schedule runs the recovery command every minute; the queue is   *)
(* first in first out, so a queued job is taken although others keep       *)
(* coming; a job that hangs is killed; time passes.                        *)
Fairness ==
  /\ WF_vars(Tick)
  /\ WF_vars(DispatchRecoverable(Event))
  /\ \A e \in Event : SF_vars(\E w \in Worker : ClaimForProcessing(w, e))
  /\ \A w \in Worker : WF_vars(KilledAtTimeout(w))

FairSpec == Spec /\ Fairness

-----------------------------------------------------------------------------
(* Properties.                                                             *)

\* Two workers never run the handler of one event at the same time, although
\* duplicates queue several jobs for it and the recovery command adds more:
\* an attempt is over, by its timeout at the latest, before its claim expires
\* ("Atomic claiming prevents simultaneous processing", WEBHOOK_INBOX.md).
NoSimultaneousProcessing ==
  \A v, w \in Worker :
    worker[v].pc # "idle" /\ worker[w].event = worker[v].event => v = w

\* An event that still waits has an attempt left, so no row is stranded in
\* received where neither the claim nor the recovery command would touch it.
WaitingRowsHaveAttempts ==
  \A e \in Event : inbox[e].state = "received" => inbox[e].attempts < MaxAttempts

\* While a claim is live its row changes owner or state only through the
\* worker that holds the claim: no late worker, duplicate job or recovery run
\* takes it away (unexpiredClaimOwnedBy, claimableAt).
Kept(e) ==
  \/ inbox'[e].state = "processing" /\ inbox'[e].token = inbox[e].token
  \/ \E w \in Worker : /\ worker[w].token = inbox[e].token
                       /\ worker[w].pc \in {"handled", "thrown"}
                       /\ worker'[w].pc = "idle"

KeepsLiveClaims ==
  \A e \in Event :
    inbox[e].state = "processing" /\ inbox[e].lease > 0 => Kept(e)

LiveClaimIsOwners == [][KeepsLiveClaims]_vars

\* The inbox keeps the promises of DurableInbox: no effect once the event is
\* closed, done only after an effect, dead only when its attempts are spent.
StageOf(row) ==
  CASE row.state = "absent"                     -> "absent"
    [] row.state \in {"received", "processing"} -> "open"
    [] row.state = "completed"                  -> "done"
    [] row.state = "failed"                     -> "dead"

Durable == INSTANCE DurableInbox WITH
  stage <- [e \in Event |-> StageOf(inbox[e])],
  tries <- [e \in Event |-> inbox[e].attempts]

ImplementsDurableInbox == Durable!Spec

\* Every accepted event is completed or declared failed in the end, whatever
\* crashes, lost dispatches and (boundedly many) lost queues occur.
AcceptedIsSettled ==
  \A e \in Event :
    inbox[e].state = "received" ~> inbox[e].state \in {"completed", "failed"}
=============================================================================
