------------------------- MODULE WebhookInboxProofs -------------------------
(***************************************************************************)
(* For any number of events, workers and tokens and any limits, the inbox  *)
(* never lets two workers run the handler of one event together and never  *)
(* strands a waiting event, and a live claim belongs to its owner.         *)
(*                                                                         *)
(* The argument is a clock: while a worker runs, what remains of its claim *)
(* and the age of its job add up to LeaseTime.  A job never gets older     *)
(* than JobTimeout, which is below LeaseTime, so the claim of a running    *)
(* worker is live, and nobody else may touch its row.                      *)
(*                                                                         *)
(* The inbox implements DurableInbox: effects are counted against the      *)
(* attempts of a row, so that a worker's step is the one that is promised. *)
(***************************************************************************)
EXTENDS WebhookInbox, FiniteSetTheorems, TLAPS

Running(w) == worker[w].pc # "idle"

Holds(w) ==
  LET job == worker[w] IN
  /\ job.event \in Event
  /\ job.token \in Token
  /\ inbox[job.event].state = "processing"
  /\ inbox[job.event].token = job.token
  /\ inbox[job.event].attempts = job.attempts
  /\ inbox[job.event].lease + job.age = LeaseTime

RunningHolds == \A w \in Worker : Running(w) => Holds(w)

IdleNamesNothing == \A w \in Worker : ~Running(w) => worker[w].event = Null

Inv ==
  /\ TypeOK
  /\ RunningHolds
  /\ IdleNamesNothing
  /\ NoSimultaneousProcessing
  /\ WaitingRowsHaveAttempts

\* The claim of a running worker is live: its row is neither claimable nor
\* exhausted.
LEMMA RunningIsProtected ==
  ASSUME TypeOK, RunningHolds, NEW w \in Worker, Running(w)
  PROVE  /\ worker[w].event \in Event
         /\ inbox[worker[w].event].lease > 0
         /\ ~Claimable(inbox[worker[w].event])
         /\ ~Exhausted(inbox[worker[w].event])
<1>1. Holds(w)
  BY DEF RunningHolds
<1>2. worker[w].age \in 0..JobTimeout /\ worker[w].event \in Event
  BY <1>1 DEF TypeOK, Job, Holds
<1>3. inbox[worker[w].event].lease \in Nat
  BY <1>2, InboxAssumption DEF TypeOK, Row
<1>4. inbox[worker[w].event].lease > 0
  BY <1>1, <1>2, <1>3, InboxAssumption DEF Holds
<1>. QED
  BY <1>1, <1>2, <1>4, <1>3 DEF Holds, Claimable, ExpiredClaim, Exhausted

LEMMA InitInv == Init => Inv
  BY InboxAssumption
  DEF Init, Inv, TypeOK, Row, Job, State, NoRow, Idle, RunningHolds, Running,
      IdleNamesNothing, NoSimultaneousProcessing, WaitingRowsHaveAttempts

\* Queueing respects the bound on the queued jobs.
LEMMA EnqueueType ==
  ASSUME TypeOK, NEW sent
  PROVE  Enqueue(sent) \in [Event -> 0..MaxQueued]
  BY InboxAssumption DEF TypeOK, Enqueue

\* A step that changes the rows of one event only, whose row no worker holds,
\* and no worker, keeps what relates rows to workers.
LEMMA AcceptInv ==
  ASSUME Inv, NEW e \in Event, Accept(e)
  PROVE  Inv'
<1>. DEFINE row == IF inbox[e].state = "absent"
                   THEN [NoRow EXCEPT !.state = "received",
                                      !.created = Cardinality(Accepted) + 1]
                   ELSE inbox[e]
<1>1. /\ Claimable(row)
      /\ inbox' = [inbox EXCEPT ![e] = row]
      /\ \E sent \in SUBSET {e} : queue' = Enqueue(sent)
      /\ UNCHANGED <<worker, effects, losses>>
  BY DEF Accept
<1>2. Cardinality(Accepted) \in Nat
  <2>1. IsFiniteSet(Accepted)
    BY InboxAssumption, FS_Subset DEF Accepted
  <2>. QED BY <2>1, FS_CardinalityType
<1>3. row \in Row /\ row.attempts < MaxAttempts
  <2>1. CASE inbox[e].state = "absent"
    <3>1. row = [state |-> "received", attempts |-> 0, token |-> Null, lease |-> 0,
                 delay |-> 0, created |-> Cardinality(Accepted) + 1]
      BY <2>1 DEF NoRow
    <3>2. /\ "received" \in State /\ 0 \in 0..MaxAttempts /\ 0 \in 0..LeaseTime
          /\ 0 \in 0..Backoff /\ Cardinality(Accepted) + 1 \in Nat
          /\ 0 < MaxAttempts
      BY <1>2, InboxAssumption DEF State
    <3>. HIDE DEF row
    <3>. QED BY <3>1, <3>2 DEF Row
  <2>2. CASE inbox[e].state # "absent"
    <3>1. row = inbox[e] /\ inbox[e] \in Row
      BY <2>2 DEF Inv, TypeOK
    <3>. QED BY <1>1, <3>1 DEF Claimable
  <2>. QED BY <2>1, <2>2
<1>4. TypeOK'
  BY <1>1, <1>3, EnqueueType DEF Inv, TypeOK
<1>5. RunningHolds'
  <2>. SUFFICES ASSUME NEW w \in Worker, Running(w)' PROVE Holds(w)'
    BY DEF RunningHolds
  <2>1. Running(w) /\ Holds(w)
    BY <1>1 DEF Inv, RunningHolds, Running
  <2>2. inbox'[worker[w].event] = inbox[worker[w].event]
    <3>1. inbox[worker[w].event].state = "processing" /\ worker[w].event \in Event
      BY <2>1 DEF Holds
    <3>. QED BY <1>1, <3>1 DEF Inv, TypeOK
  <2>. QED BY <1>1, <2>1, <2>2 DEF Holds
<1>6. WaitingRowsHaveAttempts'
  BY <1>1, <1>3 DEF Inv, TypeOK, WaitingRowsHaveAttempts
<1>. QED
  BY <1>1, <1>4, <1>5, <1>6
  DEF Inv, IdleNamesNothing, Running, NoSimultaneousProcessing

\* A worker that claims a row starts the clock of its claim; the row of a
\* running worker cannot be claimed by another.
LEMMA ClaimInv ==
  ASSUME Inv, NEW w \in Worker, NEW e \in Event, ClaimForProcessing(w, e)
  PROVE  Inv'
<1>1. /\ ~Running(w)
      /\ queue' = [queue EXCEPT ![e] = @ - 1] /\ queue[e] > 0
      /\ UNCHANGED <<effects, losses>>
  BY DEF ClaimForProcessing, Running
<1>2. queue' \in [Event -> 0..MaxQueued]
  BY <1>1, InboxAssumption DEF Inv, TypeOK
<1>3. CASE UNCHANGED <<inbox, worker>>
  BY <1>1, <1>2, <1>3
  DEF Inv, TypeOK, RunningHolds, Running, Holds, IdleNamesNothing,
      NoSimultaneousProcessing, WaitingRowsHaveAttempts
<1>4. ASSUME Claimable(inbox[e]), NEW t \in Token,
             inbox' = [inbox EXCEPT ![e].state = "processing",
                                    ![e].attempts = @ + 1,
                                    ![e].token = t,
                                    ![e].lease = LeaseTime],
             worker' = [worker EXCEPT ![w] =
               [pc |-> "handling", event |-> e, token |-> t,
                attempts |-> inbox[e].attempts + 1, age |-> 0]]
      PROVE  Inv'
  <2>1. inbox[e] \in Row /\ inbox[e].attempts + 1 \in 0..MaxAttempts
    BY <1>4, InboxAssumption DEF Inv, TypeOK, Row, Claimable
  <2>2. inbox'[e] = [state |-> "processing", attempts |-> inbox[e].attempts + 1,
                     token |-> t, lease |-> LeaseTime,
                     delay |-> inbox[e].delay, created |-> inbox[e].created]
    BY <1>4, <2>1 DEF Inv, TypeOK, Row
  <2>3. /\ inbox'[e].state = "processing" /\ inbox'[e].token = t
        /\ inbox'[e].attempts = inbox[e].attempts + 1
        /\ inbox'[e].lease = LeaseTime
        /\ inbox'[e] \in Row
    BY <2>1, <2>2, InboxAssumption DEF Row, State
  <2>4. /\ inbox' \in [Event -> Row]
        /\ \A f \in Event \ {e} : inbox'[f] = inbox[f]
    BY <1>4, <2>3 DEF Inv, TypeOK
  <2>5. /\ worker'[w] = [pc |-> "handling", event |-> e, token |-> t,
                         attempts |-> inbox[e].attempts + 1, age |-> 0]
        /\ worker'[w] \in Job
        /\ worker' \in [Worker -> Job]
        /\ \A v \in Worker \ {w} : worker'[v] = worker[v]
    BY <1>4, <2>1, InboxAssumption DEF Inv, TypeOK, Job
  <2>6. \A v \in Worker \ {w} : Running(v) => worker[v].event \in Event \ {e}
    BY <1>4, RunningIsProtected DEF Inv
  <2>7. TypeOK'
    BY <1>1, <1>2, <2>4, <2>5 DEF Inv, TypeOK
  <2>8. RunningHolds'
    <3>. SUFFICES ASSUME NEW v \in Worker, Running(v)' PROVE Holds(v)'
      BY DEF RunningHolds
    <3>1. CASE v = w
      BY <2>3, <2>5, <3>1, InboxAssumption DEF Holds
    <3>2. CASE v # w
      <4>1. Running(v) /\ Holds(v) /\ worker'[v] = worker[v]
        BY <2>5, <3>2 DEF Inv, RunningHolds, Running
      <4>2. inbox'[worker[v].event] = inbox[worker[v].event]
        BY <2>4, <2>6, <3>2, <4>1
      <4>. QED BY <4>1, <4>2 DEF Holds
    <3>. QED BY <3>1, <3>2
  <2>9. IdleNamesNothing' /\ NoSimultaneousProcessing'
    <3>1. IdleNamesNothing'
      BY <2>5 DEF Inv, IdleNamesNothing, Running
    <3>2. \A v \in Worker \ {w} : worker[v].event # e
      BY <2>6, InboxAssumption DEF Inv, IdleNamesNothing
    <3>3. NoSimultaneousProcessing'
      BY <2>5, <3>2 DEF Inv, NoSimultaneousProcessing
    <3>. QED BY <3>1, <3>3
  <2>10. WaitingRowsHaveAttempts'
    BY <2>3, <2>4 DEF Inv, WaitingRowsHaveAttempts
  <2>. QED BY <2>7, <2>8, <2>9, <2>10 DEF Inv
<1>. QED
  BY <1>3, <1>4 DEF ClaimForProcessing

\* While its handler runs a worker keeps its event, its token and its age.
LEMMA HandlerInv ==
  ASSUME Inv, NEW w \in Worker, HandlerReturns(w) \/ HandlerThrows(w)
  PROVE  Inv'
<1>1. PICK pc \in {"handled", "thrown"} :
        /\ Running(w)
        /\ worker' = [worker EXCEPT ![w].pc = pc]
        /\ UNCHANGED <<inbox, queue, losses>>
  BY DEF HandlerReturns, HandlerThrows, Running
<1>2. \/ UNCHANGED effects
      \/ effects' = [effects EXCEPT ![worker[w].event] = @ + 1]
  BY DEF HandlerReturns, HandlerThrows
<1>3. effects' \in [Event -> Nat]
  BY <1>2 DEF Inv, TypeOK
<1>4. /\ worker' \in [Worker -> Job]
      /\ \A v \in Worker : /\ worker'[v].event = worker[v].event
                            /\ worker'[v].token = worker[v].token
                            /\ worker'[v].attempts = worker[v].attempts
                            /\ worker'[v].age = worker[v].age
                            /\ Running(v)' <=> Running(v)
  BY <1>1 DEF Inv, TypeOK, Job, Running
<1>5. TypeOK'
  BY <1>1, <1>3, <1>4 DEF Inv, TypeOK
<1>6. RunningHolds' /\ IdleNamesNothing' /\ NoSimultaneousProcessing'
  BY <1>1, <1>4
  DEF Inv, RunningHolds, Holds, IdleNamesNothing, NoSimultaneousProcessing, Running
<1>. QED
  BY <1>1, <1>5, <1>6 DEF Inv, WaitingRowsHaveAttempts

LEMMA ClosedType ==
  ASSUME NEW r \in Row, NEW outcome \in State
  PROVE  /\ Closed(r, outcome) \in Row
         /\ Closed(r, outcome).state = outcome
         /\ Closed(r, outcome).attempts = r.attempts
<1>1. 0 \in 0..LeaseTime
  BY InboxAssumption
<1>. QED
  BY <1>1 DEF Closed, Row

\* A worker ends its attempt: nobody else holds its row, so whatever the row
\* becomes, it holds no other worker's claim.
LEMMA EndInv ==
  ASSUME Inv, NEW w \in Worker, Running(w), NEW r \in Row,
         r.state = "received" => r.attempts < MaxAttempts,
         inbox' = [inbox EXCEPT ![worker[w].event] = r],
         worker' = [worker EXCEPT ![w] = Idle],
         UNCHANGED <<queue, effects, losses>>
  PROVE  Inv'
<1>1. /\ worker[w].event \in Event
      /\ inbox' \in [Event -> Row]
      /\ inbox'[worker[w].event] = r
      /\ \A e \in Event : e # worker[w].event => inbox'[e] = inbox[e]
  BY RunningIsProtected DEF Inv, TypeOK
<1>2. /\ worker' \in [Worker -> Job]
      /\ worker'[w] = Idle
      /\ \A v \in Worker : v # w => worker'[v] = worker[v]
  BY InboxAssumption DEF Inv, TypeOK, Job, Idle
<1>3. TypeOK'
  BY <1>1, <1>2 DEF Inv, TypeOK
<1>4. RunningHolds'
  <2>. SUFFICES ASSUME NEW v \in Worker, Running(v)' PROVE Holds(v)'
    BY DEF RunningHolds
  <2>1. v # w /\ worker'[v] = worker[v] /\ Running(v) /\ Holds(v)
    BY <1>2 DEF Inv, RunningHolds, Running, Idle
  <2>2. worker[v].event # worker[w].event
    BY <2>1 DEF Inv, NoSimultaneousProcessing, Running
  <2>. QED
    BY <1>1, <2>1, <2>2 DEF Holds
<1>5. IdleNamesNothing' /\ NoSimultaneousProcessing'
  <2>1. \A v \in Worker : Running(v) => worker[v].event # Null
    BY RunningIsProtected, InboxAssumption DEF Inv
  <2>2. IdleNamesNothing'
    BY <1>2 DEF Inv, IdleNamesNothing, Running, Idle
  <2>3. NoSimultaneousProcessing'
    BY <1>2, <2>1 DEF Inv, NoSimultaneousProcessing, Running, Idle
  <2>. QED BY <2>2, <2>3
<1>6. WaitingRowsHaveAttempts'
  BY <1>1 DEF Inv, WaitingRowsHaveAttempts
<1>. QED
  BY <1>3, <1>4, <1>5, <1>6 DEF Inv

LEMMA CompleteInv ==
  ASSUME Inv, NEW w \in Worker, CompleteActiveClaim(w)
  PROVE  Inv'
<1>1. Running(w) /\ worker[w].event \in Event
  BY RunningIsProtected DEF CompleteActiveClaim, Running, Inv
<1>2. inbox[worker[w].event] \in Row
  BY <1>1 DEF Inv, TypeOK
<1>. DEFINE r == IF OwnsLiveClaim(inbox[worker[w].event], worker[w].token)
                 THEN Closed(inbox[worker[w].event], "completed")
                 ELSE inbox[worker[w].event]
<1>3. r \in Row /\ (r.state = "received" => r.attempts < MaxAttempts)
  BY <1>1, <1>2, ClosedType DEF Inv, WaitingRowsHaveAttempts, State
<1>4. /\ inbox' = [inbox EXCEPT ![worker[w].event] = r]
      /\ worker' = [worker EXCEPT ![w] = Idle]
      /\ UNCHANGED <<queue, effects, losses>>
  BY <1>1 DEF CompleteActiveClaim, Inv, TypeOK
<1>. HIDE DEF r
<1>. QED
  BY <1>1, <1>3, <1>4, EndInv

LEMMA FailureInv ==
  ASSUME Inv, NEW w \in Worker, RecordProcessingFailure(w)
  PROVE  Inv'
<1>1. Running(w) /\ worker[w].event \in Event /\ Holds(w)
  BY RunningIsProtected DEF RecordProcessingFailure, Running, Inv, RunningHolds
<1>2. inbox[worker[w].event] \in Row
  BY <1>1 DEF Inv, TypeOK
<1>. DEFINE old   == inbox[worker[w].event]
            retry == [Closed(old, "received") EXCEPT !.delay = Backoff]
            dead  == [Closed(old, "failed") EXCEPT !.delay = 0]
            r     == IF OwnsLiveClaim(old, worker[w].token)
                     THEN IF ShouldRetry(worker[w].attempts) THEN retry ELSE dead
                     ELSE old
<1>3. retry \in Row /\ retry.attempts = worker[w].attempts
  BY <1>1, <1>2, ClosedType, InboxAssumption DEF Row, State, Holds
<1>4. dead \in Row /\ dead.state = "failed"
  BY <1>2, ClosedType, InboxAssumption DEF Row, State
<1>5. r \in Row /\ (r.state = "received" => r.attempts < MaxAttempts)
  BY <1>1, <1>2, <1>3, <1>4 DEF Inv, WaitingRowsHaveAttempts, ShouldRetry
<1>6. /\ inbox' = [inbox EXCEPT ![worker[w].event] = r]
      /\ worker' = [worker EXCEPT ![w] = Idle]
      /\ UNCHANGED <<queue, effects, losses>>
  BY <1>1 DEF RecordProcessingFailure, Inv, TypeOK
<1>. HIDE DEF r
<1>. QED
  BY <1>1, <1>5, <1>6, EndInv

LEMMA CrashInv ==
  ASSUME Inv, NEW w \in Worker, Crash(w)
  PROVE  Inv'
<1>1. Running(w) /\ worker[w].event \in Event
  BY RunningIsProtected DEF Crash, Running, Inv
<1>. DEFINE r == inbox[worker[w].event]
<1>2. r \in Row /\ (r.state = "received" => r.attempts < MaxAttempts)
  BY <1>1 DEF Inv, TypeOK, WaitingRowsHaveAttempts
<1>3. /\ inbox' = [inbox EXCEPT ![worker[w].event] = r]
      /\ worker' = [worker EXCEPT ![w] = Idle]
      /\ UNCHANGED <<queue, effects, losses>>
  BY <1>1 DEF Crash, Inv, TypeOK
<1>. HIDE DEF r
<1>. QED
  BY <1>1, <1>2, <1>3, EndInv

\* The recovery command only fails rows whose claim expired: no worker runs.
LEMMA DispatchInv ==
  ASSUME Inv, NEW sent \in SUBSET Event, DispatchRecoverable(sent)
  PROVE  Inv'
<1>1. /\ inbox' = [e \in Event |-> IF Exhausted(inbox[e])
                                  THEN Closed(inbox[e], "failed") ELSE inbox[e]]
      /\ queue' = Enqueue(sent \cap Batch)
      /\ UNCHANGED <<worker, effects, losses>>
  BY DEF DispatchRecoverable
<1>2. \A e \in Event : /\ inbox'[e] \in Row
                       /\ inbox'[e] = inbox[e] \/ inbox'[e].state = "failed"
                       /\ ~Exhausted(inbox[e]) => inbox'[e] = inbox[e]
  BY <1>1, ClosedType DEF Inv, TypeOK, State
<1>3. TypeOK'
  BY <1>1, <1>2, EnqueueType DEF Inv, TypeOK
<1>4. RunningHolds'
  <2>. SUFFICES ASSUME NEW v \in Worker, Running(v)' PROVE Holds(v)'
    BY DEF RunningHolds
  <2>1. Running(v) /\ Holds(v)
    BY <1>1 DEF Inv, RunningHolds, Running
  <2>2. inbox'[worker[v].event] = inbox[worker[v].event]
    BY <1>2, <2>1, RunningIsProtected DEF Inv
  <2>. QED
    BY <1>1, <2>1, <2>2 DEF Holds
<1>5. WaitingRowsHaveAttempts'
  BY <1>2 DEF Inv, WaitingRowsHaveAttempts
<1>. QED
  BY <1>1, <1>3, <1>4, <1>5
  DEF Inv, IdleNamesNothing, Running, NoSimultaneousProcessing

\* Time takes as much from a live claim as it adds to the age of its job.
LEMMA TickInv ==
  ASSUME Inv, Tick
  PROVE  Inv'
<1>1. \A e \in Event :
        /\ inbox'[e] = [inbox[e] EXCEPT !.lease = Elapsed(@), !.delay = Elapsed(@)]
        /\ inbox[e] \in Row
  BY DEF Tick, Inv, TypeOK
<1>2. \A e \in Event :
        /\ inbox'[e] \in Row
        /\ inbox'[e].state = inbox[e].state /\ inbox'[e].token = inbox[e].token
        /\ inbox'[e].attempts = inbox[e].attempts
        /\ inbox'[e].lease = Elapsed(inbox[e].lease)
  <2>. SUFFICES ASSUME NEW e \in Event
                PROVE  /\ inbox'[e] \in Row
                       /\ inbox'[e].state = inbox[e].state
                       /\ inbox'[e].token = inbox[e].token
                       /\ inbox'[e].attempts = inbox[e].attempts
                       /\ inbox'[e].lease = Elapsed(inbox[e].lease)
    OBVIOUS
  <2>1. inbox'[e] = [state |-> inbox[e].state, attempts |-> inbox[e].attempts,
                     token |-> inbox[e].token, lease |-> Elapsed(inbox[e].lease),
                     delay |-> Elapsed(inbox[e].delay), created |-> inbox[e].created]
    BY <1>1 DEF Row
  <2>2. /\ Elapsed(inbox[e].lease) \in 0..LeaseTime
        /\ Elapsed(inbox[e].delay) \in 0..Backoff
    <3>1. inbox[e].lease \in 0..LeaseTime /\ inbox[e].delay \in 0..Backoff
      BY <1>1 DEF Row
    <3>. QED BY <3>1, InboxAssumption DEF Elapsed
  <2>. QED
    BY <1>1, <2>1, <2>2 DEF Row
<1>3. \A w \in Worker :
        /\ ~Running(w) => worker'[w] = worker[w]
        /\ Running(w) => /\ worker'[w] = [worker[w] EXCEPT !.age = @ + 1]
                         /\ worker[w].age < JobTimeout
        /\ worker[w] \in Job
  BY DEF Tick, Running, Inv, TypeOK
<1>4. \A w \in Worker :
        /\ worker'[w] \in Job
        /\ worker'[w].pc = worker[w].pc /\ worker'[w].event = worker[w].event
        /\ worker'[w].token = worker[w].token
        /\ worker'[w].attempts = worker[w].attempts
        /\ Running(w) => worker'[w].age = worker[w].age + 1
  <2>. SUFFICES ASSUME NEW w \in Worker, Running(w)
                PROVE  /\ worker'[w] \in Job
                       /\ worker'[w].pc = worker[w].pc
                       /\ worker'[w].event = worker[w].event
                       /\ worker'[w].token = worker[w].token
                       /\ worker'[w].attempts = worker[w].attempts
                       /\ worker'[w].age = worker[w].age + 1
    BY <1>3
  <2>. DEFINE job == worker[w]
              new == worker'[w]
  <2>1. job.age + 1 \in 0..JobTimeout
    <3>1. job.age \in 0..JobTimeout /\ job.age < JobTimeout
      BY <1>3 DEF Job
    <3>. QED BY <3>1, InboxAssumption
  <2>2. job \in Job /\ new = [job EXCEPT !.age = @ + 1]
    BY <1>3
  <2>. HIDE DEF job, new
  <2>3. new \in Job
    BY <2>1, <2>2 DEF Job
  <2>4. /\ new.pc = job.pc /\ new.event = job.event /\ new.token = job.token
        /\ new.attempts = job.attempts /\ new.age = job.age + 1
    BY <2>2 DEF Job
  <2>. QED BY <2>3, <2>4 DEF job, new
<1>5. TypeOK'
  BY <1>2, <1>4 DEF Inv, TypeOK, Tick
<1>6. RunningHolds'
  <2>. SUFFICES ASSUME NEW w \in Worker, Running(w)' PROVE Holds(w)'
    BY DEF RunningHolds
  <2>1. Running(w) /\ Holds(w) /\ worker[w].event \in Event
    BY <1>4 DEF Inv, RunningHolds, Running, Holds
  <2>2. inbox[worker[w].event].lease > 0 /\ inbox[worker[w].event].lease \in Nat
    BY <2>1, RunningIsProtected, InboxAssumption DEF Inv, TypeOK, Row
  <2>3. worker[w].age \in Nat
    <3>1. worker[w].age \in 0..JobTimeout
      BY DEF Inv, TypeOK, Job
    <3>. QED BY <3>1, InboxAssumption
  <2>4. inbox'[worker[w].event].lease + worker'[w].age = LeaseTime
    BY <1>2, <1>4, <2>1, <2>2, <2>3, InboxAssumption DEF Elapsed, Holds
  <2>. QED
    BY <1>2, <1>4, <2>1, <2>4 DEF Holds
<1>7. IdleNamesNothing' /\ NoSimultaneousProcessing'
  BY <1>4 DEF Inv, IdleNamesNothing, NoSimultaneousProcessing, Running
<1>8. WaitingRowsHaveAttempts'
  BY <1>2 DEF Inv, WaitingRowsHaveAttempts
<1>. QED
  BY <1>5, <1>6, <1>7, <1>8 DEF Inv

LEMMA StepInv == Inv /\ [Next]_vars => Inv'
<1>. SUFFICES ASSUME Inv, [Next]_vars PROVE Inv'
  OBVIOUS
<1>1. CASE \E e \in Event : Accept(e)
  BY <1>1, AcceptInv
<1>2. CASE \E w \in Worker, e \in Event : ClaimForProcessing(w, e)
  BY <1>2, ClaimInv
<1>3. CASE \E w \in Worker : WorkerStep(w)
  BY <1>3, HandlerInv, CompleteInv, FailureInv, CrashInv DEF WorkerStep
<1>4. CASE \E sent \in SUBSET Event : DispatchRecoverable(sent)
  BY <1>4, DispatchInv
<1>5. CASE LoseQueue
  <2>1. queue' \in [Event -> 0..MaxQueued] /\ losses' \in 0..MaxLosses
    BY <1>5, InboxAssumption DEF LoseQueue, Inv, TypeOK
  <2>. QED
    BY <1>5, <2>1
    DEF LoseQueue, Inv, TypeOK, RunningHolds, Running, Holds, IdleNamesNothing,
        NoSimultaneousProcessing, WaitingRowsHaveAttempts
<1>6. CASE Tick
  BY <1>6, TickInv
<1>7. CASE UNCHANGED vars
  BY <1>7
  DEF vars, Inv, TypeOK, RunningHolds, Running, Holds, IdleNamesNothing,
      NoSimultaneousProcessing, WaitingRowsHaveAttempts
<1>. QED
  BY <1>1, <1>2, <1>3, <1>4, <1>5, <1>6, <1>7 DEF Next

\* The inductive invariant holds in every reachable state.
THEOREM Invariance == Spec => []Inv
  BY InitInv, StepInv, PTL DEF Spec

\* Every variable keeps its type: attempts never exceed MaxAttempts, no job
\* gets older than its timeout (claimForProcessing, ProcessZoomWebhookInbox).
THEOREM TypeCorrect == Spec => []TypeOK
<1>1. Inv => TypeOK
  BY DEF Inv
<1>. QED BY Invariance, <1>1, PTL

\* No two workers run the handler of one event together, for any number of
\* workers, duplicates and recovery runs, as long as a job is killed before its
\* claim expires (claimForProcessing, dispatchRecoverable).
THEOREM MutualExclusion == Spec => []NoSimultaneousProcessing
<1>1. Inv => NoSimultaneousProcessing
  BY DEF Inv
<1>. QED BY Invariance, <1>1, PTL

\* No event waits without an attempt left (recordProcessingFailure).
THEOREM NoStrandedEvent == Spec => []WaitingRowsHaveAttempts
<1>1. Inv => WaitingRowsHaveAttempts
  BY DEF Inv
<1>. QED BY Invariance, <1>1, PTL

LEMMA StepKeepsLiveClaims ==
  ASSUME Inv, [Next]_vars, NEW e \in Event,
         inbox[e].state = "processing", inbox[e].lease > 0
  PROVE  Kept(e)
<1>1. ~Claimable(inbox[e]) /\ ~Exhausted(inbox[e])
  BY DEF Claimable, Exhausted, ExpiredClaim
<1>2. inbox'[e] = inbox[e] => Kept(e)
  BY DEF Kept
<1>3. ASSUME NEW f \in Event, Accept(f) PROVE Kept(e)
  BY <1>2, <1>3 DEF Accept, Inv, TypeOK
<1>4. ASSUME NEW w \in Worker, NEW f \in Event, ClaimForProcessing(w, f)
      PROVE  Kept(e)
  BY <1>1, <1>2, <1>4 DEF ClaimForProcessing, Inv, TypeOK
<1>5. ASSUME NEW w \in Worker, CompleteActiveClaim(w) \/ RecordProcessingFailure(w)
      PROVE  Kept(e)
  <2>1. Running(w) /\ worker[w].pc \in {"handled", "thrown"}
    BY <1>5 DEF CompleteActiveClaim, RecordProcessingFailure, Running
  <2>2. worker'[w].pc = "idle"
    BY <1>5 DEF CompleteActiveClaim, RecordProcessingFailure, Idle, Inv, TypeOK
  <2>3. CASE worker[w].event = e
    BY <2>1, <2>2, <2>3 DEF Kept, Inv, RunningHolds, Holds
  <2>4. CASE worker[w].event # e
    <3>1. inbox'[e] = inbox[e]
      BY <1>5, <2>4 DEF CompleteActiveClaim, RecordProcessingFailure, Inv, TypeOK
    <3>. QED BY <3>1, <1>2
  <2>. QED BY <2>3, <2>4
<1>6. ASSUME NEW w \in Worker, WorkerStep(w) PROVE Kept(e)
  <2>1. HandlerReturns(w) \/ HandlerThrows(w) \/ Crash(w) => inbox' = inbox
    BY DEF HandlerReturns, HandlerThrows, Crash
  <2>. QED BY <1>2, <1>5, <1>6, <2>1 DEF WorkerStep
<1>7. ASSUME NEW sent \in SUBSET Event, DispatchRecoverable(sent) PROVE Kept(e)
  BY <1>1, <1>2, <1>7 DEF DispatchRecoverable
<1>8. CASE Tick
  BY <1>8 DEF Tick, Kept, Inv, TypeOK, Row
<1>9. CASE LoseQueue \/ UNCHANGED vars
  BY <1>2, <1>9 DEF LoseQueue, vars
<1>. QED
  BY <1>3, <1>4, <1>6, <1>7, <1>8, <1>9 DEF Next

\* A live claim changes hands or ends only through the worker that holds it
\* (unexpiredClaimOwnedBy, claimableAt, failExpiredExhaustedClaims).
THEOREM OwnerKeepsLiveClaim == Spec => LiveClaimIsOwners
<1>1. Inv /\ [Next]_vars => [KeepsLiveClaims]_vars
  BY StepKeepsLiveClaims DEF KeepsLiveClaims
<1>. QED
  BY <1>1, Invariance, PTL DEF Spec, LiveClaimIsOwners

-----------------------------------------------------------------------------
(* The refinement: what a step is to DurableInbox.                         *)

\* Effects are counted against attempts: a handler that runs has an attempt to
\* spend, one that returned has spent it on an effect.
EffectsOf(w) ==
  /\ worker[w].pc = "handling" => effects[worker[w].event] < worker[w].attempts
  /\ worker[w].pc = "handled" => effects[worker[w].event] > 0

Effects ==
  /\ \A e \in Event : /\ effects[e] <= inbox[e].attempts
                      /\ inbox[e].state = "absent" => inbox[e].attempts = 0
  /\ \A w \in Worker : EffectsOf(w)

LEMMA InitEffects == Init => Effects
  BY DEF Init, Effects, EffectsOf, NoRow, Idle

\* A step that makes no effect, starts no attempt and lets no handler run on
\* keeps the count.
LEMMA EffectsKept ==
  ASSUME Inv, Effects, effects' = effects,
         \A e \in Event :
           /\ inbox'[e].attempts = inbox[e].attempts
           /\ inbox'[e].state = "absent" => inbox[e].state = "absent",
         \A w \in Worker :
           \/ worker'[w].pc \notin {"handling", "handled"}
           \/ /\ worker'[w].pc = worker[w].pc /\ worker'[w].event = worker[w].event
              /\ worker'[w].attempts = worker[w].attempts
  PROVE  Effects'
  BY DEF Effects, EffectsOf

\* What a worker's end does to its row.
LEMMA EndForm ==
  ASSUME Inv, NEW w \in Worker, CompleteActiveClaim(w) \/ RecordProcessingFailure(w)
  PROVE  LET e == worker[w].event
         IN  /\ Running(w) /\ Holds(w) /\ e \in Event
             /\ worker' = [worker EXCEPT ![w] = Idle] /\ effects' = effects
             /\ inbox'[e].attempts = inbox[e].attempts
             /\ \/ inbox'[e].state = inbox[e].state
                \/ /\ worker[w].pc = "handled" /\ inbox'[e].state = "completed"
                \/ /\ worker[w].pc = "thrown"
                   /\ \/ inbox'[e].state = "received"
                      \/ inbox'[e].state = "failed" /\ inbox[e].attempts = MaxAttempts
             /\ \A f \in Event \ {e} : inbox'[f] = inbox[f]
<1>. DEFINE e == worker[w].event
<1>1. Running(w)
  BY DEF CompleteActiveClaim, RecordProcessingFailure, Running
<1>2. Holds(w) /\ e \in Event /\ inbox[e] \in Row /\ inbox \in [Event -> Row]
  BY <1>1 DEF Inv, TypeOK, RunningHolds, Holds
<1>3. worker' = [worker EXCEPT ![w] = Idle] /\ effects' = effects
  BY DEF CompleteActiveClaim, RecordProcessingFailure
<1>4. CASE CompleteActiveClaim(w)
  <2>1. /\ worker[w].pc = "handled"
        /\ inbox' = inbox \/ inbox' = [inbox EXCEPT ![e] = Closed(@, "completed")]
    BY <1>4 DEF CompleteActiveClaim
  <2>2. CASE inbox' = inbox
    BY <1>1, <1>2, <1>3, <2>2
  <2>3. CASE inbox' = [inbox EXCEPT ![e] = Closed(@, "completed")]
    <3>1. inbox'[e] = Closed(inbox[e], "completed") /\ \A f \in Event \ {e} : inbox'[f] = inbox[f]
      BY <1>2, <2>3
    <3>2. inbox'[e].state = "completed" /\ inbox'[e].attempts = inbox[e].attempts
      BY <1>2, <3>1, ClosedType DEF State
    <3>. QED BY <1>1, <1>2, <1>3, <2>1, <3>1, <3>2
  <2>. QED BY <2>1, <2>2, <2>3
<1>5. CASE RecordProcessingFailure(w)
  <2>. DEFINE retry == [Closed(inbox[e], "received") EXCEPT !.delay = Backoff]
              dead  == [Closed(inbox[e], "failed") EXCEPT !.delay = 0]
  <2>1. /\ worker[w].pc = "thrown"
        /\ \/ inbox' = inbox
           \/ inbox' = [inbox EXCEPT ![e] = retry]
           \/ inbox' = [inbox EXCEPT ![e] = dead] /\ ~ShouldRetry(worker[w].attempts)
    BY <1>2, <1>5 DEF RecordProcessingFailure
  <2>2. /\ retry.state = "received" /\ retry.attempts = inbox[e].attempts
        /\ dead.state = "failed" /\ dead.attempts = inbox[e].attempts
    BY <1>2, ClosedType DEF State, Row
  <2>. HIDE DEF retry, dead
  <2>3. CASE inbox' = inbox
    BY <1>1, <1>2, <1>3, <2>3
  <2>4. CASE inbox' = [inbox EXCEPT ![e] = retry]
    BY <1>1, <1>2, <1>3, <2>1, <2>2, <2>4
  <2>5. CASE inbox' = [inbox EXCEPT ![e] = dead] /\ ~ShouldRetry(worker[w].attempts)
    <3>1. inbox[e].attempts = MaxAttempts
      BY <1>2, <2>5, InboxAssumption DEF ShouldRetry, Holds, Row
    <3>. QED BY <1>1, <1>2, <1>3, <2>1, <2>2, <2>5, <3>1
  <2>. QED BY <2>1, <2>3, <2>4, <2>5
<1>. QED BY <1>4, <1>5

\* What a claim does to the row.
LEMMA ClaimForm ==
  ASSUME Inv, NEW w \in Worker, NEW e \in Event, ClaimForProcessing(w, e)
  PROVE  /\ effects' = effects
         /\ \/ UNCHANGED <<inbox, worker>>
            \/ /\ Claimable(inbox[e]) /\ worker' \in [Worker -> Job]
               /\ inbox'[e].state = "processing"
               /\ inbox'[e].attempts = inbox[e].attempts + 1
               /\ worker'[w].pc = "handling" /\ worker'[w].event = e
               /\ worker'[w].attempts = inbox[e].attempts + 1
               /\ \A f \in Event \ {e} : inbox'[f] = inbox[f]
               /\ \A v \in Worker \ {w} : worker'[v] = worker[v]
<1>1. effects' = effects
  BY DEF ClaimForProcessing
<1>2. ASSUME Claimable(inbox[e]), NEW t \in Token,
             inbox' = [inbox EXCEPT ![e].state = "processing",
                                    ![e].attempts = @ + 1,
                                    ![e].token = t,
                                    ![e].lease = LeaseTime],
             worker' = [worker EXCEPT ![w] =
               [pc |-> "handling", event |-> e, token |-> t,
                attempts |-> inbox[e].attempts + 1, age |-> 0]]
      PROVE  /\ inbox'[e].state = "processing"
             /\ inbox'[e].attempts = inbox[e].attempts + 1
             /\ worker'[w].pc = "handling" /\ worker'[w].event = e
             /\ worker'[w].attempts = inbox[e].attempts + 1
             /\ \A f \in Event \ {e} : inbox'[f] = inbox[f]
             /\ \A v \in Worker \ {w} : worker'[v] = worker[v]
  <2>1. inbox \in [Event -> Row] /\ worker \in [Worker -> Job]
    BY DEF Inv, TypeOK
  <2>2. inbox'[e].state = "processing" /\ inbox'[e].attempts = inbox[e].attempts + 1
    BY <1>2, <2>1 DEF Row
  <2>3. \A f \in Event \ {e} : inbox'[f] = inbox[f]
    BY <1>2, <2>1
  <2>. QED BY <1>2, <2>1, <2>2, <2>3
<1>3. worker' \in [Worker -> Job]
  BY ClaimInv DEF Inv, TypeOK
<1>. QED BY <1>1, <1>2, <1>3 DEF ClaimForProcessing

\* What an acknowledged delivery does to the row.
LEMMA AcceptForm ==
  ASSUME Inv, Effects, NEW e \in Event, Accept(e)
  PROVE  /\ UNCHANGED <<worker, effects>>
         /\ inbox'[e].attempts = inbox[e].attempts
         /\ \/ inbox' = inbox
            \/ inbox[e].state = "absent" /\ inbox'[e].state = "received"
         /\ \A f \in Event \ {e} : inbox'[f] = inbox[f]
<1>. DEFINE new == [NoRow EXCEPT !.state = "received", !.created = Cardinality(Accepted) + 1]
<1>1. new.state = "received" /\ new.attempts = 0
  BY DEF NoRow
<1>2. inbox \in [Event -> Row] /\ UNCHANGED <<worker, effects>>
  BY DEF Accept, Inv, TypeOK
<1>3. inbox[e].state = "absent" => inbox[e].attempts = 0
  BY DEF Effects
<1>4. inbox' = [inbox EXCEPT ![e] = IF inbox[e].state = "absent" THEN new ELSE inbox[e]]
  BY DEF Accept
<1>. HIDE DEF new
<1>5. CASE inbox[e].state = "absent"
  BY <1>1, <1>2, <1>3, <1>4, <1>5
<1>6. CASE inbox[e].state # "absent"
  BY <1>2, <1>4, <1>6
<1>. QED BY <1>5, <1>6

LEMMA HandlerForm ==
  ASSUME Inv, NEW w \in Worker, HandlerReturns(w) \/ HandlerThrows(w)
  PROVE  LET e == worker[w].event
         IN  /\ worker[w].pc = "handling" /\ Holds(w) /\ e \in Event /\ inbox' = inbox
             /\ worker' \in [Worker -> Job]
             /\ \A v \in Worker \ {w} : worker'[v] = worker[v]
             /\ worker'[w].event = e
             /\ \/ worker'[w].pc = "handled" /\ effects' = [effects EXCEPT ![e] = @ + 1]
                \/ worker'[w].pc = "thrown" /\ effects' = [effects EXCEPT ![e] = @ + 1]
                \/ worker'[w].pc = "thrown" /\ effects' = effects
<1>1. worker[w].pc = "handling" /\ Running(w) /\ inbox' = inbox
  BY DEF HandlerReturns, HandlerThrows, Running
<1>2. Holds(w) /\ worker \in [Worker -> Job]
  BY <1>1 DEF Inv, TypeOK, RunningHolds
<1>3. ASSUME NEW pc \in {"handled", "thrown"}, worker' = [worker EXCEPT ![w].pc = pc]
      PROVE  /\ worker' \in [Worker -> Job]
             /\ worker'[w].event = worker[w].event /\ worker'[w].pc = pc
             /\ \A v \in Worker \ {w} : worker'[v] = worker[v]
  BY <1>2, <1>3 DEF Job
<1>4. worker[w].event \in Event
  BY <1>2 DEF Holds
<1>. QED BY <1>1, <1>2, <1>3, <1>4 DEF HandlerReturns, HandlerThrows

LEMMA HandlerEffects ==
  ASSUME Inv, Effects, NEW w \in Worker, HandlerReturns(w) \/ HandlerThrows(w)
  PROVE  Effects'
<1>. DEFINE e == worker[w].event
<1>1. /\ worker[w].pc = "handling" /\ Holds(w) /\ e \in Event /\ inbox' = inbox
      /\ \A v \in Worker \ {w} : worker'[v] = worker[v]
      /\ worker'[w].event = e
      /\ \/ worker'[w].pc = "handled" /\ effects' = [effects EXCEPT ![e] = @ + 1]
         \/ worker'[w].pc = "thrown" /\ effects' = [effects EXCEPT ![e] = @ + 1]
         \/ worker'[w].pc = "thrown" /\ effects' = effects
  BY HandlerForm
<1>2. /\ effects \in [Event -> Nat] /\ effects[e] < inbox[e].attempts
      /\ inbox[e].attempts \in Nat /\ effects[e] \in Nat
  BY <1>1, InboxAssumption DEF Inv, TypeOK, Row, Effects, EffectsOf, Holds
<1>3. effects'[e] \in {effects[e], effects[e] + 1}
  BY <1>1, <1>2
<1>4. \A f \in Event \ {e} : effects'[f] = effects[f]
  BY <1>1, <1>2
<1>5. \A f \in Event : /\ effects'[f] <= inbox'[f].attempts
                       /\ inbox'[f].state = "absent" => inbox'[f].attempts = 0
  <2>1. effects'[e] <= inbox[e].attempts
    BY <1>2, <1>3
  <2>. QED BY <1>1, <1>4, <2>1 DEF Effects
<1>6. ASSUME NEW v \in Worker  PROVE EffectsOf(v)'
  <2>1. CASE v = w
    BY <2>1, <1>1, <1>2 DEF EffectsOf
  <2>2. CASE v # w
    <3>1. worker'[v] = worker[v] /\ EffectsOf(v)
      BY <2>2, <1>1 DEF Effects
    <3>2. CASE Running(v)
      <4>1. worker[v].event \in Event \ {e}
        BY <2>2, <3>2, <1>1, RunningIsProtected
        DEF Inv, NoSimultaneousProcessing, Running
      <4>. QED BY <3>1, <4>1, <1>4 DEF EffectsOf
    <3>3. CASE ~Running(v)
      BY <3>1, <3>3 DEF EffectsOf, Running
    <3>. QED BY <3>2, <3>3
  <2>. QED BY <2>1, <2>2
<1>. QED BY <1>5, <1>6 DEF Effects

LEMMA ClaimEffects ==
  ASSUME Inv, Effects, NEW w \in Worker, NEW e \in Event, ClaimForProcessing(w, e)
  PROVE  Effects'
<1>1. effects' = effects
  BY ClaimForm
<1>2. CASE UNCHANGED <<inbox, worker>>
  BY <1>1, <1>2, EffectsKept
<1>3. CASE /\ Claimable(inbox[e])
           /\ inbox'[e].state = "processing"
           /\ inbox'[e].attempts = inbox[e].attempts + 1
           /\ worker'[w].pc = "handling" /\ worker'[w].event = e
           /\ worker'[w].attempts = inbox[e].attempts + 1
           /\ \A f \in Event \ {e} : inbox'[f] = inbox[f]
           /\ \A v \in Worker \ {w} : worker'[v] = worker[v]
  <2>1. /\ effects[e] \in Nat /\ inbox[e].attempts \in Nat
        /\ effects[e] <= inbox[e].attempts
    BY InboxAssumption DEF Inv, TypeOK, Row, Effects
  <2>2. ASSUME NEW f \in Event
        PROVE  /\ effects'[f] <= inbox'[f].attempts
               /\ inbox'[f].state = "absent" => inbox'[f].attempts = 0
    <3>1. CASE f = e
      BY <1>1, <1>3, <2>1, <3>1
    <3>2. CASE f # e
      BY <1>1, <1>3, <3>2 DEF Effects
    <3>. QED BY <3>1, <3>2
  <2>3. ASSUME NEW v \in Worker  PROVE EffectsOf(v)'
    <3>1. CASE v = w
      BY <1>1, <1>3, <2>1, <3>1 DEF EffectsOf
    <3>2. CASE v # w
      BY <1>1, <1>3, <3>2 DEF Effects, EffectsOf
    <3>. QED BY <3>1, <3>2
  <2>. QED BY <2>2, <2>3 DEF Effects
<1>. QED BY <1>2, <1>3, ClaimForm

LEMMA DispatchForm ==
  ASSUME Inv, NEW sent \in SUBSET Event, DispatchRecoverable(sent)
  PROVE  /\ UNCHANGED <<worker, effects>>
         /\ \A e \in Event :
              /\ inbox'[e].attempts = inbox[e].attempts
              /\ Exhausted(inbox[e]) => inbox'[e].state = "failed"
              /\ ~Exhausted(inbox[e]) => inbox'[e] = inbox[e]
<1>1. /\ inbox' = [e \in Event |-> IF Exhausted(inbox[e])
                                  THEN Closed(inbox[e], "failed") ELSE inbox[e]]
      /\ UNCHANGED <<worker, effects>>
  BY DEF DispatchRecoverable
<1>2. \A e \in Event : inbox[e] \in Row
  BY DEF Inv, TypeOK
<1>. QED BY <1>1, <1>2, ClosedType DEF State

LEMMA TickForm ==
  ASSUME Inv, Tick
  PROVE  /\ effects' = effects
         /\ \A e \in Event : /\ inbox'[e].state = inbox[e].state
                             /\ inbox'[e].attempts = inbox[e].attempts
         /\ \A w \in Worker : /\ worker'[w].pc = worker[w].pc
                              /\ worker'[w].event = worker[w].event
                              /\ worker'[w].attempts = worker[w].attempts
<1>1. inbox \in [Event -> Row] /\ worker \in [Worker -> Job]
  BY DEF Inv, TypeOK
<1>2. \A e \in Event : /\ inbox'[e].state = inbox[e].state
                       /\ inbox'[e].attempts = inbox[e].attempts
  BY <1>1 DEF Tick, Row
<1>3. \A w \in Worker : /\ worker'[w].pc = worker[w].pc
                        /\ worker'[w].event = worker[w].event
                        /\ worker'[w].attempts = worker[w].attempts
  BY <1>1 DEF Tick, Job
<1>. QED BY <1>2, <1>3 DEF Tick

LEMMA StepEffects == Inv /\ Effects /\ [Next]_vars => Effects'
<1>. SUFFICES ASSUME Inv, Effects, [Next]_vars PROVE Effects'
  OBVIOUS
<1>1. ASSUME NEW e \in Event, Accept(e)  PROVE Effects'
  <2>1. /\ UNCHANGED <<worker, effects>>
        /\ \A f \in Event : /\ inbox'[f].attempts = inbox[f].attempts
                            /\ inbox'[f].state = "absent" => inbox[f].state = "absent"
    BY <1>1, AcceptForm
  <2>. QED BY <2>1, EffectsKept
<1>2. ASSUME NEW w \in Worker, WorkerStep(w)  PROVE Effects'
  <2>1. CASE CompleteActiveClaim(w) \/ RecordProcessingFailure(w)
    <3>1. /\ worker[w].event \in Event /\ inbox[worker[w].event].state = "processing"
          /\ worker' = [worker EXCEPT ![w] = Idle] /\ effects' = effects
          /\ \A f \in Event : /\ inbox'[f].attempts = inbox[f].attempts
                              /\ inbox'[f].state = "absent" => inbox[f].state = "absent"
      BY <2>1, EndForm DEF Holds
    <3>2. \A v \in Worker :
            worker'[v] = worker[v] \/ worker'[v].pc = "idle"
      BY <3>1 DEF Inv, TypeOK, Idle
    <3>. QED BY <3>1, <3>2, EffectsKept
  <2>2. CASE Crash(w)
    <3>1. \A v \in Worker :
            worker'[v] = worker[v] \/ worker'[v].pc = "idle"
      BY <2>2 DEF Crash, Inv, TypeOK, Idle
    <3>. QED BY <2>2, <3>1, EffectsKept DEF Crash
  <2>. QED BY <1>2, <2>1, <2>2, HandlerEffects DEF WorkerStep
<1>3. ASSUME NEW sent \in SUBSET Event, DispatchRecoverable(sent)  PROVE Effects'
  <2>1. /\ UNCHANGED <<worker, effects>>
        /\ \A f \in Event : /\ inbox'[f].attempts = inbox[f].attempts
                            /\ inbox'[f].state = "absent" => inbox[f].state = "absent"
    BY <1>3, DispatchForm
  <2>. QED BY <2>1, EffectsKept
<1>4. CASE Tick
  BY <1>4, TickForm, EffectsKept
<1>5. CASE LoseQueue \/ UNCHANGED vars
  BY <1>5, EffectsKept DEF LoseQueue, vars
<1>. QED BY <1>1, <1>2, <1>3, <1>4, <1>5, ClaimEffects DEF Next

-----------------------------------------------------------------------------
stages == [e \in Event |-> StageOf(inbox[e])]

attempts == [e \in Event |-> inbox[e].attempts]

LEMMA Stages ==
  ASSUME NEW row
  PROVE  /\ row.state = "absent" => StageOf(row) = "absent"
         /\ row.state \in {"received", "processing"} => StageOf(row) = "open"
         /\ row.state = "completed" => StageOf(row) = "done"
         /\ row.state = "failed" => StageOf(row) = "dead"
BY DEF StageOf

\* Steps DurableInbox does not see.
LEMMA Unseen ==
  ASSUME effects' = effects,
         \A e \in Event : /\ StageOf(inbox'[e]) = StageOf(inbox[e])
                          /\ inbox'[e].attempts = inbox[e].attempts
  PROVE  UNCHANGED Durable!vars
<1>1. stages' = stages /\ attempts' = attempts
  BY DEF stages, attempts
<1>. QED BY <1>1 DEF Durable!vars, stages, attempts

\* A step at one event.
LEMMA OnlyOne ==
  ASSUME NEW e \in Event, \A f \in Event \ {e} : inbox'[f] = inbox[f]
  PROVE  /\ stages' = [stages EXCEPT ![e] = StageOf(inbox'[e])]
         /\ attempts' = [attempts EXCEPT ![e] = inbox'[e].attempts]
         /\ StageOf(inbox'[e]) = StageOf(inbox[e]) => stages' = stages
         /\ inbox'[e].attempts = inbox[e].attempts => attempts' = attempts
BY DEF stages, attempts

LEMMA AcceptIsPromised ==
  ASSUME Inv, Effects, NEW e \in Event, Accept(e)
  PROVE  Durable!Next \/ UNCHANGED Durable!vars
<1>1. /\ UNCHANGED <<worker, effects>>
      /\ inbox'[e].attempts = inbox[e].attempts
      /\ \/ inbox' = inbox
         \/ inbox[e].state = "absent" /\ inbox'[e].state = "received"
      /\ \A f \in Event \ {e} : inbox'[f] = inbox[f]
  BY AcceptForm
<1>2. CASE inbox' = inbox
  BY <1>1, <1>2, Unseen
<1>3. CASE inbox[e].state = "absent" /\ inbox'[e].state = "received"
  <2>1. stages[e] = "absent" /\ stages' = [stages EXCEPT ![e] = "open"] /\ attempts' = attempts
    BY <1>1, <1>3, Stages, OnlyOne DEF stages
  <2>2. Durable!Accept(e)
    BY <1>1, <2>1 DEF Durable!Accept, stages, attempts
  <2>. QED BY <2>2 DEF Durable!Next
<1>. QED BY <1>1, <1>2, <1>3

LEMMA ClaimIsPromised ==
  ASSUME Inv, Effects, NEW w \in Worker, NEW e \in Event, ClaimForProcessing(w, e)
  PROVE  Durable!Next \/ UNCHANGED Durable!vars
<1>1. effects' = effects
  BY ClaimForm
<1>2. CASE UNCHANGED <<inbox, worker>>
  BY <1>1, <1>2, Unseen
<1>3. CASE /\ Claimable(inbox[e]) /\ inbox'[e].state = "processing"
           /\ inbox'[e].attempts = inbox[e].attempts + 1
           /\ \A f \in Event \ {e} : inbox'[f] = inbox[f]
  <2>1. inbox[e].state \in {"received", "processing"} /\ inbox[e].attempts < MaxAttempts
    BY <1>3 DEF Claimable, ExpiredClaim
  <2>2. /\ stages[e] = "open" /\ stages' = stages
        /\ attempts[e] < MaxAttempts
        /\ attempts' = [attempts EXCEPT ![e] = @ + 1]
    BY <1>3, <2>1, Stages, OnlyOne DEF stages, attempts
  <2>3. Durable!Try(e)
    BY <1>1, <2>2 DEF Durable!Try, stages, attempts
  <2>. QED BY <2>3 DEF Durable!Next
<1>. QED BY <1>2, <1>3, ClaimForm

LEMMA WorkerStepIsPromised ==
  ASSUME Inv, Effects, NEW w \in Worker, WorkerStep(w)
  PROVE  Durable!Next \/ UNCHANGED Durable!vars
<1>. DEFINE e == worker[w].event
<1>1. CASE HandlerReturns(w) \/ HandlerThrows(w)
  <2>1. /\ worker[w].pc = "handling" /\ Holds(w) /\ e \in Event /\ inbox' = inbox
        /\ effects' = effects \/ effects' = [effects EXCEPT ![e] = @ + 1]
    BY <1>1, HandlerForm
  <2>2. CASE effects' = effects
    BY <2>1, <2>2, Unseen
  <2>3. CASE effects' = [effects EXCEPT ![e] = @ + 1]
    <3>1. /\ stages[e] = "open" /\ effects[e] < attempts[e]
          /\ stages' = stages /\ attempts' = attempts
      BY <2>1, Stages DEF stages, attempts, Holds, Effects, EffectsOf
    <3>2. Durable!Execute(e)
      BY <2>3, <3>1 DEF Durable!Execute, stages, attempts
    <3>. QED BY <2>1, <3>2 DEF Durable!Next
  <2>. QED BY <2>1, <2>2, <2>3
<1>2. CASE CompleteActiveClaim(w) \/ RecordProcessingFailure(w)
  <2>1. /\ Holds(w) /\ e \in Event /\ effects' = effects
        /\ inbox'[e].attempts = inbox[e].attempts
        /\ \/ inbox'[e].state = inbox[e].state
           \/ /\ worker[w].pc = "handled" /\ inbox'[e].state = "completed"
           \/ /\ worker[w].pc = "thrown"
              /\ \/ inbox'[e].state = "received"
                 \/ inbox'[e].state = "failed" /\ inbox[e].attempts = MaxAttempts
        /\ \A f \in Event \ {e} : inbox'[f] = inbox[f]
    BY <1>2, EndForm
  <2>2. inbox[e].state = "processing" /\ stages[e] = "open" /\ attempts' = attempts
    BY <2>1, Stages, OnlyOne DEF Holds, stages
  <2>3. CASE inbox'[e].state = inbox[e].state \/ inbox'[e].state = "received"
    <3>1. StageOf(inbox'[e]) = StageOf(inbox[e])
      BY <2>2, <2>3, Stages
    <3>. QED BY <2>1, <3>1, Unseen
  <2>4. CASE worker[w].pc = "handled" /\ inbox'[e].state = "completed"
    <3>1. effects[e] > 0 /\ stages' = [stages EXCEPT ![e] = "done"]
      BY <2>1, <2>4, Stages, OnlyOne DEF Effects, EffectsOf
    <3>2. Durable!Finish(e)
      BY <2>1, <2>2, <3>1 DEF Durable!Finish, stages, attempts
    <3>. QED BY <2>1, <3>2 DEF Durable!Next
  <2>5. CASE inbox'[e].state = "failed" /\ inbox[e].attempts = MaxAttempts
    <3>1. stages' = [f \in Event |-> IF f \in {e} THEN "dead" ELSE stages[f]]
      BY <2>1, <2>5, Stages, OnlyOne DEF stages
    <3>2. attempts[e] = MaxAttempts
      BY <2>1, <2>5 DEF attempts
    <3>3. Durable!GiveUp({e})
      BY <2>1, <2>2, <3>1, <3>2 DEF Durable!GiveUp, stages, attempts
    <3>. QED BY <2>1, <3>3 DEF Durable!Next
  <2>. QED BY <2>1, <2>3, <2>4, <2>5
<1>3. CASE Crash(w)
  BY <1>3, Unseen DEF Crash
<1>. QED BY <1>1, <1>2, <1>3 DEF WorkerStep

LEMMA DispatchIsPromised ==
  ASSUME Inv, Effects, NEW sent \in SUBSET Event, DispatchRecoverable(sent)
  PROVE  Durable!Next \/ UNCHANGED Durable!vars
<1>. DEFINE S == {e \in Event : Exhausted(inbox[e])}
<1>1. /\ effects' = effects
      /\ \A e \in Event :
           /\ inbox'[e].attempts = inbox[e].attempts
           /\ Exhausted(inbox[e]) => inbox'[e].state = "failed"
           /\ ~Exhausted(inbox[e]) => inbox'[e] = inbox[e]
  BY DispatchForm
<1>2. CASE S = {}
  BY <1>1, <1>2, Unseen
<1>3. CASE S # {}
  <2>1. \A e \in S : stages[e] = "open" /\ attempts[e] = MaxAttempts
    <3>. SUFFICES ASSUME NEW e \in S  PROVE stages[e] = "open" /\ attempts[e] = MaxAttempts
      OBVIOUS
    <3>1. inbox[e].state = "processing" /\ inbox[e].attempts >= MaxAttempts
      BY DEF Exhausted, ExpiredClaim
    <3>2. inbox[e].attempts \in 0..MaxAttempts
      BY DEF Inv, TypeOK, Row
    <3>. QED BY <3>1, <3>2, Stages, InboxAssumption DEF stages, attempts
  <2>2. /\ stages' = [e \in Event |-> IF e \in S THEN "dead" ELSE stages[e]]
        /\ attempts' = attempts
    BY <1>1, Stages DEF stages, attempts
  <2>. HIDE DEF S
  <2>3. Durable!GiveUp(S)
    BY <1>1, <1>3, <2>1, <2>2 DEF Durable!GiveUp, stages, attempts
  <2>4. S \in SUBSET Event
    BY DEF S
  <2>. QED BY <2>3, <2>4 DEF Durable!Next
<1>. QED BY <1>2, <1>3

\* The inbox keeps the promises of DurableInbox, whatever crashes, is claimed
\* twice or comes late: an event acts at most once per attempt and only while
\* it is open, and it is closed as done only after it acted, as dead only when
\* its attempts are spent.
THEOREM PromisesKept == Spec => ImplementsDurableInbox
<1>1. Init => Durable!Init
  BY Stages DEF Init, Durable!Init, NoRow
<1>2. Inv /\ Effects /\ [Next]_vars => [Durable!Next]_Durable!vars
  <2>. SUFFICES ASSUME Inv, Effects, [Next]_vars
                PROVE  Durable!Next \/ UNCHANGED Durable!vars
    OBVIOUS
  <2>1. CASE Tick
    <3>1. \A e \in Event : StageOf(inbox'[e]) = StageOf(inbox[e])
      BY <2>1, TickForm DEF StageOf
    <3>. QED BY <2>1, <3>1, TickForm, Unseen
  <2>2. CASE LoseQueue \/ UNCHANGED vars
    BY <2>2, Unseen DEF LoseQueue, vars
  <2>. QED BY <2>1, <2>2, AcceptIsPromised, ClaimIsPromised, WorkerStepIsPromised,
           DispatchIsPromised DEF Next
<1>. QED BY <1>1, <1>2, InitEffects, StepEffects, Invariance, PTL
         DEF Spec, ImplementsDurableInbox, Durable!Spec
=============================================================================
