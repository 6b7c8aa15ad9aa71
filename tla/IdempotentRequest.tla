------------------------- MODULE IdempotentRequest -------------------------
(***************************************************************************)
(* A submit button and the server behind it: the client's helper           *)
(* createIdempotentRequest, which names a submission with a key and keeps  *)
(* the key while the outcome is unknown, and the middleware Idempotent     *)
(* (the package and the patch this repository applies to it), which runs a *)
(* key's request under a lock and replays the answer it has stored.        *)
(*                                                                         *)
(* A request is what getKey compares and the middleware fingerprints:      *)
(* method, URL and data.  One helper belongs to one form; one user.        *)
(***************************************************************************)
EXTENDS Naturals, FiniteSets

CONSTANTS
  Request,      \* what the user may submit
  Key,          \* idempotency keys (UUIDs; one is used again once nothing names it)
  Call,         \* calls of the client that may be under way at once
  Null,
  LockTimeout,  \* config idempotency.lock_timeout (90 seconds)
  RequestTime,  \* the longest a handler takes
  Patient,      \* the user waits for an answer before the form is closed
  MaxFaults     \* bound on lost answers, dead processes, server errors and evictions

Answers == {"ok", "conflict", "mismatch", "refused", "error", "none"}

ASSUME RequestAssumption ==
  /\ LockTimeout \in Nat /\ RequestTime \in Nat
  /\ RequestTime < LockTimeout
  /\ Patient \in BOOLEAN
  /\ MaxFaults \in Nat
  /\ Null \notin Request /\ Null \notin Key /\ Null \notin Call /\ Null \notin Answers

VARIABLES
  helper,   \* activeKey and activeRequest
  call,     \* every call: its request and key, where the server is with it
  lock,     \* the middleware's lock per key
  stored,   \* the request whose answer is stored under a key, or Null
  user,     \* what has become of the submission of every request
  effects,  \* history: times the handler has taken effect
  excused,  \* history: something happened that no key can make up for
  faults

vars == <<helper, call, lock, stored, user, effects, excused, faults>>

Orphan == "orphan"   \* the holder of a lock whose process has died

\* The server's steps with a call; "ended" when its answer is on the way.
Running == {"locked", "running", "committed"}
AtServer == {"arrived", "missed"} \cup Running

CallState == [at: {"idle", "ended"} \cup AtServer,
              request: Request \cup {Null}, key: Key \cup {Null},
              answer: Answers \cup {Null},
              waiting: BOOLEAN, age: 0..RequestTime]

NoCall == [at |-> "idle", request |-> Null, key |-> Null, answer |-> Null,
           waiting |-> FALSE, age |-> 0]

Unlocked == [holder |-> Null, left |-> 0]

\* A lock that is held has time left.
TypeOK ==
  /\ \A k \in Key : lock[k].holder # Null => lock[k].left > 0
  /\ helper \in [key: Key \cup {Null}, request: Request \cup {Null}]
  /\ call \in [Call -> CallState]
  /\ lock \in [Key -> [holder: Call \cup {Null, Orphan}, left: 0..LockTimeout]]
  /\ stored \in [Key -> Request \cup {Null}]
  /\ user \in [Request -> {"idle", "trying", "served", "refused", "left"}]
  /\ effects \in [Request -> Nat]
  /\ excused \in [Request -> BOOLEAN]
  /\ faults \in 0..MaxFaults

Init ==
  /\ helper = [key |-> Null, request |-> Null]
  /\ call = [c \in Call |-> NoCall]
  /\ lock = [k \in Key |-> Unlocked]
  /\ stored = [k \in Key |-> Null]
  /\ user = [r \in Request |-> "idle"]
  /\ effects = [r \in Request |-> 0]
  /\ excused = [r \in Request |-> FALSE]
  /\ faults = 0

-----------------------------------------------------------------------------
(* The client: IdempotencyRequestService.js.                               *)

NoKey == [key |-> Null, request |-> Null]

Waiting(r) == \E c \in Call : call[c].waiting /\ call[c].request = r

\* A key that createIdempotencyKey may draw: nothing names it any more.
Fresh(k) ==
  /\ k # helper.key
  /\ \A c \in Call : call[c].key # k
  /\ lock[k] = Unlocked

\* A variant of getKey that takes the active key whatever is asked for.
KeepsAnyKey(r, k) ==
  IF helper.key # Null THEN k = helper.key ELSE Fresh(k)

\* getKey: the active key for the active request, a new one for any other.
GetKey(r, k) ==
  IF helper.request = r /\ helper.key # Null THEN k = helper.key ELSE Fresh(k)

\* send, up to the call.  The form holds r now; another request the user was
\* trying is given up.  What was stored under a key drawn anew is unreachable.
Send(c, r) ==
  /\ call[c].at = "idle" /\ ~call[c].waiting
  /\ user[r] \in {"idle", "trying"}
  /\ \A q \in Request \ {r} : Patient => ~Waiting(q)
  /\ \E k \in Key :
       /\ GetKey(r, k)
       /\ helper' = [key |-> k, request |-> r]
       /\ call' = [call EXCEPT ![c] = [NoCall EXCEPT !.at = "arrived", !.request = r,
                                                     !.key = k, !.waiting = TRUE]]
       /\ stored' = IF k = helper.key THEN stored ELSE [stored EXCEPT ![k] = Null]
  /\ user' = [q \in Request |-> IF q = r THEN "trying"
                                ELSE IF user[q] = "trying" THEN "left" ELSE user[q]]
  /\ UNCHANGED <<lock, effects, excused, faults>>

\* The form is closed: reset.
Close(r) ==
  /\ user[r] = "trying"
  /\ Patient => ~Waiting(r)
  /\ user' = [user EXCEPT ![r] = "left"]
  /\ helper' = NoKey
  /\ UNCHANGED <<call, lock, stored, effects, excused, faults>>

\* A variant of shouldReuseKey that forgets the key of a conflict.
ReusesAfterNoAnswerOnly(answer) == answer = "none"

ShouldReuseKey(answer) == answer \in {"none", "conflict"}

\* The promise of a call settles; send resets the helper unless the key is to
\* be used again.  The user stops when a call succeeded or was refused.
Settle(c) ==
  LET r == call[c].request
      answer == call[c].answer IN
  /\ call[c].at = "ended" /\ call[c].waiting
  /\ helper' = IF ShouldReuseKey(answer) THEN helper ELSE NoKey
  /\ user' = [user EXCEPT ![r] =
       CASE @ = "trying" /\ answer = "ok" -> "served"
         [] @ = "trying" /\ answer \in {"refused", "mismatch"} -> "refused"
         [] OTHER -> @]
  /\ excused' = [excused EXCEPT ![r] = @ \/ answer = "error"]
  /\ call' = [call EXCEPT ![c] = NoCall]
  /\ UNCHANGED <<lock, stored, effects, faults>>

\* The client gets no answer; whatever the server is doing, it goes on.
LoseAnswer(c) ==
  /\ call[c].waiting /\ faults < MaxFaults
  /\ call' = [call EXCEPT ![c] = IF @.at = "ended" THEN NoCall
                                 ELSE [@ EXCEPT !.waiting = FALSE]]
  /\ faults' = faults + 1
  /\ UNCHANGED <<helper, lock, stored, user, effects, excused>>

-----------------------------------------------------------------------------
(* The server: Idempotent::handle.                                         *)

Answered(c, answer) ==
  call' = [call EXCEPT ![c] = IF @.waiting
                              THEN [@ EXCEPT !.at = "ended", !.answer = answer, !.age = 0]
                              ELSE NoCall]

\* release() leaves the lock alone once it is another owner's.
Release(c) ==
  lock' = [k \in Key |-> IF lock[k].holder = c THEN Unlocked ELSE lock[k]]

\* The stored answer to the same request is replayed, to another one refused.
Replay(c) ==
  LET found == stored[call[c].key] IN
  Answered(c, IF found = call[c].request THEN "ok" ELSE "mismatch")

\* What stands before the middleware turns the call away (throttling,
\* authentication, maintenance): the key is dropped although nothing is known.
TurnAway(c) ==
  /\ call[c].at = "arrived" /\ faults < MaxFaults
  /\ Answered(c, "error")
  /\ faults' = faults + 1
  /\ UNCHANGED <<helper, lock, stored, user, effects, excused>>

CheckStored(c) ==
  /\ call[c].at = "arrived"
  /\ IF stored[call[c].key] # Null
     THEN Replay(c)
     ELSE call' = [call EXCEPT ![c].at = "missed"]
  /\ UNCHANGED <<helper, lock, stored, user, effects, excused, faults>>

\* The lock as the package takes it without the patch: 10 seconds.
LockTakenBriefly(c) == [holder |-> c, left |-> RequestTime]

LockTaken(c) == [holder |-> c, left |-> LockTimeout]

AcquireLock(c) ==
  LET k == call[c].key IN
  /\ call[c].at = "missed"
  /\ IF lock[k].holder = Null
     THEN /\ lock' = [lock EXCEPT ![k] = LockTaken(c)]
          /\ call' = [call EXCEPT ![c].at = "locked"]
     ELSE Answered(c, "conflict") /\ UNCHANGED lock
  /\ UNCHANGED <<helper, stored, user, effects, excused, faults>>

Recheck(c) ==
  /\ call[c].at = "locked"
  /\ IF stored[call[c].key] # Null
     THEN Replay(c) /\ Release(c)
     ELSE call' = [call EXCEPT ![c].at = "running"] /\ UNCHANGED lock
  /\ UNCHANGED <<helper, stored, user, effects, excused, faults>>

\* $next($request): the handler commits its effect, ...
HandlerCommits(c) ==
  /\ call[c].at = "running"
  /\ call' = [call EXCEPT ![c].at = "committed"]
  /\ effects' = [effects EXCEPT ![call[c].request] = @ + 1]
  /\ UNCHANGED <<helper, lock, stored, user, excused, faults>>

\* ... refuses the request, ...
HandlerRefuses(c) ==
  /\ call[c].at = "running"
  /\ Answered(c, "refused") /\ Release(c)
  /\ UNCHANGED <<helper, stored, user, effects, excused, faults>>

\* ... or fails, before or after its effect.
HandlerFails(c) ==
  /\ call[c].at = "running" /\ faults < MaxFaults
  /\ \E done \in BOOLEAN :
       /\ effects' = [effects EXCEPT ![call[c].request] = IF done THEN @ + 1 ELSE @]
       /\ excused' = [excused EXCEPT ![call[c].request] = @ \/ done]
  /\ Answered(c, "error") /\ Release(c)
  /\ faults' = faults + 1
  /\ UNCHANGED <<helper, stored, user>>

StoreResponse(c) ==
  /\ call[c].at = "committed"
  /\ stored' = [stored EXCEPT ![call[c].key] = call[c].request]
  /\ Answered(c, "ok") /\ Release(c)
  /\ UNCHANGED <<helper, user, effects, excused, faults>>

\* The process dies: its lock stays until it times out.
Crash(c) ==
  /\ call[c].at \in AtServer /\ faults < MaxFaults
  /\ Answered(c, "none")
  /\ lock' = [k \in Key |-> IF lock[k].holder = c
                            THEN [lock[k] EXCEPT !.holder = Orphan] ELSE lock[k]]
  /\ excused' = [excused EXCEPT ![call[c].request] = @ \/ call[c].at = "committed"]
  /\ faults' = faults + 1
  /\ UNCHANGED <<helper, stored, user, effects>>

\* The stored answer reaches its TTL, or the cache is lost.
Forget(k) ==
  /\ stored[k] # Null /\ faults < MaxFaults
  /\ stored' = [stored EXCEPT ![k] = Null]
  /\ excused' = [excused EXCEPT ![stored[k]] = TRUE]
  /\ faults' = faults + 1
  /\ UNCHANGED <<helper, call, lock, user, effects>>

-----------------------------------------------------------------------------
(* Time.                                                                   *)

\* A variant in which a lock never times out.
NeverExpires(entry) == entry

\* A variant that frees a lock one unit too late.
AgedTooLong(entry) ==
  IF entry.left = 0 THEN Unlocked ELSE [entry EXCEPT !.left = @ - 1]

\* One unit less of a lock; it is free when nothing is left.
Aged(entry) ==
  IF entry.left <= 1 THEN Unlocked ELSE [entry EXCEPT !.left = @ - 1]

Tick ==
  /\ \E k \in Key : lock[k].holder # Null
  /\ \A c \in Call : call[c].at \in Running => call[c].age < RequestTime
  /\ lock' = [k \in Key |-> IF lock[k].holder = Null THEN lock[k] ELSE Aged(lock[k])]
  /\ call' = [c \in Call |-> IF call[c].at \in Running
                             THEN [call[c] EXCEPT !.age = @ + 1] ELSE call[c]]
  /\ UNCHANGED <<helper, stored, user, effects, excused, faults>>

ServerStep(c) ==
  \/ CheckStored(c) \/ AcquireLock(c) \/ Recheck(c)
  \/ HandlerCommits(c) \/ HandlerRefuses(c) \/ StoreResponse(c)

Fault(c) == LoseAnswer(c) \/ TurnAway(c) \/ HandlerFails(c) \/ Crash(c)

UserStep == \E r \in Request : Close(r) \/ \E c \in Call : Send(c, r)

Next ==
  \/ UserStep
  \/ \E c \in Call : Settle(c) \/ ServerStep(c) \/ Fault(c)
  \/ \E k \in Key : Forget(k)
  \/ Tick

Spec == Init /\ [][Next]_vars

\* A user without an answer submits again.
Retry(r) == user[r] = "trying" /\ ~Waiting(r) /\ \E c \in Call : Send(c, r)

Fairness ==
  /\ \A c \in Call : WF_vars(Settle(c)) /\ WF_vars(ServerStep(c))
  /\ \A r \in Request : WF_vars(Retry(r))
  /\ SF_vars(Tick)

FairSpec == Spec /\ Fairness

-----------------------------------------------------------------------------
(* Properties.                                                             *)

\* No request takes effect twice, however often its button is pressed and its
\* answer lost, unless the user was shown a server error, the process died between
\* the effect and the stored answer, or that answer was forgotten.
TakesEffectOnce == \A r \in Request : effects[r] > 1 => excused[r]

\* The handler of one key never runs twice at once.
OneRunPerKey ==
  \A c, d \in Call :
    c # d /\ call[c].at \in Running /\ call[d].at \in Running
      => call[c].key # call[d].key

\* The client never sends a key with two different requests: nobody is told
\* "Idempotency key already used with different request parameters".
NeverMismatched ==
  \A c \in Call : /\ call[c].answer # "mismatch"
                  /\ call[c].at = "running" => stored[call[c].key] = Null

\* A user who keeps trying is served or refused in the end, although a dead
\* process may hold the lock of the key.
SubmitIsAnswered ==
  \A r \in Request : user[r] = "trying" ~> user[r] # "trying"
=============================================================================
