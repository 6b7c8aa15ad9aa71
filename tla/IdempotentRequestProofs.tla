---------------------- MODULE IdempotentRequestProofs ----------------------
(***************************************************************************)
(* For any number of forms' contents, keys and calls, and as long as a     *)
(* handler takes less time than the lock of its key lives: the handler of  *)
(* one key never runs twice at once, no key is used for two requests, and  *)
(* for a user who waits for the answer a request takes effect once.        *)
(*                                                                         *)
(* The argument has three layers.  A running call holds the lock of its    *)
(* key, and the age of the call and what is left of the lock add up to     *)
(* LockTimeout at least.  A key belongs to one request wherever it occurs. *)
(* While a user tries a request, the helper and all its calls have one key *)
(* between them; once the request has taken effect, an answer is stored    *)
(* under that key, or the call that had the effect still holds its lock.   *)
(***************************************************************************)
EXTENDS IdempotentRequest, TLAPS

-----------------------------------------------------------------------------
(* Types.                                                                  *)

\* An idle call names nothing; any other has a request and a key.
CallsNamed ==
  \A c \in Call :
    /\ call[c].at = "idle" => call[c] = NoCall
    /\ call[c].at # "idle" => call[c].request \in Request /\ call[c].key \in Key
    /\ call[c].at = "ended" => call[c].answer \in Answers

HelperNamed == helper.key = Null <=> helper.request = Null

Typed == TypeOK /\ CallsNamed /\ HelperNamed

LEMMA InitTyped == Init => Typed
  BY RequestAssumption
  DEF Init, Typed, TypeOK, CallsNamed, HelperNamed, CallState, NoCall, Unlocked,
      Running, AtServer

\* What answering a call does to its record.
LEMMA AnsweredType ==
  ASSUME Typed, NEW c \in Call, call[c].at # "idle",
         NEW answer \in Answers,
         Answered(c, answer)
  PROVE  /\ call' \in [Call -> CallState]
         /\ CallsNamed'
         /\ \A d \in Call : d # c => call'[d] = call[d]
         /\ \/ call'[c] = NoCall
            \/ /\ call'[c].at = "ended"
               /\ call'[c].request = call[c].request /\ call'[c].key = call[c].key
               /\ call'[c].answer = answer /\ call'[c].waiting = call[c].waiting
<1>. DEFINE new == IF call[c].waiting
                   THEN [call[c] EXCEPT !.at = "ended", !.answer = answer, !.age = 0]
                   ELSE NoCall
<1>1. call[c] \in CallState /\ call[c].request \in Request /\ call[c].key \in Key
  BY DEF Typed, TypeOK, CallsNamed
<1>2. call' = [call EXCEPT ![c] = new]
  BY DEF Answered
<1>3. \/ new = NoCall
      \/ /\ call[c].waiting
         /\ new = [call[c] EXCEPT !.at = "ended", !.answer = answer, !.age = 0]
  OBVIOUS
<1>. HIDE DEF new
<1>4. /\ new \in CallState
      /\ \/ new = NoCall
         \/ /\ new.at = "ended"
            /\ new.request = call[c].request /\ new.key = call[c].key
            /\ new.answer = answer /\ new.waiting = call[c].waiting
  <2>1. CASE new = NoCall
    BY <2>1, RequestAssumption DEF CallState, NoCall
  <2>2. CASE new = [call[c] EXCEPT !.at = "ended", !.answer = answer, !.age = 0]
    <3>1. new = [at |-> "ended", request |-> call[c].request, key |-> call[c].key,
                 answer |-> answer, waiting |-> call[c].waiting, age |-> 0]
      BY <1>1, <2>2 DEF CallState
    <3>2. "ended" \in {"idle", "ended"} \cup AtServer /\ 0 \in 0..RequestTime
          /\ call[c].waiting \in BOOLEAN
      BY <1>1, RequestAssumption DEF CallState
    <3>. QED BY <1>1, <3>1, <3>2 DEF CallState
  <2>. QED BY <1>3, <2>1, <2>2
<1>5. call' \in [Call -> CallState] /\ call'[c] = new
      /\ \A d \in Call : d # c => call'[d] = call[d]
  BY <1>2, <1>4 DEF Typed, TypeOK
<1>. QED
  BY <1>1, <1>4, <1>5, RequestAssumption DEF Typed, CallsNamed, NoCall

LEMMA MovedType ==
  ASSUME Typed, NEW c \in Call, call[c].at # "idle", NEW at \in AtServer,
         call' = [call EXCEPT ![c].at = at]
  PROVE  call' \in [Call -> CallState] /\ CallsNamed'
<1>1. call[c] \in CallState /\ call[c].request \in Request /\ call[c].key \in Key
  BY DEF Typed, TypeOK, CallsNamed
<1>2. call'[c] = [call[c] EXCEPT !.at = at]
  BY DEF Typed, TypeOK
<1>3. /\ call'[c] \in CallState /\ call'[c].at = at
      /\ call'[c].request = call[c].request /\ call'[c].key = call[c].key
  BY <1>1, <1>2 DEF CallState
<1>4. at \notin {"idle", "ended"}
  BY DEF AtServer, Running
<1>. QED
  BY <1>1, <1>3, <1>4 DEF Typed, TypeOK, CallsNamed

LEMMA TypedStep == Typed /\ [Next]_vars => Typed'
<1>. SUFFICES ASSUME Typed, [Next]_vars PROVE Typed'
  OBVIOUS
<1>. USE RequestAssumption
<1>1. ASSUME NEW r \in Request, NEW c \in Call, Send(c, r) PROVE Typed'
  <2>1. PICK k \in Key :
          /\ GetKey(r, k)
          /\ helper' = [key |-> k, request |-> r]
          /\ call' = [call EXCEPT ![c] = [NoCall EXCEPT !.at = "arrived", !.request = r,
                                                        !.key = k, !.waiting = TRUE]]
          /\ stored' = IF k = helper.key THEN stored ELSE [stored EXCEPT ![k] = Null]
    BY <1>1 DEF Send
  <2>. DEFINE new == [NoCall EXCEPT !.at = "arrived", !.request = r,
                                    !.key = k, !.waiting = TRUE]
  <2>2. /\ NoCall \in CallState /\ "arrived" \in AtServer
        /\ NoCall.at = "idle" /\ NoCall.answer = Null /\ NoCall.age = 0
    BY DEF NoCall, CallState, AtServer
  <2>3. /\ new \in CallState
        /\ new.at = "arrived" /\ new.request = r /\ new.key = k
    BY <2>2 DEF CallState
  <2>. HIDE DEF new
  <2>4. call' \in [Call -> CallState] /\ CallsNamed'
    BY <2>1, <2>3 DEF Typed, TypeOK, CallsNamed, new
  <2>. QED BY <1>1, <2>1, <2>4 DEF Typed, TypeOK, HelperNamed, Send
<1>2. ASSUME NEW r \in Request, Close(r) PROVE Typed'
  BY <1>2 DEF Close, Typed, TypeOK, CallsNamed, HelperNamed, NoKey
<1>3. ASSUME NEW c \in Call, Settle(c) PROVE Typed'
  <2>1. call' \in [Call -> CallState] /\ CallsNamed'
    <3>1. NoCall \in CallState /\ NoCall.at = "idle"
      BY DEF NoCall, CallState
    <3>. QED BY <1>3, <3>1 DEF Settle, Typed, TypeOK, CallsNamed
  <2>2. call[c].request \in Request
    BY <1>3 DEF Settle, Typed, CallsNamed
  <2>3. user' \in [Request -> {"idle", "trying", "served", "refused", "left"}]
        /\ excused' \in [Request -> BOOLEAN]
    BY <1>3, <2>2 DEF Settle, Typed, TypeOK
  <2>4. helper' \in [key: Key \cup {Null}, request: Request \cup {Null}] /\ HelperNamed'
    BY <1>3 DEF Settle, Typed, TypeOK, HelperNamed, NoKey
  <2>. QED BY <1>3, <2>1, <2>3, <2>4 DEF Settle, Typed, TypeOK
<1>4. ASSUME NEW c \in Call, LoseAnswer(c) PROVE Typed'
  <2>1. /\ call[c] \in CallState /\ call[c].at # "idle"
        /\ call[c].request \in Request /\ call[c].key \in Key
    BY <1>4 DEF LoseAnswer, Typed, TypeOK, CallsNamed, NoCall
  <2>. DEFINE new == [call[c] EXCEPT !.waiting = FALSE]
  <2>2. new \in CallState /\ new.at = call[c].at /\ new.answer = call[c].answer
        /\ new.request = call[c].request /\ new.key = call[c].key
    BY <2>1 DEF CallState
  <2>3. call' = [call EXCEPT ![c] = NoCall] \/ call' = [call EXCEPT ![c] = new]
    BY <1>4 DEF LoseAnswer, Typed, TypeOK
  <2>. HIDE DEF new
  <2>4. NoCall \in CallState /\ NoCall.at = "idle"
    BY DEF NoCall, CallState
  <2>5. call' \in [Call -> CallState] /\ CallsNamed'
    BY <2>1, <2>2, <2>3, <2>4 DEF Typed, TypeOK, CallsNamed
  <2>. QED BY <1>4, <2>5 DEF LoseAnswer, Typed, TypeOK, HelperNamed
<1>5. ASSUME NEW c \in Call, Release(c) PROVE
        /\ lock' \in [Key -> [holder: Call \cup {Null, Orphan}, left: 0..LockTimeout]]
        /\ \A k \in Key : lock'[k].holder # Null => lock'[k].left > 0
  BY <1>5 DEF Release, Typed, TypeOK, Unlocked
<1>6. ASSUME NEW c \in Call, call[c].at # "idle", UNCHANGED <<helper, stored, user, excused>>,
             NEW answer \in Answers, Answered(c, answer),
             Release(c) \/ UNCHANGED lock,
             effects' \in [Request -> Nat], faults' \in 0..MaxFaults
      PROVE  Typed'
  <2>1. call' \in [Call -> CallState] /\ CallsNamed'
    BY <1>6, AnsweredType
  <2>. QED BY <1>5, <1>6, <2>1 DEF Typed, TypeOK, HelperNamed
<1>7. ASSUME NEW c \in Call, Replay(c), call[c].at # "idle",
             UNCHANGED <<helper, stored, user, excused, effects, faults>>,
             Release(c) \/ UNCHANGED lock
      PROVE  Typed'
  <2>1. effects' \in [Request -> Nat] /\ faults' \in 0..MaxFaults
    BY <1>7 DEF Typed, TypeOK
  <2>2. Answered(c, "ok") \/ Answered(c, "mismatch")
    BY <1>7 DEF Replay
  <2>. QED BY <1>6, <1>7, <2>1, <2>2 DEF Answers
<1>8. ASSUME NEW c \in Call, TurnAway(c) PROVE Typed'
  <2>1. call[c].at # "idle" /\ "error" \in Answers
    BY <1>8 DEF TurnAway, Answers
  <2>2. effects' \in [Request -> Nat] /\ faults' \in 0..MaxFaults
    BY <1>8 DEF TurnAway, Typed, TypeOK
  <2>. QED BY <1>6, <1>8, <2>1, <2>2 DEF TurnAway
<1>9. ASSUME NEW c \in Call, CheckStored(c) PROVE Typed'
  <2>1. call[c].at # "idle" /\ "missed" \in AtServer
    BY <1>9 DEF CheckStored, AtServer
  <2>2. CASE Replay(c)
    BY <1>7, <1>9, <2>1, <2>2 DEF CheckStored
  <2>3. CASE call' = [call EXCEPT ![c].at = "missed"]
    <3>1. call' \in [Call -> CallState] /\ CallsNamed'
      BY <2>1, <2>3, MovedType
    <3>. QED BY <1>9, <3>1 DEF CheckStored, Typed, TypeOK, HelperNamed
  <2>. QED BY <1>9, <2>2, <2>3 DEF CheckStored
<1>10. ASSUME NEW c \in Call, AcquireLock(c) PROVE Typed'
  <2>1. /\ call[c].at # "idle" /\ "locked" \in AtServer /\ call[c].key \in Key
        /\ "conflict" \in Answers
    BY <1>10 DEF AcquireLock, AtServer, Running, Typed, CallsNamed, Answers
  <2>2. CASE Answered(c, "conflict") /\ UNCHANGED lock
    <3>1. effects' \in [Request -> Nat] /\ faults' \in 0..MaxFaults
      BY <1>10 DEF AcquireLock, Typed, TypeOK
    <3>. QED BY <1>6, <1>10, <2>1, <2>2, <3>1 DEF AcquireLock
  <2>3. CASE /\ lock' = [lock EXCEPT ![call[c].key] = LockTaken(c)]
             /\ call' = [call EXCEPT ![c].at = "locked"]
    <3>1. call' \in [Call -> CallState] /\ CallsNamed'
      BY <2>1, <2>3, MovedType
    <3>2. LockTimeout > 0
      OBVIOUS
    <3>. QED
      BY <1>10, <2>1, <2>3, <3>1, <3>2 DEF AcquireLock, LockTaken, Typed, TypeOK, HelperNamed
  <2>. QED BY <1>10, <2>2, <2>3 DEF AcquireLock
<1>11. ASSUME NEW c \in Call, Recheck(c) PROVE Typed'
  <2>1. call[c].at # "idle" /\ "running" \in AtServer
    BY <1>11 DEF Recheck, AtServer, Running
  <2>2. CASE Replay(c) /\ Release(c)
    BY <1>7, <1>11, <2>1, <2>2 DEF Recheck
  <2>3. CASE call' = [call EXCEPT ![c].at = "running"] /\ UNCHANGED lock
    <3>1. call' \in [Call -> CallState] /\ CallsNamed'
      BY <2>1, <2>3, MovedType
    <3>. QED BY <1>11, <2>3, <3>1 DEF Recheck, Typed, TypeOK, HelperNamed
  <2>. QED BY <1>11, <2>2, <2>3 DEF Recheck
<1>12. ASSUME NEW c \in Call, HandlerCommits(c) PROVE Typed'
  <2>1. call[c].at # "idle" /\ "committed" \in AtServer
    BY <1>12 DEF HandlerCommits, AtServer, Running
  <2>2. call' \in [Call -> CallState] /\ CallsNamed'
    BY <1>12, <2>1, MovedType DEF HandlerCommits
  <2>3. effects' \in [Request -> Nat]
    <3>1. call[c].request \in Request /\ effects \in [Request -> Nat]
      BY <2>1 DEF Typed, TypeOK, CallsNamed
    <3>. QED BY <1>12, <3>1 DEF HandlerCommits
  <2>. QED BY <1>12, <2>2, <2>3 DEF HandlerCommits, Typed, TypeOK, HelperNamed
<1>13. ASSUME NEW c \in Call, HandlerRefuses(c) PROVE Typed'
  <2>1. call[c].at # "idle" /\ "refused" \in Answers
    BY <1>13 DEF HandlerRefuses, Answers
  <2>2. effects' \in [Request -> Nat] /\ faults' \in 0..MaxFaults
    BY <1>13 DEF HandlerRefuses, Typed, TypeOK
  <2>. QED BY <1>6, <1>13, <2>1, <2>2 DEF HandlerRefuses
<1>14. ASSUME NEW c \in Call, HandlerFails(c) PROVE Typed'
  <2>1. /\ call[c].at # "idle" /\ "error" \in Answers
        /\ call[c].request \in Request
    BY <1>14 DEF HandlerFails, Answers, Typed, CallsNamed
  <2>2. /\ effects' \in [Request -> Nat] /\ faults' \in 0..MaxFaults
        /\ excused' \in [Request -> BOOLEAN]
    BY <1>14, <2>1 DEF HandlerFails, Typed, TypeOK
  <2>3. call' \in [Call -> CallState] /\ CallsNamed'
    BY <1>14, <2>1, AnsweredType DEF HandlerFails
  <2>. QED
    BY <1>5, <1>14, <2>2, <2>3 DEF HandlerFails, Typed, TypeOK, HelperNamed
<1>15. ASSUME NEW c \in Call, StoreResponse(c) PROVE Typed'
  <2>1. /\ call[c].at # "idle" /\ "ok" \in Answers
        /\ call[c].request \in Request /\ call[c].key \in Key
    BY <1>15 DEF StoreResponse, Answers, Typed, CallsNamed
  <2>2. call' \in [Call -> CallState] /\ CallsNamed'
    BY <1>15, <2>1, AnsweredType DEF StoreResponse
  <2>. QED
    BY <1>5, <1>15, <2>1, <2>2 DEF StoreResponse, Typed, TypeOK, HelperNamed
<1>16. ASSUME NEW c \in Call, Crash(c) PROVE Typed'
  <2>1. /\ call[c].at # "idle" /\ "none" \in Answers
        /\ call[c].request \in Request
    BY <1>16 DEF Crash, AtServer, Running, Answers, Typed, CallsNamed
  <2>2. call' \in [Call -> CallState] /\ CallsNamed'
    BY <1>16, <2>1, AnsweredType DEF Crash
  <2>3. /\ lock' \in [Key -> [holder: Call \cup {Null, Orphan}, left: 0..LockTimeout]]
        /\ \A k \in Key : lock'[k].holder # Null => lock'[k].left > 0
    BY <1>16 DEF Crash, Typed, TypeOK
  <2>4. excused' \in [Request -> BOOLEAN]
    BY <1>16, <2>1 DEF Crash, Typed, TypeOK
  <2>. QED BY <1>16, <2>2, <2>3, <2>4 DEF Crash, Typed, TypeOK, HelperNamed
<1>17. ASSUME NEW k \in Key, Forget(k) PROVE Typed'
  BY <1>17 DEF Forget, Typed, TypeOK, CallsNamed, HelperNamed
<1>18. CASE Tick
  <2>1. /\ lock' \in [Key -> [holder: Call \cup {Null, Orphan}, left: 0..LockTimeout]]
        /\ \A k \in Key : lock'[k].holder # Null => lock'[k].left > 0
    BY <1>18 DEF Tick, Aged, Unlocked, Typed, TypeOK
  <2>2. ASSUME NEW c \in Call
        PROVE  /\ call'[c] \in CallState
               /\ call'[c].at = call[c].at /\ call'[c].answer = call[c].answer
               /\ call'[c].request = call[c].request /\ call'[c].key = call[c].key
               /\ call'[c] = call[c] \/ call[c].at \in Running
    <3>1. call[c] \in CallState
      BY DEF Typed, TypeOK
    <3>2. CASE call[c].at \in Running
      <4>1. call'[c] = [call[c] EXCEPT !.age = @ + 1] /\ call[c].age + 1 \in 0..RequestTime
        BY <1>18, <3>1, <3>2 DEF Tick, CallState
      <4>. QED BY <3>1, <3>2, <4>1 DEF CallState
    <3>3. CASE call[c].at \notin Running
      BY <1>18, <3>1, <3>3 DEF Tick
    <3>. QED BY <3>2, <3>3
  <2>3. call' \in [Call -> CallState] /\ CallsNamed'
    <3>1. call' = [c \in Call |-> call'[c]]
      BY <1>18 DEF Tick
    <3>. QED BY <2>2, <3>1 DEF Typed, CallsNamed, Running
  <2>. QED BY <1>18, <2>1, <2>3 DEF Tick, Typed, TypeOK, HelperNamed
<1>19. CASE UNCHANGED vars
  BY <1>19 DEF vars, Typed, TypeOK, CallsNamed, HelperNamed
<1>. QED
  BY <1>1, <1>2, <1>3, <1>4, <1>8, <1>9, <1>10, <1>11, <1>12, <1>13, <1>14, <1>15,
     <1>16, <1>17, <1>18, <1>19
  DEF Next, UserStep, ServerStep, Fault
-----------------------------------------------------------------------------
(* Locks.                                                                  *)

\* A running call holds the lock of its key, with enough time left.
Locks ==
  \A c \in Call : call[c].at \in Running =>
    /\ lock[call[c].key].holder = c
    /\ lock[call[c].key].left + call[c].age >= LockTimeout

\* What a step does to a call that neither starts nor goes on running, and to
\* the lock of that call only, concerns no other.
LEMMA OthersKeepLocks ==
  ASSUME Typed, Locks, NEW c \in Call,
         \A d \in Call : d # c => call'[d] = call[d],
         call'[c].at \notin Running,
         \A k \in Key : lock'[k] = lock[k] \/ lock[k].holder = c
  PROVE  Locks'
<1>. SUFFICES ASSUME NEW d \in Call, call'[d].at \in Running
              PROVE  /\ lock'[call'[d].key].holder = d
                     /\ lock'[call'[d].key].left + call'[d].age >= LockTimeout
  BY DEF Locks
<1>1. d # c /\ call'[d] = call[d] /\ call[d].key \in Key
  BY DEF Typed, CallsNamed, Running
<1>2. lock[call[d].key].holder = d
  BY <1>1 DEF Locks
<1>. QED BY <1>1, <1>2 DEF Locks

LEMMA LocksStep ==
  ASSUME Typed, Locks, [Next]_vars
  PROVE  Locks'
<1>. USE RequestAssumption
<1>1. ASSUME NEW c \in Call, NEW answer \in Answers, Answered(c, answer),
             call[c].at # "idle",
             \A k \in Key : lock'[k] = lock[k] \/ lock[k].holder = c
      PROVE  Locks'
  <2>1. /\ \A d \in Call : d # c => call'[d] = call[d]
        /\ call'[c].at \in {"idle", "ended"}
    BY <1>1, AnsweredType DEF NoCall
  <2>. QED BY <1>1, <2>1, OthersKeepLocks DEF Running
<1>2. ASSUME NEW c \in Call, Replay(c), call[c].at # "idle",
             \A k \in Key : lock'[k] = lock[k] \/ lock[k].holder = c
      PROVE  Locks'
  <2>1. Answered(c, "ok") \/ Answered(c, "mismatch")
    BY <1>2 DEF Replay
  <2>. QED BY <1>1, <1>2, <2>1 DEF Answers
<1>3. ASSUME NEW c \in Call, Release(c)
      PROVE  \A k \in Key : lock'[k] = lock[k] \/ lock[k].holder = c
  BY <1>3 DEF Release
<1>4. ASSUME NEW c \in Call, NEW at, call' = [call EXCEPT ![c].at = at]
      PROVE  /\ \A d \in Call : d # c => call'[d] = call[d]
             /\ call'[c].at = at /\ call'[c].key = call[c].key /\ call'[c].age = call[c].age
  <2>1. call[c] \in CallState /\ call'[c] = [call[c] EXCEPT !.at = at]
    BY <1>4 DEF Typed, TypeOK
  <2>. QED BY <1>4, <2>1 DEF Typed, TypeOK, CallState
<1>5. ASSUME NEW r \in Request, NEW c \in Call, Send(c, r) PROVE Locks'
  <2>1. /\ \A d \in Call : d # c => call'[d] = call[d]
        /\ call'[c].at = "arrived"
    BY <1>5 DEF Send, Typed, TypeOK, NoCall
  <2>. QED BY <1>5, <2>1, OthersKeepLocks DEF Send, Running
<1>6. ASSUME NEW c \in Call, Settle(c) PROVE Locks'
  <2>1. /\ \A d \in Call : d # c => call'[d] = call[d]
        /\ call'[c].at = "idle"
    BY <1>6 DEF Settle, Typed, TypeOK, NoCall
  <2>. QED BY <1>6, <2>1, OthersKeepLocks DEF Settle, Running
<1>7. ASSUME NEW c \in Call, LoseAnswer(c) PROVE Locks'
  <2>1. \A d \in Call : d # c => call'[d] = call[d]
    BY <1>7 DEF LoseAnswer, Typed, TypeOK
  <2>2. call[c] \in CallState
    BY DEF Typed, TypeOK
  <2>3. CASE call[c].at = "ended"
    <3>1. call'[c].at = "idle"
      BY <1>7, <2>3 DEF LoseAnswer, Typed, TypeOK, NoCall
    <3>. QED BY <1>7, <2>1, <3>1, OthersKeepLocks DEF LoseAnswer, Running
  <2>4. CASE call[c].at # "ended"
    <3>1. call'[c] = [call[c] EXCEPT !.waiting = FALSE]
      BY <1>7, <2>4 DEF LoseAnswer, Typed, TypeOK
    <3>2. /\ call'[c].at = call[c].at /\ call'[c].key = call[c].key
          /\ call'[c].age = call[c].age
      BY <2>2, <3>1 DEF CallState
    <3>. QED BY <1>7, <2>1, <3>2 DEF LoseAnswer, Locks
  <2>. QED BY <2>3, <2>4
<1>8. ASSUME NEW c \in Call, TurnAway(c) PROVE Locks'
  BY <1>1, <1>8 DEF TurnAway, Answers
<1>9. ASSUME NEW c \in Call, CheckStored(c) PROVE Locks'
  <2>1. CASE Replay(c)
    BY <1>2, <1>9, <2>1 DEF CheckStored
  <2>2. CASE call' = [call EXCEPT ![c].at = "missed"]
    <3>1. \A d \in Call : d # c => call'[d] = call[d]
      BY <1>4, <2>2
    <3>2. call'[c].at = "missed"
      BY <1>4, <2>2
    <3>. QED BY <1>9, <3>1, <3>2, OthersKeepLocks DEF CheckStored, Running
  <2>. QED BY <1>9, <2>1, <2>2 DEF CheckStored
<1>10. ASSUME NEW c \in Call, AcquireLock(c) PROVE Locks'
  <2>1. CASE Answered(c, "conflict") /\ UNCHANGED lock
    BY <1>1, <1>10, <2>1 DEF AcquireLock, Answers
  <2>2. CASE /\ lock[call[c].key].holder = Null
             /\ lock' = [lock EXCEPT ![call[c].key] = LockTaken(c)]
             /\ call' = [call EXCEPT ![c].at = "locked"]
    <3>1. /\ \A d \in Call : d # c => call'[d] = call[d]
          /\ call'[c].key = call[c].key /\ call'[c].age = call[c].age
      BY <1>4, <2>2
    <3>2. call[c].key \in Key /\ call[c].age \in Nat
      BY <1>10 DEF AcquireLock, Typed, TypeOK, CallsNamed, CallState
    <3>3. /\ lock'[call[c].key].holder = c /\ lock'[call[c].key].left = LockTimeout
          /\ \A k \in Key : k # call[c].key => lock'[k] = lock[k]
      BY <2>2, <3>2 DEF LockTaken, Typed, TypeOK
    <3>4. ASSUME NEW d \in Call, d # c, call[d].at \in Running
          PROVE  call[d].key \in Key /\ call[d].key # call[c].key
      BY <2>2, <3>4 DEF Locks, Typed, CallsNamed, Running
    <3>. QED BY <3>1, <3>2, <3>3, <3>4 DEF Locks
  <2>. QED BY <1>10, <2>1, <2>2 DEF AcquireLock
<1>11. ASSUME NEW c \in Call, NEW at, call[c].at \in Running, UNCHANGED lock,
              call' = [call EXCEPT ![c].at = at]
       PROVE  Locks'
  BY <1>4, <1>11 DEF Locks
<1>12. ASSUME NEW c \in Call, Recheck(c) PROVE Locks'
  BY <1>2, <1>3, <1>11, <1>12 DEF Recheck, Running
<1>13. ASSUME NEW c \in Call, HandlerCommits(c) PROVE Locks'
  BY <1>11, <1>13 DEF HandlerCommits, Running
<1>14. ASSUME NEW c \in Call, HandlerRefuses(c) \/ HandlerFails(c) \/ StoreResponse(c)
       PROVE  Locks'
  BY <1>1, <1>3, <1>14 DEF HandlerRefuses, HandlerFails, StoreResponse, Answers
<1>15. ASSUME NEW c \in Call, Crash(c) PROVE Locks'
  <2>1. \A k \in Key : lock'[k] = lock[k] \/ lock[k].holder = c
    BY <1>15 DEF Crash
  <2>. QED BY <1>1, <1>15, <2>1 DEF Crash, AtServer, Running, Answers
<1>16. CASE Tick
  <2>. SUFFICES ASSUME NEW c \in Call, call'[c].at \in Running
                PROVE  /\ lock'[call'[c].key].holder = c
                       /\ lock'[call'[c].key].left + call'[c].age >= LockTimeout
    BY DEF Locks
  <2>1. call[c] \in CallState
    BY DEF Typed, TypeOK
  <2>2. call[c].at \in Running
    BY <1>16, <2>1 DEF Tick, CallState
  <2>3. call'[c] = [call[c] EXCEPT !.age = @ + 1] /\ call[c].age < RequestTime
    BY <1>16, <2>2 DEF Tick
  <2>4. /\ call'[c].key = call[c].key /\ call'[c].age = call[c].age + 1
        /\ call[c].age \in Nat /\ call[c].key \in Key
    BY <2>1, <2>2, <2>3 DEF CallState, Typed, CallsNamed, Running
  <2>. DEFINE entry == lock[call[c].key]
  <2>5. /\ entry.holder = c /\ entry.left + call[c].age >= LockTimeout
        /\ entry \in [holder: Call \cup {Null, Orphan}, left: 0..LockTimeout]
    BY <2>2, <2>4 DEF Locks, Typed, TypeOK
  <2>6. entry.left > 1
    BY <2>3, <2>4, <2>5
  <2>7. lock'[call[c].key] = [entry EXCEPT !.left = @ - 1]
    BY <1>16, <2>4, <2>5, <2>6 DEF Tick, Aged
  <2>8. /\ lock'[call[c].key].holder = c
        /\ lock'[call[c].key].left = entry.left - 1
    BY <2>5, <2>7
  <2>. QED BY <2>4, <2>5, <2>8
<1>17. CASE \E k \in Key : Forget(k)
  BY <1>17 DEF Forget, Locks
<1>18. CASE \E r \in Request : Close(r)
  BY <1>18 DEF Close, Locks
<1>19. CASE UNCHANGED vars
  BY <1>19 DEF vars, Locks
<1>. QED
  BY <1>5, <1>6, <1>7, <1>8, <1>9, <1>10, <1>12, <1>13, <1>14, <1>15, <1>16, <1>17,
     <1>18, <1>19
  DEF Next, UserStep, ServerStep, Fault

\* For all keys and calls, the handler of one key never runs twice at once.
THEOREM NoKeyRunsTwice == Spec => []OneRunPerKey
<1>. DEFINE I == Typed /\ Locks
<1>1. Init => I
  BY InitTyped DEF Init, Locks, NoCall, Running
<1>2. I /\ [Next]_vars => I'
  BY TypedStep, LocksStep
<1>3. I => OneRunPerKey
  BY DEF Locks, OneRunPerKey
<1>. QED BY <1>1, <1>2, <1>3, PTL DEF Spec

\* Every state of the form and the middleware is well typed.
THEOREM TypeCorrect == Spec => []TypeOK
  BY InitTyped, TypedStep, PTL DEF Spec, Typed
-----------------------------------------------------------------------------
(* What a step other than Send makes of a call.                            *)

Live(c) == call[c].at # "idle"

\* Names stay, nobody starts to wait, the effect is followed by the stored
\* answer or a crash, and the handler runs only if no answer was stored.
Progress(c) ==
  /\ Live(c)' => /\ Live(c)
                 /\ call'[c].request = call[c].request /\ call'[c].key = call[c].key
  /\ call'[c].waiting => call[c].waiting
  /\ call[c].at = "committed" =>
       call'[c].at = "committed" \/ StoreResponse(c) \/ Crash(c)
  /\ call'[c].at = "committed" => call[c].at = "committed" \/ HandlerCommits(c)
  /\ call'[c].at = "running" =>
       \/ call[c].at = "running"
       \/ Recheck(c) /\ stored[call[c].key] = Null
  /\ call'[c].answer = "mismatch" =>
       \/ call[c].answer = "mismatch"
       \/ Live(c) /\ stored[call[c].key] \notin {Null, call[c].request}

Sends == \E c \in Call, r \in Request : Send(c, r)

LEMMA CallsProgress ==
  ASSUME Typed, [Next]_vars, ~Sends
  PROVE  \A c \in Call : Progress(c)
<1>. USE RequestAssumption
<1>1. ASSUME NEW c \in Call, \A d \in Call : d # c => call'[d] = call[d], Progress(c)
      PROVE  \A d \in Call : Progress(d)
  BY <1>1 DEF Progress, Live
<1>2. ASSUME NEW c \in Call, NEW answer \in Answers, Answered(c, answer), Live(c),
             call[c].at = "committed" => StoreResponse(c) \/ Crash(c),
             answer = "mismatch" => stored[call[c].key] \notin {Null, call[c].request}
      PROVE  \A d \in Call : Progress(d)
  <2>1. /\ \A d \in Call : d # c => call'[d] = call[d]
        /\ \/ call'[c] = NoCall
           \/ /\ call'[c].at = "ended"
              /\ call'[c].request = call[c].request /\ call'[c].key = call[c].key
              /\ call'[c].answer = answer /\ call'[c].waiting = call[c].waiting
    BY <1>2, AnsweredType DEF Live
  <2>2. NoCall.at = "idle" /\ ~NoCall.waiting /\ NoCall.answer # "mismatch"
    BY DEF NoCall, Answers
  <2>3. Progress(c)
    BY <1>2, <2>1, <2>2 DEF Progress, Live
  <2>. QED BY <1>1, <2>1, <2>3
<1>3. ASSUME NEW c \in Call, Replay(c), Live(c), call[c].at # "committed",
             stored[call[c].key] # Null
      PROVE  \A d \in Call : Progress(d)
  <2>1. CASE stored[call[c].key] = call[c].request
    BY <1>2, <1>3, <2>1 DEF Replay, Answers
  <2>2. CASE stored[call[c].key] # call[c].request
    BY <1>2, <1>3, <2>2 DEF Replay, Answers
  <2>. QED BY <2>1, <2>2
<1>4. ASSUME NEW c \in Call, NEW at \in AtServer, Live(c),
             call' = [call EXCEPT ![c].at = at],
             call[c].at # "committed",
             at = "committed" => HandlerCommits(c),
             at = "running" => Recheck(c) /\ stored[call[c].key] = Null
      PROVE  \A d \in Call : Progress(d)
  <2>1. call[c] \in CallState /\ call'[c] = [call[c] EXCEPT !.at = at]
        /\ \A d \in Call : d # c => call'[d] = call[d]
    BY <1>4 DEF Typed, TypeOK
  <2>2. /\ call'[c].at = at /\ call'[c].request = call[c].request
        /\ call'[c].key = call[c].key /\ call'[c].answer = call[c].answer
        /\ call'[c].waiting = call[c].waiting
    BY <2>1 DEF CallState
  <2>. QED BY <1>1, <1>4, <2>1, <2>2 DEF Progress
<1>5. ASSUME NEW c \in Call, call[c].at # "committed",
             call' = [call EXCEPT ![c] = NoCall]
      PROVE  \A d \in Call : Progress(d)
  <2>1. NoCall.at = "idle" /\ ~NoCall.waiting /\ NoCall.answer # "mismatch"
    BY DEF NoCall, Answers
  <2>2. call'[c] = NoCall /\ \A d \in Call : d # c => call'[d] = call[d]
    BY <1>5 DEF Typed, TypeOK
  <2>. QED BY <1>1, <1>5, <2>1, <2>2 DEF Progress, Live
<1>6. ASSUME NEW c \in Call, LoseAnswer(c) PROVE \A d \in Call : Progress(d)
  <2>1. CASE call[c].at = "ended"
    BY <1>5, <1>6, <2>1 DEF LoseAnswer, Typed, TypeOK
  <2>2. CASE call[c].at # "ended"
    <3>1. call[c] \in CallState /\ call'[c] = [call[c] EXCEPT !.waiting = FALSE]
          /\ \A d \in Call : d # c => call'[d] = call[d]
      BY <1>6, <2>2 DEF LoseAnswer, Typed, TypeOK
    <3>2. /\ call'[c].at = call[c].at /\ call'[c].request = call[c].request
          /\ call'[c].key = call[c].key /\ call'[c].answer = call[c].answer
      BY <3>1 DEF CallState
    <3>. QED BY <1>1, <1>6, <3>1, <3>2 DEF Progress, Live, LoseAnswer
  <2>. QED BY <2>1, <2>2
<1>7. ASSUME UNCHANGED call PROVE \A d \in Call : Progress(d)
  BY <1>7 DEF Progress, Live
<1>8. CASE Tick
  <2>. SUFFICES ASSUME NEW c \in Call PROVE Progress(c)
    OBVIOUS
  <2>1. /\ call[c] \in CallState
        /\ \/ call'[c] = call[c]
           \/ call'[c] = [call[c] EXCEPT !.age = @ + 1]
    BY <1>8 DEF Tick, Typed, TypeOK
  <2>2. /\ call'[c].at = call[c].at /\ call'[c].request = call[c].request
        /\ call'[c].key = call[c].key /\ call'[c].answer = call[c].answer
        /\ call'[c].waiting = call[c].waiting
    BY <2>1 DEF CallState
  <2>. QED BY <2>2 DEF Progress, Live
<1>9. ASSUME NEW c \in Call, TurnAway(c) \/ HandlerFails(c) \/ HandlerRefuses(c)
      PROVE  \A d \in Call : Progress(d)
  BY <1>2, <1>9 DEF TurnAway, HandlerFails, HandlerRefuses, Answers, Live
<1>10. ASSUME NEW c \in Call, StoreResponse(c) \/ Crash(c)
       PROVE  \A d \in Call : Progress(d)
  <2>1. Live(c)
    BY <1>10 DEF StoreResponse, Crash, AtServer, Running, Live
  <2>2. Answered(c, "ok") \/ Answered(c, "none")
    BY <1>10 DEF StoreResponse, Crash
  <2>. QED BY <1>2, <1>10, <2>1, <2>2 DEF Answers
<1>11. ASSUME NEW c \in Call, CheckStored(c) PROVE \A d \in Call : Progress(d)
  BY <1>3, <1>4, <1>11 DEF CheckStored, AtServer, Live
<1>12. ASSUME NEW c \in Call, AcquireLock(c) PROVE \A d \in Call : Progress(d)
  <2>1. CASE Answered(c, "conflict")
    BY <1>2, <1>12, <2>1 DEF AcquireLock, Answers, Live
  <2>2. CASE call' = [call EXCEPT ![c].at = "locked"]
    <3>1. Live(c) /\ call[c].at # "committed" /\ "locked" \in AtServer
      BY <1>12 DEF AcquireLock, AtServer, Running, Live
    <3>. QED BY <1>4, <2>2, <3>1
  <2>. QED BY <1>12, <2>1, <2>2 DEF AcquireLock
<1>13. ASSUME NEW c \in Call, Recheck(c) PROVE \A d \in Call : Progress(d)
  <2>1. CASE stored[call[c].key] # Null
    BY <1>3, <1>13, <2>1 DEF Recheck, Live
  <2>2. CASE stored[call[c].key] = Null
    BY <1>4, <1>13, <2>2 DEF Recheck, AtServer, Running, Live
  <2>. QED BY <2>1, <2>2
<1>14. ASSUME NEW c \in Call, HandlerCommits(c) PROVE \A d \in Call : Progress(d)
  BY <1>4, <1>14 DEF HandlerCommits, AtServer, Running, Live
<1>15. ASSUME NEW c \in Call, Settle(c) PROVE \A d \in Call : Progress(d)
  BY <1>5, <1>15 DEF Settle
<1>. QED
  BY <1>6, <1>7, <1>8, <1>9, <1>10, <1>11, <1>12, <1>13, <1>14, <1>15
  DEF Next, UserStep, ServerStep, Fault, Sends, Close, Forget, vars

-----------------------------------------------------------------------------
(* Keys.                                                                   *)

\* A key belongs to one request, wherever it occurs.
Keys ==
  /\ \A c, d \in Call : Live(c) /\ Live(d) /\ call[c].key = call[d].key
                          => call[c].request = call[d].request
  /\ \A c \in Call : Live(c) => stored[call[c].key] \in {Null, call[c].request}
  /\ \A c \in Call : Live(c) /\ call[c].key = helper.key
                       => call[c].request = helper.request
  /\ helper.key # Null => stored[helper.key] \in {Null, helper.request}
  /\ \A c \in Call : call[c].at \in {"running", "committed"}
                       => stored[call[c].key] = Null
  /\ \A c \in Call : call[c].answer # "mismatch"

\* A new key starts out unused.
LEMMA SendKeys ==
  ASSUME Typed, Keys, NEW c \in Call, NEW r \in Request, Send(c, r)
  PROVE  Keys'
<1>. USE RequestAssumption
<1>1. PICK k \in Key :
        /\ GetKey(r, k)
        /\ helper' = [key |-> k, request |-> r]
        /\ call' = [call EXCEPT ![c] = [NoCall EXCEPT !.at = "arrived", !.request = r,
                                                      !.key = k, !.waiting = TRUE]]
        /\ stored' = IF k = helper.key THEN stored ELSE [stored EXCEPT ![k] = Null]
  BY DEF Send
<1>2. /\ call'[c].at = "arrived" /\ call'[c].request = r /\ call'[c].key = k
      /\ call'[c].answer = Null
      /\ \A d \in Call : d # c => call'[d] = call[d]
  BY <1>1 DEF Typed, TypeOK, NoCall
<1>3. helper'.key = k /\ helper'.request = r
  BY <1>1
<1>4. \A d \in Call : Live(d) => call[d].key \in Key
  BY DEF Typed, CallsNamed, Live
<1>5. CASE k = helper.key
  <2>1. helper.request = r
    BY <1>1, <1>5 DEF GetKey, Fresh
  <2>. QED BY <1>1, <1>2, <1>3, <1>4, <1>5, <2>1 DEF Keys, Live, Answers
<1>6. CASE k # helper.key
  <2>1. \A d \in Call : call[d].key # k
    BY <1>1, <1>6 DEF GetKey, Fresh
  <2>2. stored'[k] = Null /\ \A j \in Key : j # k => stored'[j] = stored[j]
    BY <1>1, <1>6 DEF Typed, TypeOK
  <2>3. Live(c)' /\ \A d \in Call : d # c /\ Live(d)' => Live(d)
    BY <1>2 DEF Live
  <2>. QED BY <1>2, <1>3, <1>4, <2>1, <2>2, <2>3 DEF Keys, Live, Answers
<1>. QED BY <1>5, <1>6

LEMMA KeysStep ==
  ASSUME Typed, Locks, Keys, [Next]_vars
  PROVE  Keys'
<1>. USE RequestAssumption
<1>1. CASE Sends
  BY <1>1, SendKeys DEF Sends
<1>2. CASE ~Sends
  <2>1. \A c \in Call : Progress(c)
    BY <1>2, CallsProgress
  <2>2. helper' \in {helper, NoKey}
    BY <1>2 DEF Next, vars, UserStep, ServerStep, Fault, Sends, Close, Settle, LoseAnswer,
       TurnAway, CheckStored, AcquireLock, Recheck, HandlerCommits, HandlerRefuses,
       HandlerFails, StoreResponse, Crash, Forget, Tick
  <2>3. \/ stored' = stored
        \/ \E k \in Key : stored' = [stored EXCEPT ![k] = Null]
        \/ \E c \in Call : StoreResponse(c)
    BY <1>2 DEF Next, vars, UserStep, ServerStep, Fault, Sends, Close, Settle, LoseAnswer,
       TurnAway, CheckStored, AcquireLock, Recheck, HandlerCommits, HandlerRefuses,
       HandlerFails, Crash, Forget, Tick
  <2>4. /\ \A c, d \in Call : Live(c)' /\ Live(d)' /\ call'[c].key = call'[d].key
                                => call'[c].request = call'[d].request
        /\ \A c \in Call : call'[c].answer # "mismatch"
    BY <2>1 DEF Keys, Progress
  <2>5. NoKey.key = Null
    BY DEF NoKey
  <2>6. \A c \in Call : Live(c)' /\ call'[c].key = helper'.key
                          => call'[c].request = helper'.request
    BY <2>1, <2>2, <2>5 DEF Keys, Progress, Typed, CallsNamed, Live
  <2>7. CASE stored' = stored \/ \E k \in Key : stored' = [stored EXCEPT ![k] = Null]
    <3>1. \A k \in Key : stored'[k] \in {stored[k], Null}
      BY <2>7 DEF Typed, TypeOK
    <3>2. \A c \in Call : Live(c) => call[c].key \in Key
      BY DEF Typed, CallsNamed, Live
    <3>3. \A c \in Call : Live(c)' => stored'[call'[c].key] \in {Null, call'[c].request}
      BY <2>1, <3>1, <3>2 DEF Keys, Progress
    <3>4. helper'.key # Null => stored'[helper'.key] \in {Null, helper'.request}
      BY <2>2, <2>5, <3>1 DEF Keys, Typed, TypeOK
    <3>5. \A c \in Call : call'[c].at \in {"running", "committed"}
                            => stored'[call'[c].key] = Null
      <4>. SUFFICES ASSUME NEW c \in Call, call'[c].at \in {"running", "committed"}
                    PROVE  stored'[call'[c].key] = Null
        OBVIOUS
      <4>1. call'[c].key = call[c].key /\ call[c].key \in Key
        BY <2>1, <3>2 DEF Progress, Live
      <4>2. stored[call[c].key] = Null
        BY <2>1 DEF Progress, Keys, HandlerCommits
      <4>. QED BY <3>1, <4>1, <4>2
    <3>. QED BY <2>4, <2>6, <3>3, <3>4, <3>5 DEF Keys
  <2>8. ASSUME NEW c \in Call, StoreResponse(c) PROVE Keys'
    <3>. DEFINE k == call[c].key
                r == call[c].request
    <3>1. /\ Live(c) /\ call[c].at = "committed" /\ k \in Key /\ helper' = helper
          /\ stored'[k] = r /\ \A j \in Key : j # k => stored'[j] = stored[j]
      BY <2>8 DEF StoreResponse, Live, Typed, TypeOK, CallsNamed
    <3>2. \A d \in Call : Live(d) => call[d].key \in Key
      BY DEF Typed, CallsNamed, Live
    <3>3. \A d \in Call : Live(d)' => stored'[call'[d].key] \in {Null, call'[d].request}
      BY <2>1, <3>1, <3>2 DEF Keys, Progress
    <3>4. helper'.key # Null => stored'[helper'.key] \in {Null, helper'.request}
      BY <3>1 DEF Keys, Typed, TypeOK
    <3>5. call'[c].at \notin {"running", "committed"}
      BY <2>8, <3>1, AnsweredType DEF StoreResponse, Live, NoCall, Answers
    <3>6. ASSUME NEW d \in Call, call'[d].at \in {"running", "committed"}
          PROVE  stored'[call'[d].key] = Null
      <4>1. d # c /\ call'[d] = call[d]
        BY <2>8, <3>1, <3>5, <3>6, AnsweredType DEF StoreResponse, Live, Answers
      <4>2. call[d].key # k
        BY <3>1, <3>6, <4>1 DEF Locks, Running
      <4>. QED BY <3>1, <3>2, <3>6, <4>1, <4>2 DEF Keys, Live
    <3>. QED BY <2>4, <2>6, <3>3, <3>4, <3>6 DEF Keys
  <2>. QED BY <2>3, <2>7, <2>8
<1>. QED BY <1>1, <1>2

\* For all keys, calls and requests, no key is ever sent with two requests, and
\* a handler runs only for a key without a stored answer.
THEOREM NobodyIsMismatched == Spec => []NeverMismatched
<1>. DEFINE I == Typed /\ Locks /\ Keys
<1>1. Init => I
  <2>. SUFFICES ASSUME Init PROVE I
    OBVIOUS
  <2>1. \A c \in Call : call[c].at = "idle" /\ call[c].answer # "mismatch"
    BY RequestAssumption DEF Init, NoCall, Answers
  <2>. QED BY <2>1, InitTyped DEF Init, Locks, Keys, Live, Running
<1>2. I /\ [Next]_vars => I'
  BY TypedStep, LocksStep, KeysStep
<1>3. I => NeverMismatched
  BY DEF Keys, NeverMismatched
<1>. QED BY <1>1, <1>2, <1>3, PTL DEF Spec
-----------------------------------------------------------------------------
(* Effects, for a user who waits for the answer before the form is closed  *)
(* or filled in anew.                                                      *)

\* One request is tried at a time, and only its calls are waited for.
OneForm ==
  /\ \A q, r \in Request : user[q] = "trying" /\ user[r] = "trying" => q = r
  /\ \A c \in Call, r \in Request :
       call[c].waiting /\ user[r] = "trying" => call[c].request = r
  /\ \A r \in Request : user[r] = "idle" =>
       effects[r] = 0 /\ \A c \in Call : call[c].request # r

\* The effect of r under key k is recorded, or about to be by the holder of the lock.
Recorded(r, k) ==
  \/ stored[k] = r
  \/ \E c \in Call : call[c].at = "committed" /\ call[c].request = r /\ call[c].key = k

\* What is tried has one key, the helper's and that of all its calls.
OneKey(r) ==
  /\ user[r] = "trying" => helper.request = r
  /\ \A c, d \in Call : call[c].request = r /\ call[d].request = r
                          => call[c].key = call[d].key
  /\ \A c \in Call : user[r] = "trying" /\ call[c].request = r
                       => call[c].key = helper.key

Effect(r) ==
  effects[r] > 0 =>
    /\ effects[r] = 1
    /\ user[r] = "trying" => Recorded(r, helper.key)
    /\ \A c \in Call : call[c].request = r => Recorded(r, call[c].key)

Submissions ==
  /\ OneForm
  /\ \A r \in Request : ~excused[r] => OneKey(r) /\ Effect(r)

\* A request that is new is named by no call; one that is tried goes on with its key.
LEMMA SendSubmissions ==
  ASSUME Typed, Keys, Submissions, Patient,
         NEW c \in Call, NEW r \in Request, Send(c, r)
  PROVE  Submissions'
<1>. USE RequestAssumption
<1>1. PICK k \in Key :
        /\ GetKey(r, k)
        /\ helper' = [key |-> k, request |-> r]
        /\ call' = [call EXCEPT ![c] = [NoCall EXCEPT !.at = "arrived", !.request = r,
                                                      !.key = k, !.waiting = TRUE]]
        /\ stored' = IF k = helper.key THEN stored ELSE [stored EXCEPT ![k] = Null]
  BY DEF Send
<1>2. /\ call'[c].at = "arrived" /\ call'[c].request = r /\ call'[c].key = k
      /\ \A d \in Call : d # c => call'[d] = call[d]
      /\ helper'.key = k /\ helper'.request = r
      /\ call[c].at = "idle" /\ call[c].request = Null
  BY <1>1 DEF Send, Typed, TypeOK, CallsNamed, NoCall
<1>3. /\ user[r] \in {"idle", "trying"} /\ user'[r] = "trying"
      /\ \A q \in Request \ {r} :
           /\ user'[q] # "trying"
           /\ user'[q] = "idle" => user[q] = "idle"
           /\ \A d \in Call : call[d].waiting => call[d].request # q
      /\ effects' = effects /\ excused' = excused
  BY DEF Send, Typed, TypeOK, Waiting
<1>4. \A d \in Call : call[d].waiting => call[d].request = r
  BY <1>3 DEF Typed, CallsNamed, NoCall
<1>5. OneForm'
  BY <1>2, <1>3, <1>4 DEF Submissions, OneForm
<1>6. ASSUME NEW q \in Request, q # r, ~excused[q]
      PROVE  OneKey(q)' /\ Effect(q)'
  <2>1. \A d \in Call : call'[d].request = q => d # c /\ call'[d] = call[d]
    BY <1>2, <1>6
  <2>2. OneKey(q)'
    BY <1>3, <1>6, <2>1 DEF Submissions, OneKey
  <2>3. ASSUME NEW d \in Call, call[d].request = q, Recorded(q, call[d].key)
        PROVE  Recorded(q, call[d].key)'
    <3>1. Live(d) /\ call[d].key \in Key
      BY <1>6, <2>3 DEF Typed, CallsNamed, NoCall, Live
    <3>2. stored'[call[d].key] = stored[call[d].key]
      <4>1. CASE k = helper.key
        BY <1>1, <4>1
      <4>2. CASE k # helper.key
        BY <1>1, <3>1, <4>2 DEF GetKey, Fresh, Typed, TypeOK
      <4>. QED BY <4>1, <4>2
    <3>3. \A e \in Call : call[e].at = "committed" => e # c
      BY <1>2
    <3>. QED BY <1>2, <2>3, <3>2, <3>3 DEF Recorded
  <2>4. Effect(q)'
    BY <1>2, <1>3, <1>6, <2>1, <2>3 DEF Submissions, Effect
  <2>. QED BY <2>2, <2>4
<1>7. ASSUME ~excused[r]
      PROVE  OneKey(r)' /\ Effect(r)'
  <2>1. CASE user[r] = "idle"
    BY <1>2, <1>3, <2>1 DEF Submissions, OneForm, OneKey, Effect
  <2>2. CASE user[r] = "trying"
    <3>1. helper.request = r /\ OneKey(r) /\ Effect(r)
      BY <1>7, <2>2 DEF Submissions, OneKey
    <3>2. helper.key # Null /\ k = helper.key /\ stored' = stored
      BY <1>1, <3>1 DEF Typed, HelperNamed, GetKey
    <3>3. OneKey(r)'
      BY <1>2, <2>2, <3>1, <3>2 DEF OneKey
    <3>4. ASSUME NEW j, Recorded(r, j) PROVE Recorded(r, j)'
      <4>1. \A e \in Call : call[e].at = "committed" => e # c
        BY <1>2
      <4>. QED BY <1>2, <3>2, <3>4, <4>1 DEF Recorded
    <3>5. Effect(r)'
      BY <1>2, <1>3, <2>2, <3>1, <3>2, <3>4 DEF Effect
    <3>. QED BY <3>3, <3>5
  <2>. QED BY <1>3, <2>1, <2>2
<1>. QED BY <1>3, <1>5, <1>6, <1>7 DEF Submissions
LEMMA SubmissionsStep ==
  ASSUME Typed, Typed', Locks, Keys, Submissions, Patient, [Next]_vars
  PROVE  Submissions'
<1>. USE RequestAssumption
<1>1. CASE Sends
  BY <1>1, SendSubmissions DEF Sends
<1>2. CASE ~Sends
  <2>1. \A c \in Call : Progress(c)
    BY <1>2, CallsProgress
  <2>2. ASSUME NEW r \in Request
        PROVE  /\ user'[r] = "trying" => user[r] = "trying"
               /\ user'[r] = "idle" => user[r] = "idle"
               /\ ~excused'[r] => ~excused[r]
    <3>1. user' = user \/ (\E q \in Request : Close(q)) \/ (\E c \in Call : Settle(c))
      BY <1>2 DEF Next, vars, UserStep, ServerStep, Fault, Sends, LoseAnswer,
         TurnAway, CheckStored, AcquireLock, Recheck, HandlerCommits, HandlerRefuses,
         HandlerFails, StoreResponse, Crash, Forget, Tick
    <3>2. /\ user'[r] = "trying" => user[r] = "trying"
          /\ user'[r] = "idle" => user[r] = "idle"
      BY <3>1 DEF Close, Settle, Typed, TypeOK
    <3>3. ~excused'[r] => ~excused[r]
      <4>1. ASSUME NEW c \in Call, Settle(c) PROVE ~excused'[r] => ~excused[r]
        BY <4>1 DEF Settle, Typed, TypeOK
      <4>2. ASSUME NEW c \in Call, HandlerFails(c) PROVE ~excused'[r] => ~excused[r]
        BY <4>2 DEF HandlerFails, Typed, TypeOK
      <4>3. ASSUME NEW c \in Call, Crash(c) PROVE ~excused'[r] => ~excused[r]
        BY <4>3 DEF Crash, Typed, TypeOK
      <4>4. ASSUME NEW k \in Key, Forget(k) PROVE ~excused'[r] => ~excused[r]
        BY <4>4 DEF Forget, Typed, TypeOK
      <4>5. \/ excused' = excused
            \/ \E c \in Call : Settle(c) \/ HandlerFails(c) \/ Crash(c)
            \/ \E k \in Key : Forget(k)
        BY <1>2 DEF Next, vars, UserStep, ServerStep, Fault, Sends, Close, LoseAnswer,
           TurnAway, CheckStored, AcquireLock, Recheck, HandlerCommits, HandlerRefuses,
           StoreResponse, Tick
      <4>. QED BY <4>1, <4>2, <4>3, <4>4, <4>5
    <3>. QED BY <3>2, <3>3
  <2>3. ASSUME NEW c \in Call, NEW r \in Request, call'[c].request = r
        PROVE  /\ Live(c) /\ call[c].request = r /\ call'[c].key = call[c].key
               /\ call[c].key \in Key
    <3>1. Live(c)'
      BY <2>3 DEF Live, Typed, CallsNamed, NoCall
    <3>. QED BY <2>1, <2>3, <3>1 DEF Progress, Live, Typed, CallsNamed
  <2>4. \/ effects' = effects
        \/ \E c \in Call : /\ HandlerCommits(c)
                           /\ effects' = [effects EXCEPT ![call[c].request] = @ + 1]
        \/ \E c \in Call : /\ Live(c) /\ excused'[call[c].request]
                           /\ effects' = [effects EXCEPT ![call[c].request] = @ + 1]
    <3>1. ASSUME NEW c \in Call, HandlerFails(c)
          PROVE  \/ effects' = effects
                 \/ /\ Live(c) /\ excused'[call[c].request]
                    /\ effects' = [effects EXCEPT ![call[c].request] = @ + 1]
      <4>1. Live(c) /\ call[c].request \in Request
        BY <3>1 DEF HandlerFails, Live, Typed, CallsNamed
      <4>2. PICK done \in BOOLEAN :
              /\ effects' = [effects EXCEPT ![call[c].request] = IF done THEN @ + 1 ELSE @]
              /\ excused' = [excused EXCEPT ![call[c].request] = @ \/ done]
        BY <3>1 DEF HandlerFails
      <4>3. CASE done
        BY <4>1, <4>2, <4>3 DEF Typed, TypeOK
      <4>4. CASE ~done
        BY <4>1, <4>2, <4>4 DEF Typed, TypeOK
      <4>. QED BY <4>3, <4>4
    <3>2. \A c \in Call : HandlerCommits(c) =>
            effects' = [effects EXCEPT ![call[c].request] = @ + 1]
      BY DEF HandlerCommits
    <3>3. \/ effects' = effects
          \/ \E c \in Call : HandlerCommits(c) \/ HandlerFails(c)
      BY <1>2 DEF Next, vars, UserStep, ServerStep, Fault, Sends, Close, Settle,
         LoseAnswer, TurnAway, CheckStored, AcquireLock, Recheck, HandlerRefuses,
         StoreResponse, Crash, Forget, Tick
    <3>. QED BY <3>1, <3>2, <3>3
  <2>5. OneForm'
    <3>1. ASSUME NEW c \in Call, call'[c].waiting
          PROVE  call[c].waiting /\ call'[c].request = call[c].request
      BY <2>1, <3>1 DEF Progress, Live, Typed, CallsNamed, NoCall
    <3>2. ASSUME NEW r \in Request, user[r] = "idle"
          PROVE  effects'[r] = effects[r] /\ \A c \in Call : call'[c].request # r
      <4>1. \A c \in Call : call[c].request # r
        BY <3>2 DEF Submissions, OneForm
      <4>2. \A c \in Call : call'[c].request # r
        BY <2>3, <4>1
      <4>3. effects' = effects
              \/ \E c \in Call : effects' = [effects EXCEPT ![call[c].request] = @ + 1]
        BY <2>4
      <4>4. effects'[r] = effects[r]
        BY <4>1, <4>3 DEF Typed, TypeOK
      <4>. QED BY <4>2, <4>4
    <3>. QED BY <2>2, <3>1, <3>2 DEF Submissions, OneForm
  <2>6. ASSUME NEW r \in Request, user'[r] = "trying", ~excused'[r]
        PROVE  helper' = helper
    <3>1. user[r] = "trying"
      BY <2>2, <2>6
    <3>2. ASSUME NEW q \in Request, Close(q) PROVE FALSE
      BY <2>6, <3>1, <3>2 DEF Close, Submissions, OneForm, Typed, TypeOK
    <3>3. ASSUME NEW c \in Call, Settle(c) PROVE helper' = helper
      <4>1. call[c].request = r /\ call[c].answer \in Answers
        BY <3>1, <3>3 DEF Settle, Submissions, OneForm, Typed, CallsNamed
      <4>2. call[c].answer # "error"
        BY <2>6, <3>3, <4>1 DEF Settle, Typed, TypeOK
      <4>3. call[c].answer \notin {"ok", "refused", "mismatch"}
        BY <2>6, <3>1, <3>3, <4>1 DEF Settle, Typed, TypeOK
      <4>. QED BY <3>3, <4>1, <4>2, <4>3 DEF Settle, Answers, ShouldReuseKey
    <3>. QED
      BY <1>2, <3>2, <3>3 DEF Next, vars, UserStep, ServerStep, Fault, Sends, LoseAnswer,
         TurnAway, CheckStored, AcquireLock, Recheck, HandlerCommits, HandlerRefuses,
         HandlerFails, StoreResponse, Crash, Forget, Tick
  <2>7. ASSUME NEW r \in Request, ~excused'[r] PROVE OneKey(r)'
    BY <2>2, <2>3, <2>6, <2>7 DEF Submissions, OneKey
  <2>8. ASSUME NEW r \in Request, ~excused'[r], NEW k \in Key, Recorded(r, k)
        PROVE  Recorded(r, k)'
    <3>1. CASE stored[k] = r
      <4>1. ASSUME NEW j \in Key, Forget(j) PROVE stored'[k] = r
        BY <2>8, <3>1, <4>1 DEF Forget, Typed, TypeOK
      <4>2. ASSUME NEW c \in Call, StoreResponse(c) PROVE stored'[k] = r
        <5>1. call[c].key \in Key /\ stored[call[c].key] = Null
          BY <4>2 DEF StoreResponse, Typed, CallsNamed, Keys
        <5>. QED BY <3>1, <4>2, <5>1 DEF StoreResponse, Typed, TypeOK
      <4>3. stored' = stored \/ (\E j \in Key : Forget(j)) \/ (\E c \in Call : StoreResponse(c))
        BY <1>2 DEF Next, vars, UserStep, ServerStep, Fault, Sends, Close, Settle,
           LoseAnswer, TurnAway, CheckStored, AcquireLock, Recheck, HandlerCommits,
           HandlerRefuses, HandlerFails, Crash, Tick
      <4>. QED BY <3>1, <4>1, <4>2, <4>3 DEF Recorded
    <3>2. ASSUME NEW c \in Call, call[c].at = "committed", call[c].request = r,
                 call[c].key = k
          PROVE  Recorded(r, k)'
      <4>1. CASE call'[c].at = "committed"
        BY <2>1, <3>2, <4>1 DEF Progress, Live, Recorded
      <4>2. CASE StoreResponse(c)
        BY <3>2, <4>2 DEF StoreResponse, Recorded, Typed, TypeOK
      <4>3. CASE Crash(c)
        BY <2>8, <3>2, <4>3 DEF Crash, Typed, TypeOK
      <4>. QED BY <2>1, <3>2, <4>1, <4>2, <4>3 DEF Progress
    <3>. QED BY <2>8, <3>1, <3>2 DEF Recorded
  <2>9. ASSUME NEW r \in Request, ~excused'[r], effects'[r] = effects[r] PROVE Effect(r)'
    <3>1. ~excused[r] /\ Effect(r)
      BY <2>2, <2>9 DEF Submissions
    <3>2. user'[r] = "trying" => helper' = helper /\ helper.key \in Key
      BY <2>2, <2>6, <2>9, <3>1 DEF Submissions, OneKey, Typed, HelperNamed, TypeOK
    <3>. QED BY <2>2, <2>3, <2>8, <2>9, <3>1, <3>2 DEF Effect
  <2>10. ASSUME NEW c \in Call, HandlerCommits(c), NEW r \in Request,
                r = call[c].request, ~excused'[r],
                effects' = [effects EXCEPT ![r] = @ + 1]
         PROVE  Effect(r)'
    <3>1. /\ Live(c) /\ call[c].key \in Key /\ call[c].at = "running"
          /\ helper' = helper /\ user' = user
      BY <2>10 DEF HandlerCommits, Live, Typed, CallsNamed
    <3>2. ~excused[r] /\ Effect(r) /\ OneKey(r)
      BY <2>2, <2>10 DEF Submissions
    <3>3. ~Recorded(r, call[c].key)
      <4>1. stored[call[c].key] = Null
        BY <3>1 DEF Keys
      <4>2. ASSUME NEW d \in Call, call[d].at = "committed" PROVE call[d].key # call[c].key
        BY <3>1, <4>2 DEF Locks, Running
      <4>. QED BY <4>1, <4>2 DEF Recorded
    <3>4. effects[r] = 0 /\ effects'[r] = 1
      BY <2>10, <3>2, <3>3 DEF Effect, Typed, TypeOK
    <3>5. call'[c].at = "committed" /\ call'[c].request = r /\ call'[c].key = call[c].key
      <4>1. call[c] \in CallState /\ call'[c] = [call[c] EXCEPT !.at = "committed"]
        BY <2>10 DEF HandlerCommits, Typed, TypeOK
      <4>. QED BY <2>10, <4>1 DEF CallState
    <3>6. \A d \in Call : call'[d].request = r => call'[d].key = call[c].key
      BY <2>3, <2>10, <3>2 DEF OneKey
    <3>7. user'[r] = "trying" => helper'.key = call[c].key
      BY <2>10, <3>1, <3>2 DEF OneKey
    <3>. QED BY <2>3, <3>4, <3>5, <3>6, <3>7 DEF Effect, Recorded
  <2>11. ASSUME NEW r \in Request, ~excused'[r] PROVE Effect(r)'
    <3>1. CASE effects'[r] = effects[r]
      BY <2>9, <2>11, <3>1
    <3>2. CASE effects'[r] # effects[r]
      <4>1. PICK c \in Call : /\ HandlerCommits(c)
                              /\ effects' = [effects EXCEPT ![r] = @ + 1]
                              /\ r = call[c].request
        BY <2>4, <2>11, <3>2 DEF Typed, TypeOK
      <4>. QED BY <2>10, <2>11, <4>1
    <3>. QED BY <3>1, <3>2
  <2>. QED BY <2>5, <2>7, <2>11 DEF Submissions
<1>. QED BY <1>1, <1>2

\* For all contents of the form, keys and calls, a request takes effect twice only
\* after a server error, a crash between effect and stored answer, or the loss of
\* that answer, if the user waits before the form is closed or filled in anew.
THEOREM EffectOnce == ASSUME Patient PROVE Spec => []TakesEffectOnce
<1>. DEFINE I == Typed /\ Locks /\ Keys /\ Submissions
<1>1. Init => I
  <2>. SUFFICES ASSUME Init PROVE I
    OBVIOUS
  <2>1. \A c \in Call : /\ call[c].at = "idle" /\ call[c].answer # "mismatch"
                        /\ ~call[c].waiting /\ call[c].request = Null
    BY RequestAssumption DEF Init, NoCall, Answers
  <2>2. \A r \in Request : user[r] = "idle" /\ effects[r] = 0 /\ r # Null
    BY RequestAssumption DEF Init
  <2>3. Submissions
    BY <2>1, <2>2 DEF Submissions, OneForm, OneKey, Effect
  <2>. QED BY <2>1, <2>3, InitTyped DEF Init, Locks, Keys, Live, Running
<1>2. I /\ [Next]_vars => I'
  BY TypedStep, LocksStep, KeysStep, SubmissionsStep
<1>3. I => TakesEffectOnce
  BY DEF Submissions, Effect, TakesEffectOnce, Typed, TypeOK
<1>. QED BY <1>1, <1>2, <1>3, PTL DEF Spec
=============================================================================
