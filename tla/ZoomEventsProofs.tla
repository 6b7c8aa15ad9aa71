-------------------------- MODULE ZoomEventsProofs --------------------------
(***************************************************************************)
(* For any handlers, fields, values, updates and times: a row is deleted   *)
(* only if Zoom has no meeting, an update is completed only after Zoom got *)
(* its values, and a row that is left alone ends up as Zoom has it.        *)
(***************************************************************************)
EXTENDS ZoomEvents, TLAPS

HandlerState == [pc: {"idle", "asking", "ready"}, event: Event \cup {Null}, check: BOOLEAN,
                 snapshot: Fields \cup {Absent, Null}, opId: Stamp \cup {Null},
                 cutoff: Cutoff \cup {Null}, watermark: 0..MaxTime \cup {Null}]

RequestState == [pc: {"idle", "calling", "answered"}, opId: Stamp \cup {Null},
                 payload: Changes \cup {Null},
                 answer: {"ok", "unknown", "limited", "rejected", Null}]

Types ==
  /\ zoom \in Fields \cup {Absent} /\ row \in Row
  /\ state \in {"scheduled", "started", "ended"}
  /\ request \in RequestState /\ events \subseteq Event
  /\ handler \in [Handler -> HandlerState]
  /\ clock \in 0..MaxTime /\ sent \in 0..MaxEvents
  /\ asked \in 0..MaxRequests /\ repeats \in 0..MaxRepeats
  /\ reached \in BOOLEAN /\ dropped \subseteq Field

RowShape ==
  /\ row.opId # Null <=> row.status \in {"updating", "update_failed"}
  /\ row.opId # Null <=> row.payload # Null

\* What an idle handler and a busy one may look like.
Handlers ==
  \A h \in Handler :
    /\ handler[h].pc = "idle" => handler[h] = Idle
    /\ handler[h].pc # "idle" => handler[h].event \in Event
                                 /\ handler[h].event.type # "deleted"
    /\ handler[h].pc = "asking" => handler[h].check
    /\ handler[h].check => handler[h].event.type = "updated"
    /\ handler[h].pc = "ready" /\ handler[h].check => handler[h].snapshot # Null

\* The request under way is the recorded update, as long as one is recorded.
Requests ==
  /\ request.pc = "idle" => request = NoRequest
  /\ request.pc # "idle" => request.opId # Null /\ request.payload # Null
  /\ request.pc # "idle" /\ row.opId # Null =>
       row.opId = request.opId /\ row.payload = request.payload
  /\ request.pc = "answered" => request.answer # Null

\* The events that may still change the row.
Known == {e \in Event : e \in events \/ \E h \in Handler : handler[h].pc # "idle"
                                                           /\ handler[h].event = e}

Times == \A e \in Known : e.at <= clock /\ e.n <= sent

\* A handler whose event matches the update that was pending when it looked has
\* asked Zoom, or will.
Matching ==
  \A h \in Handler :
    /\ handler[h].pc # "idle" /\ handler[h].event.type = "updated"
    /\ row.opId # Null /\ handler[h].opId = row.opId
    /\ MatchesOperation(row, handler[h].event.changes)
    => handler[h].check

Typed == Types /\ RowShape /\ Handlers /\ Requests /\ Times /\ Matching

-----------------------------------------------------------------------------
(* Fields, rows, stamps and events.                                        *)

LEMMA ChangesForm ==
  ASSUME NEW changes \in Changes
  PROVE  /\ DOMAIN changes \subseteq Field
         /\ \A f \in DOMAIN changes : changes[f] \in Val
  BY DEF Changes

LEMMA OneChange ==
  ASSUME NEW f \in Field, NEW v \in Val
  PROVE  /\ [g \in {f} |-> v] \in Changes
         /\ DOMAIN [g \in {f} |-> v] = {f} /\ [g \in {f} |-> v][f] = v
<1>1. [g \in {f} |-> v] \in [{f} -> Val] /\ {f} \in SUBSET Field
  OBVIOUS
<1>. QED BY <1>1 DEF Changes

LEMMA NoChange == NoChanges \in Changes
  BY DEF NoChanges, Changes

LEMMA UpdatedForm ==
  ASSUME NEW fields \in Fields, NEW changes \in Changes
  PROVE  /\ Updated(fields, changes) \in Fields
         /\ \A f \in DOMAIN changes : Updated(fields, changes)[f] = changes[f]
         /\ \A f \in Field \ DOMAIN changes : Updated(fields, changes)[f] = fields[f]
  BY ChangesForm DEF Updated, Fields

LEMMA CompletedForm ==
  ASSUME NEW r \in Row
  PROVE  /\ Completed(r) \in Row
         /\ Completed(r).status = "active" /\ Completed(r).opId = Null
         /\ Completed(r).payload = Null /\ Completed(r).started = r.started
         /\ Completed(r).cutoff = r.cutoff /\ Completed(r).watermark = r.watermark
         /\ Completed(r).local = r.local
  BY DEF Completed, Row

LEMMA DeletedForm ==
  ASSUME NEW r \in Row, NEW at \in 0..MaxTime
  PROVE  LET d == [Deleted(r) EXCEPT !.watermark = at] IN
         /\ d \in Row
         /\ d.status = "deleted" /\ d.opId = Null /\ d.payload = Null
         /\ d.started = r.started /\ d.cutoff = r.cutoff /\ d.watermark = at
         /\ d.local = r.local
<1>1. /\ Deleted(r) \in Row
      /\ Deleted(r).status = "deleted" /\ Deleted(r).opId = Null
      /\ Deleted(r).payload = Null /\ Deleted(r).started = r.started
      /\ Deleted(r).cutoff = r.cutoff /\ Deleted(r).local = r.local
  BY DEF Deleted, Row
<1>. QED BY <1>1 DEF Row

\* A stamp nobody uses.
LEMMA FreshOp ==
  ASSUME Typed, request.pc = "idle"
  PROVE  NewOp \in Stamp /\ NewOp # row.opId /\ \A h \in Handler : NewOp # handler[h].opId
<1>1. row.opId \in Stamp \cup {Null}
  BY DEF Typed, Types, Row
<1>2. [h \in Handler |-> handler[h].opId] \in [Handler -> Stamp \cup {Null}]
  BY DEF Typed, Types, HandlerState
<1>3. \E s \in Stamp : s # row.opId /\ \A h \in Handler : s # [g \in Handler |-> handler[g].opId][h]
  BY <1>1, <1>2, EventsAssumption
<1>4. request.opId = Null
  BY DEF Typed, Requests, NoRequest
<1>5. \E s \in Stamp : s # row.opId /\ s # request.opId /\ \A h \in Handler : s # handler[h].opId
  BY <1>3, <1>4, EventsAssumption
<1>. QED BY <1>5 DEF NewOp

LEMMA FreshCutoff ==
  ASSUME Typed
  PROVE  /\ NewCutoff \in Cutoff /\ NewCutoff.at = clock /\ NewCutoff # Null
         /\ \A h \in Handler : NewCutoff # handler[h].cutoff
<1>. DEFINE ms(c) == IF c = Null THEN Null ELSE c.ms
            stamp == CHOOSE s \in Stamp :
                       \A c \in {row.cutoff} \cup {handler[h].cutoff : h \in Handler} :
                         c # Null => s # c.ms
<1>1. ms(row.cutoff) \in Stamp \cup {Null}
  BY DEF Typed, Types, Row, Cutoff
<1>2. [h \in Handler |-> ms(handler[h].cutoff)] \in [Handler -> Stamp \cup {Null}]
  BY DEF Typed, Types, HandlerState, Cutoff
<1>3. PICK s \in Stamp :
        /\ s # ms(row.cutoff)
        /\ \A h \in Handler : s # [g \in Handler |-> ms(handler[g].cutoff)][h]
  BY <1>1, <1>2, EventsAssumption
<1>4. \A h \in Handler : s # ms(handler[h].cutoff)
  BY <1>3
<1>5. \A c \in {row.cutoff} \cup {handler[h].cutoff : h \in Handler} : c # Null => s # c.ms
  BY <1>3, <1>4
<1>6. /\ stamp \in Stamp
      /\ \A c \in {row.cutoff} \cup {handler[h].cutoff : h \in Handler} : c # Null => stamp # c.ms
  BY <1>5
<1>7. NewCutoff = [at |-> clock, ms |-> stamp]
  BY DEF NewCutoff
<1>. HIDE DEF stamp
<1>8. NewCutoff \in Cutoff /\ NewCutoff.at = clock /\ NewCutoff # Null
  BY <1>6, <1>7, EventsAssumption DEF Cutoff, Typed, Types
<1>9. \A h \in Handler : NewCutoff # handler[h].cutoff
  BY <1>6, <1>7, <1>8
<1>. QED BY <1>8, <1>9

-----------------------------------------------------------------------------
(* What most steps leave of the row and of the handlers.                   *)

\* The row stays a row, and no update is recorded.
RowGoesOn ==
  /\ row' \in Row /\ RowShape'
  /\ row'.opId # Null =>
       row'.opId = row.opId /\ row'.payload = row.payload /\ row'.started = row.started

\* A handler takes no event, and keeps what it has read of the row.
HandlersGoOn ==
  /\ handler' \in [Handler -> HandlerState]
  /\ \A h \in Handler :
       \/ handler'[h] = Idle
       \/ /\ handler[h].pc # "idle" /\ handler'[h].pc # "idle"
          /\ handler'[h].event = handler[h].event /\ handler'[h].check = handler[h].check
          /\ handler'[h].opId = handler[h].opId /\ handler'[h].cutoff = handler[h].cutoff
          /\ handler'[h].watermark = handler[h].watermark

LEMMA SameRow ==
  ASSUME Typed, row' = row
  PROVE  RowGoesOn
  BY DEF Typed, Types, RowShape, RowGoesOn

LEMMA SameHandlers ==
  ASSUME Typed, handler' = handler
  PROVE  HandlersGoOn
  BY DEF Typed, Types, Handlers, HandlersGoOn

LEMMA FreedHandlers ==
  ASSUME Typed, NEW h \in Handler, Free(h)
  PROVE  HandlersGoOn /\ handler'[h] = Idle /\ \A g \in Handler \ {h} : handler'[g] = handler[g]
<1>1. Idle \in HandlerState
  BY EventsAssumption DEF Idle, HandlerState
<1>2. handler' = [handler EXCEPT ![h] = Idle]
  BY DEF Free
<1>. QED BY <1>1, <1>2 DEF Typed, Types, Handlers, HandlersGoOn

LEMMA KnownGoesOn ==
  ASSUME Typed, HandlersGoOn
  PROVE  /\ events' \subseteq events => Known' \subseteq Known
         /\ \A e : events' \subseteq events \cup {e} => Known' \subseteq Known \cup {e}
<1>1. \A h \in Handler : handler'[h].pc # "idle" =>
        handler[h].pc # "idle" /\ handler'[h].event = handler[h].event
  BY DEF HandlersGoOn, Idle
<1>. QED BY <1>1 DEF Known

LEMMA MatchingGoesOn ==
  ASSUME Typed, RowGoesOn, HandlersGoOn
  PROVE  Matching'
<1>. SUFFICES ASSUME NEW h \in Handler,
                     handler'[h].pc # "idle", handler'[h].event.type = "updated",
                     row'.opId # Null, handler'[h].opId = row'.opId,
                     MatchesOperation(row', handler'[h].event.changes)
              PROVE  handler'[h].check
  BY DEF Matching, MatchesOperation
<1>1. /\ handler[h].pc # "idle" /\ handler'[h].event = handler[h].event
      /\ handler'[h].check = handler[h].check /\ handler'[h].opId = handler[h].opId
  BY DEF HandlersGoOn, Idle
<1>2. row'.opId = row.opId /\ row'.payload = row.payload
  BY DEF RowGoesOn
<1>3. MatchesOperation(row, handler[h].event.changes)
  BY <1>1, <1>2 DEF MatchesOperation
<1>. QED BY <1>1, <1>2, <1>3 DEF Typed, Matching

\* What Zoom sends with a change.
NewEvent(type, changes) == [type |-> type, n |-> sent + 1, at |-> clock, changes |-> changes]

LEMMA SentForm ==
  ASSUME Typed, NEW type \in {"updated", "deleted", "started", "ended"},
         NEW changes \in Changes, Sends(type, changes)
  PROVE  LET e == NewEvent(type, changes) IN
         /\ e \in Event /\ e.type = type /\ e.at = clock /\ e.n = sent + 1
         /\ e.changes = changes /\ e \notin Known
         /\ events' = events \cup {e} /\ sent' = sent + 1 /\ sent' \in 0..MaxEvents
<1>. DEFINE e == NewEvent(type, changes)
<1>1. sent \in Nat /\ sent + 1 \in 1..MaxEvents
  BY EventsAssumption DEF Sends, Typed, Types
<1>2. e \in Event /\ e.type = type /\ e.at = clock /\ e.n = sent + 1 /\ e.changes = changes
  BY <1>1 DEF NewEvent, Event, Typed, Types
<1>3. events' = events \cup {e} /\ sent' = sent + 1
  BY DEF Sends, NewEvent
<1>4. e \notin Known
  <2>1. \A k \in Known : k.n <= sent
    BY DEF Typed, Times
  <2>. HIDE DEF e
  <2>. QED BY <1>1, <1>2, <2>1
<1>. QED BY <1>1, <1>2, <1>3, <1>4

\* Steps that send one event, and that send none.
LEMMA SendsTyped ==
  ASSUME Typed, UNCHANGED <<row, handler, clock>>, Requests', Types',
         NEW e \in Event, events' = events \cup {e}, e.at = clock, e.n = sent + 1,
         sent' = sent + 1
  PROVE  Typed'
<1>1. RowGoesOn /\ HandlersGoOn
  BY SameRow, SameHandlers
<1>2. Known' \subseteq Known \cup {e}
  BY <1>1, KnownGoesOn
<1>3. Times'
  <2>. SUFFICES ASSUME NEW k \in Known' PROVE k.at <= clock' /\ k.n <= sent'
    BY DEF Times
  <2>1. sent \in Nat /\ clock \in Nat
    BY EventsAssumption DEF Typed, Types
  <2>2. CASE k \in Known
    <3>1. k.at <= clock /\ k.n <= sent
      BY <2>2 DEF Typed, Times
    <3>2. k.at \in Nat /\ k.n \in Nat
      BY <2>2, EventsAssumption DEF Known, Event
    <3>. QED BY <2>1, <3>1, <3>2
  <2>. QED BY <1>2, <2>1, <2>2
<1>4. Handlers' /\ RowShape'
  BY DEF Typed, Handlers, RowShape
<1>. QED BY <1>1, <1>3, <1>4, MatchingGoesOn DEF Typed

LEMMA QuietTyped ==
  ASSUME Typed, RowGoesOn, HandlersGoOn, Handlers', Requests', Types',
         events' \subseteq events, sent' = sent, clock' >= clock
  PROVE  Typed' /\ Known' \subseteq Known
<1>1. Known' \subseteq Known
  BY KnownGoesOn
<1>2. Times'
  <2>. SUFFICES ASSUME NEW k \in Known PROVE k.at <= clock' /\ k.n <= sent'
    BY <1>1 DEF Times
  <2>1. k.at \in Nat /\ clock \in Nat /\ clock' \in Nat
    BY EventsAssumption DEF Known, Event, Typed, Types
  <2>. QED BY <2>1 DEF Typed, Times
<1>. QED BY <1>1, <1>2, MatchingGoesOn DEF Typed, RowGoesOn

-----------------------------------------------------------------------------
(* Every step keeps the types.                                             *)

LEMMA InitTyped == Init => Typed
<1>. SUFFICES ASSUME Init PROVE Typed
  OBVIOUS
<1>. USE EventsAssumption
<1>1. PICK fields \in Fields :
        /\ zoom = fields
        /\ row = [status |-> "active", opId |-> Null, payload |-> Null,
                  started |-> 0, cutoff |-> Null, watermark |-> Null, local |-> fields]
  BY DEF Init
<1>2. row \in Row /\ RowShape
  BY <1>1 DEF Row, RowShape
<1>3. Idle \in HandlerState /\ \A h \in Handler : handler[h] = Idle
  BY DEF Init, Idle, HandlerState
<1>4. request \in RequestState /\ request = NoRequest
  BY DEF Init, NoRequest, RequestState
<1>5. Types
  <2>1. handler \in [Handler -> HandlerState]
    BY <1>3 DEF Init
  <2>2. clock \in 0..MaxTime /\ sent \in 0..MaxEvents /\ asked \in 0..MaxRequests
        /\ repeats \in 0..MaxRepeats /\ events = {} /\ dropped = {} /\ reached = FALSE
        /\ state = "scheduled"
    BY DEF Init
  <2>. QED BY <1>1, <1>2, <1>4, <2>1, <2>2 DEF Types
<1>6. \A h \in Handler : handler[h].pc = "idle" /\ ~handler[h].check
  BY <1>3 DEF Idle
<1>7. Handlers /\ Matching
  BY <1>3, <1>6 DEF Handlers, Matching
<1>9. Times
  BY <1>6 DEF Init, Times, Known
<1>8. Requests
  BY <1>4 DEF Requests, NoRequest
<1>. QED BY <1>2, <1>5, <1>7, <1>8, <1>9 DEF Typed

LEMMA HostEditsTyped ==
  ASSUME Typed, HostEdits
  PROVE  Typed'
<1>1. PICK f \in Field, v \in Val :
        zoom' = [zoom EXCEPT ![f] = v] /\ Sends("updated", [g \in {f} |-> v])
  BY DEF HostEdits
<1>2. zoom' \in Fields
  BY <1>1 DEF HostEdits, Typed, Types, Fields
<1>. DEFINE e == NewEvent("updated", [g \in {f} |-> v])
<1>3. /\ e \in Event /\ e.at = clock /\ e.n = sent + 1
      /\ events' = events \cup {e} /\ sent' = sent + 1 /\ sent' \in 0..MaxEvents
  BY <1>1, OneChange, SentForm
<1>. HIDE DEF e
<1>4. UNCHANGED <<row, state, request, handler, clock, dropped, asked, repeats>>
      /\ reached' \in BOOLEAN
  BY DEF HostEdits, Reaches
<1>5. Types'
  BY <1>2, <1>3, <1>4 DEF Typed, Types
<1>6. Requests'
  BY <1>4 DEF Typed, Requests
<1>. QED BY <1>3, <1>4, <1>5, <1>6, SendsTyped

LEMMA HostMeetsTyped ==
  ASSUME Typed, HostDeletes \/ HostMeets
  PROVE  Typed'
<1>1. PICK type \in {"deleted", "started", "ended"} : Sends(type, NoChanges)
  BY DEF HostDeletes, HostMeets
<1>. DEFINE e == NewEvent(type, NoChanges)
<1>2. /\ e \in Event /\ e.at = clock /\ e.n = sent + 1
      /\ events' = events \cup {e} /\ sent' = sent + 1 /\ sent' \in 0..MaxEvents
  BY <1>1, NoChange, SentForm
<1>. HIDE DEF e
<1>3. UNCHANGED <<row, state, request, handler, clock, reached, dropped, asked, repeats>>
      /\ zoom' \in {zoom, Absent}
  BY DEF HostDeletes, HostMeets
<1>4. Types'
  BY <1>2, <1>3 DEF Typed, Types
<1>5. Requests'
  BY <1>3 DEF Typed, Requests
<1>. QED BY <1>2, <1>3, <1>4, <1>5, SendsTyped

LEMMA TickTyped ==
  ASSUME Typed, Tick
  PROVE  Typed'
<1>1. clock \in Nat /\ clock' = clock + 1 /\ clock' \in 0..MaxTime
  BY EventsAssumption DEF Tick, Typed, Types
<1>2. UNCHANGED <<zoom, row, state, request, events, handler, sent, reached, dropped, asked, repeats>>
  BY DEF Tick
<1>3. Types'
  BY <1>1, <1>2 DEF Typed, Types
<1>4. Requests' /\ Handlers'
  BY <1>2 DEF Typed, Requests, Handlers
<1>. QED BY <1>1, <1>2, <1>3, <1>4, SameRow, SameHandlers, QuietTyped

LEMMA SaveUpdateIntentTyped ==
  ASSUME Typed, SaveUpdateIntent
  PROVE  Typed'
<1>1. PICK payload \in Payload :
        /\ row' = [row EXCEPT !.status = "updating", !.opId = NewOp,
                              !.payload = payload, !.started = clock]
        /\ request' = [pc |-> "calling", opId |-> NewOp, payload |-> payload, answer |-> Null]
  BY DEF SaveUpdateIntent
<1>2. /\ NewOp \in Stamp /\ NewOp # Null
      /\ \A h \in Handler : NewOp # handler[h].opId
      /\ payload \in Changes /\ payload # Null
  BY FreshOp, EventsAssumption DEF SaveUpdateIntent
<1>3. /\ row' \in Row /\ row'.status = "updating" /\ row'.opId = NewOp
      /\ row'.payload = payload
  BY <1>1, <1>2 DEF Typed, Types, Row
<1>4. UNCHANGED <<zoom, state, events, handler, clock, sent, dropped, repeats>>
      /\ reached' = FALSE /\ asked' = asked + 1 /\ asked < MaxRequests
  BY DEF SaveUpdateIntent
<1>5. Types'
  <2>1. request' \in RequestState
    BY <1>1, <1>2 DEF RequestState
  <2>2. asked' \in 0..MaxRequests
    BY <1>4, EventsAssumption DEF Typed, Types
  <2>. QED BY <1>3, <1>4, <2>1, <2>2 DEF Typed, Types
<1>6. RowShape' /\ Handlers'
  BY <1>2, <1>3, <1>4 DEF Typed, RowShape, Handlers
<1>7. Requests'
  BY <1>1, <1>2, <1>3 DEF Requests
<1>8. Times'
  BY <1>4 DEF Typed, Times, Known
<1>9. Matching'
  BY <1>2, <1>3, <1>4 DEF Matching
<1>. QED BY <1>5, <1>6, <1>7, <1>8, <1>9 DEF Typed

LEMMA AnswerForm ==
  ASSUME Typed, request.pc # "idle", NEW answer \in {"ok", "unknown", "limited", "rejected"},
         request' = [request EXCEPT !.pc = "answered", !.answer = answer], row' = row
  PROVE  /\ request' \in RequestState /\ Requests'
         /\ request'.pc = "answered" /\ request'.answer = answer
         /\ request'.opId = request.opId /\ request'.payload = request.payload
<1>1. /\ request' \in RequestState
      /\ request'.pc = "answered" /\ request'.answer = answer
      /\ request'.opId = request.opId /\ request'.payload = request.payload
  BY DEF Typed, Types, RequestState
<1>2. answer # Null
  BY EventsAssumption
<1>. QED BY <1>1, <1>2 DEF Typed, Requests

LEMMA ZoomAppliesTyped ==
  ASSUME Typed, ZoomApplies
  PROVE  Typed'
<1>1. /\ request.pc = "calling" /\ zoom \in Fields /\ request.payload \in Changes
      /\ zoom' = Updated(zoom, request.payload) /\ Sends("updated", request.payload)
  BY DEF ZoomApplies, Typed, Types, Requests, RequestState
<1>2. zoom' \in Fields
  BY <1>1, UpdatedForm
<1>. DEFINE e == NewEvent("updated", request.payload)
<1>3. /\ e \in Event /\ e.at = clock /\ e.n = sent + 1
      /\ events' = events \cup {e} /\ sent' = sent + 1 /\ sent' \in 0..MaxEvents
  BY <1>1, SentForm
<1>. HIDE DEF e
<1>4. UNCHANGED <<row, state, handler, clock, dropped, asked, repeats>> /\ reached' \in BOOLEAN
  BY DEF ZoomApplies, Reaches
<1>5. request' \in RequestState /\ Requests'
  BY <1>1, <1>4, AnswerForm DEF ZoomApplies
<1>6. Types'
  BY <1>2, <1>3, <1>4, <1>5 DEF Typed, Types
<1>. QED BY <1>3, <1>4, <1>5, <1>6, SendsTyped

LEMMA ZoomDoesNotApplyTyped ==
  ASSUME Typed, ZoomDoesNotApply
  PROVE  Typed'
<1>1. UNCHANGED <<zoom, row, state, events, handler, clock, sent, reached, dropped, asked, repeats>>
  BY DEF ZoomDoesNotApply
<1>2. request' \in RequestState /\ Requests'
  BY <1>1, AnswerForm DEF ZoomDoesNotApply
<1>3. Types'
  BY <1>1, <1>2 DEF Typed, Types
<1>4. clock \in Nat /\ Handlers'
  BY <1>1, EventsAssumption DEF Typed, Types, Handlers
<1>. QED BY <1>1, <1>2, <1>3, <1>4, SameRow, SameHandlers, QuietTyped

-----------------------------------------------------------------------------
(* The answer to the request, and the transactions of the handlers.        *)

\* What the row is after the answer to the request that is still recorded.
LEMMA AnswerRow ==
  ASSUME Typed, request.pc = "answered", row.opId = request.opId
  PROVE  /\ AfterAnswer \in Row
         /\ AfterAnswer.started = row.started /\ AfterAnswer.watermark = row.watermark
         /\ \/ /\ AfterAnswer.opId = row.opId /\ AfterAnswer.payload = row.payload
               /\ AfterAnswer.status \in {"updating", "update_failed"}
               /\ AfterAnswer.local = row.local /\ AfterAnswer.cutoff = row.cutoff
            \/ /\ AfterAnswer.opId = Null /\ AfterAnswer.payload = Null
               /\ AfterAnswer.status = "active"
               /\ \/ /\ request.answer = "limited"
                     /\ AfterAnswer.local = row.local /\ AfterAnswer.cutoff = row.cutoff
                  \/ /\ request.answer = "ok"
                     /\ AfterAnswer.local = Updated(row.local, request.payload)
                     /\ AfterAnswer.cutoff = NewCutoff
<1>1. /\ request.answer \in {"ok", "unknown", "limited", "rejected"}
      /\ request.payload \in Changes /\ row.opId # Null /\ row \in Row
      /\ row.status \in {"updating", "update_failed"} /\ row.local \in Fields
  BY DEF Typed, Types, Requests, RequestState, RowShape, Row
<1>2. CASE request.answer = "ok" /\ Password \in DOMAIN request.payload
  <2>1. AfterAnswer = row
    BY <1>2 DEF AfterAnswer
  <2>. QED BY <1>1, <2>1
<1>3. CASE request.answer = "ok" /\ Password \notin DOMAIN request.payload
  <2>. DEFINE c == Completed(row)
              local == Updated(row.local, request.payload)
  <2>1. AfterAnswer = [c EXCEPT !.local = local, !.cutoff = NewCutoff]
    BY <1>3 DEF AfterAnswer
  <2>2. local \in Fields /\ NewCutoff \in Cutoff
    BY <1>1, UpdatedForm, FreshCutoff
  <2>3. /\ c \in Row /\ c.status = "active" /\ c.opId = Null
        /\ c.payload = Null /\ c.started = row.started /\ c.watermark = row.watermark
    BY <1>1, CompletedForm
  <2>. HIDE DEF c, local
  <2>4. /\ AfterAnswer \in Row /\ AfterAnswer.status = "active" /\ AfterAnswer.opId = Null
        /\ AfterAnswer.payload = Null /\ AfterAnswer.started = row.started
        /\ AfterAnswer.watermark = row.watermark
        /\ AfterAnswer.local = local /\ AfterAnswer.cutoff = NewCutoff
    BY <2>1, <2>2, <2>3 DEF Row
  <2>. QED BY <1>3, <2>4 DEF local
<1>4. CASE request.answer = "limited"
  <2>1. AfterAnswer = Completed(row)
    BY <1>4 DEF AfterAnswer
  <2>. QED BY <1>1, <1>4, <2>1, CompletedForm
<1>5. CASE request.answer = "unknown"
  <2>1. AfterAnswer = [row EXCEPT !.status = "updating"]
    BY <1>5 DEF AfterAnswer
  <2>. QED BY <1>1, <2>1 DEF Row
<1>6. CASE request.answer = "rejected"
  <2>1. AfterAnswer = [row EXCEPT !.status = "update_failed"]
    BY <1>6 DEF AfterAnswer
  <2>. QED BY <1>1, <2>1 DEF Row
<1>. QED BY <1>1, <1>2, <1>3, <1>4, <1>5, <1>6

LEMMA RequestSettlesTyped ==
  ASSUME Typed, RequestSettles
  PROVE  Typed' /\ RowGoesOn /\ Known' \subseteq Known
<1>1. /\ request.pc = "answered" /\ request' = NoRequest
      /\ UNCHANGED <<zoom, state, events, handler, clock, sent, reached, dropped, asked, repeats>>
  BY DEF RequestSettles
<1>2. RowGoesOn
  <2>1. CASE row.opId = request.opId
    <3>1. row' = AfterAnswer
      BY <2>1 DEF RequestSettles
    <3>2. row.opId # Null
      BY <1>1, <2>1 DEF Typed, Requests
    <3>. QED BY <1>1, <2>1, <3>1, <3>2, AnswerRow DEF RowGoesOn, RowShape, Typed
  <2>2. CASE row.opId # request.opId
    BY <2>2, SameRow DEF RequestSettles
  <2>. QED BY <2>1, <2>2
<1>3. NoRequest \in RequestState /\ NoRequest.pc = "idle"
  BY DEF NoRequest, RequestState
<1>4. Types' /\ Requests'
  BY <1>1, <1>2, <1>3 DEF Typed, Types, RowGoesOn, Requests
<1>5. Handlers' /\ clock \in Nat
  BY <1>1, EventsAssumption DEF Typed, Types, Handlers
<1>. QED BY <1>1, <1>2, <1>4, <1>5, SameHandlers, QuietTyped

\* What a handler that commits does to the row.
Ignores(h) ==
  /\ row' = row /\ Settle(handler[h].event) /\ Ignore(handler[h].event)

Loses(h) == row' = row /\ events' = events /\ UNCHANGED <<dropped, repeats>>

Deletes(h) ==
  /\ IsMissingAtZoom(h) /\ Settle(handler[h].event) /\ UNCHANGED dropped
  /\ row' = [Deleted(row) EXCEPT !.watermark = handler[h].event.at]

Contradicts(h) ==
  /\ HasPendingUpdate(row) /\ MatchesOperation(row, handler[h].event.changes)
  /\ row' = [row EXCEPT !.watermark = handler[h].event.at]
  /\ Settle(handler[h].event) /\ Ignore(handler[h].event)

Saved(h) == [row EXCEPT !.local = handler[h].snapshot, !.cutoff = NewCutoff,
                        !.watermark = handler[h].event.at]

Confirmed(h) ==
  /\ HasPendingUpdate(row) /\ MatchesOperation(row, handler[h].event.changes)
  /\ handler[h].check /\ handler[h].snapshot \in Fields
  /\ row' = IF PredatesPendingOperation(row, handler[h].event.at) THEN Saved(h)
            ELSE Completed(Saved(h))
  /\ Settle(handler[h].event) /\ UNCHANGED dropped

Reconciles(h) ==
  /\ row.status = "active" /\ handler[h].check /\ handler[h].snapshot \in Fields
  /\ row' = Saved(h)
  /\ Settle(handler[h].event) /\ UNCHANGED dropped

Takes(h) ==
  /\ row.status = "active" /\ ~handler[h].check
  /\ row' = [row EXCEPT !.local = Updated(row.local, handler[h].event.changes),
                        !.watermark = handler[h].event.at]
  /\ Settle(handler[h].event) /\ UNCHANGED dropped

LeavesDeleted(h) ==
  /\ row.status = "deleted" /\ row' = row
  /\ Settle(handler[h].event) /\ UNCHANGED dropped

\* The cases of a transaction.  A matching update was checked, so that what is
\* compared with it and saved is what Zoom has shown.
LEMMA ProcessCases ==
  ASSUME Typed, NEW h \in Handler, ProcessUpdate(h)
  PROVE  \/ Ignores(h) \/ Loses(h)
         \/ /\ MeetingDidNotChange(h) /\ ~IsStaleProviderEvent(row, handler[h].event.at)
            /\ \/ Deletes(h) \/ Contradicts(h) \/ Confirmed(h) \/ Reconciles(h) \/ Takes(h)
               \/ LeavesDeleted(h)
<1>. DEFINE e == handler[h].event
<1>1. /\ handler[h].pc = "ready" /\ e \in Event /\ e.type = "updated"
      /\ handler[h].snapshot \in Fields \cup {Absent, Null}
      /\ handler[h].check => handler[h].snapshot # Null
  BY DEF ProcessUpdate, Typed, Types, HandlerState, Handlers
<1>2. CASE IsStaleProviderEvent(row, e.at)
  BY <1>2 DEF ProcessUpdate, Ignores
<1>3. CASE ~IsStaleProviderEvent(row, e.at) /\ ~MeetingDidNotChange(h)
  BY <1>3 DEF ProcessUpdate, Loses
<1>4. CASE ~IsStaleProviderEvent(row, e.at) /\ MeetingDidNotChange(h)
  <2>1. CASE IsMissingAtZoom(h)
    BY <1>4, <2>1 DEF ProcessUpdate, Deletes
  <2>2. CASE ~IsMissingAtZoom(h) /\ HasPendingUpdate(row)
    <3>1. Settle(e) /\ ProcessPendingUpdate(h, e)
      BY <1>4, <2>2 DEF ProcessUpdate
    <3>2. CASE ~MatchesOperation(row, e.changes)
      BY <3>1, <3>2 DEF ProcessPendingUpdate, Ignores
    <3>3. CASE MatchesOperation(row, e.changes)
      <4>1. handler[h].check
        BY <1>1, <1>4, <2>2, <3>3 DEF Typed, Matching, MeetingDidNotChange, HasPendingUpdate
      <4>2. handler[h].snapshot \in Fields
        BY <1>1, <2>2, <4>1 DEF IsMissingAtZoom
      <4>3. CASE ZoomHasRequestedFields(row.payload, handler[h].snapshot)
        <5>1. row' = AfterConfirmation(h, e.at) /\ UNCHANGED dropped
          BY <3>1, <3>3, <4>3 DEF ProcessPendingUpdate
        <5>2. Confirmed(h)
          BY <2>2, <3>1, <3>3, <4>1, <4>2, <5>1 DEF Confirmed, AfterConfirmation, Saved
        <5>. QED BY <1>4, <5>2
      <4>4. CASE ~ZoomHasRequestedFields(row.payload, handler[h].snapshot)
        <5>1. Contradicts(h)
          BY <2>2, <3>1, <3>3, <4>4 DEF ProcessPendingUpdate, Contradicts
        <5>. QED BY <1>4, <5>1
      <4>. QED BY <4>3, <4>4
    <3>. QED BY <3>2, <3>3
  <2>3. CASE ~IsMissingAtZoom(h) /\ ~HasPendingUpdate(row)
    <3>1. /\ Settle(e) /\ UNCHANGED dropped
          /\ row' = IF row.status = "active" THEN AfterUpdate(h, e) ELSE row
      BY <1>4, <2>3 DEF ProcessUpdate
    <3>2. row.status \in {"active", "deleted"}
      BY <2>3 DEF HasPendingUpdate, Typed, Types, RowShape, Row
    <3>3. CASE row.status = "deleted"
      BY <1>4, <3>1, <3>3 DEF LeavesDeleted
    <3>4. CASE row.status = "active" /\ handler[h].check
      <4>1. handler[h].snapshot \in Fields
        BY <1>1, <2>3, <3>4 DEF IsMissingAtZoom
      <4>2. Reconciles(h)
        BY <3>1, <3>4, <4>1 DEF Reconciles, AfterUpdate, Saved
      <4>. QED BY <1>4, <4>2
    <3>5. CASE row.status = "active" /\ ~handler[h].check
      <4>1. Takes(h)
        BY <3>1, <3>5 DEF Takes, AfterUpdate
      <4>. QED BY <1>4, <4>1
    <3>. QED BY <3>2, <3>3, <3>4, <3>5
  <2>. QED BY <2>1, <2>2, <2>3
<1>. QED BY <1>2, <1>3, <1>4

\* The row after each of them.
LEMMA SavedRow ==
  ASSUME Typed, NEW h \in Handler, handler[h].pc # "idle", handler[h].snapshot \in Fields
  PROVE  /\ Saved(h) \in Row
         /\ Saved(h).status = row.status /\ Saved(h).opId = row.opId
         /\ Saved(h).payload = row.payload /\ Saved(h).started = row.started
         /\ Saved(h).cutoff = NewCutoff /\ Saved(h).watermark = handler[h].event.at
         /\ Saved(h).local = handler[h].snapshot
<1>1. handler[h].event.at \in 0..MaxTime /\ row \in Row
  BY DEF Typed, Types, Handlers, Event
<1>2. NewCutoff \in Cutoff
  BY FreshCutoff
<1>. DEFINE at == handler[h].event.at
            fields == handler[h].snapshot
<1>3. at \in 0..MaxTime \cup {Null} /\ NewCutoff \in Cutoff \cup {Null} /\ fields \in Fields
  BY <1>1, <1>2
<1>4. Saved(h) = [row EXCEPT !.local = fields, !.cutoff = NewCutoff, !.watermark = at]
  BY DEF Saved
<1>. HIDE DEF at, fields
<1>5. /\ Saved(h) \in Row
      /\ Saved(h).status = row.status /\ Saved(h).opId = row.opId
      /\ Saved(h).payload = row.payload /\ Saved(h).started = row.started
      /\ Saved(h).cutoff = NewCutoff /\ Saved(h).watermark = at /\ Saved(h).local = fields
  BY <1>1, <1>3, <1>4 DEF Row
<1>. QED BY <1>5 DEF at, fields

LEMMA ProcessRow ==
  ASSUME Typed, NEW h \in Handler, ProcessUpdate(h), row' # row
  PROVE  /\ RowGoesOn /\ row'.watermark = handler[h].event.at
         /\ \/ row'.status = "deleted" /\ row'.local = row.local
            \/ /\ row'.status = row.status /\ row'.opId = row.opId
            \/ row'.status = "active" /\ row'.opId = Null
<1>. DEFINE at == handler[h].event.at
<1>1. /\ at \in 0..MaxTime /\ row \in Row /\ RowShape /\ handler[h].pc # "idle"
      /\ handler[h].event \in Event
  BY DEF ProcessUpdate, Typed, Types, Handlers, Event
<1>2. CASE Deletes(h)
  BY <1>1, <1>2, DeletedForm DEF Deletes, RowGoesOn, RowShape
<1>3. CASE Contradicts(h)
  <2>1. /\ row' \in Row /\ row'.status = row.status /\ row'.opId = row.opId
        /\ row'.payload = row.payload /\ row'.started = row.started /\ row'.watermark = at
    BY <1>1, <1>3 DEF Contradicts, Row
  <2>. QED BY <1>1, <2>1 DEF RowGoesOn, RowShape
<1>4. CASE Confirmed(h)
  <2>1. CASE PredatesPendingOperation(row, at)
    <3>1. row' = Saved(h)
      BY <1>4, <2>1 DEF Confirmed
    <3>. QED BY <1>1, <1>4, <3>1, SavedRow DEF Confirmed, RowGoesOn, RowShape
  <2>2. CASE ~PredatesPendingOperation(row, at)
    <3>1. row' = Completed(Saved(h))
      BY <1>4, <2>2 DEF Confirmed
    <3>2. Saved(h) \in Row /\ Saved(h).watermark = at
      BY <1>1, <1>4, SavedRow DEF Confirmed
    <3>. QED BY <3>1, <3>2, CompletedForm DEF RowGoesOn, RowShape
  <2>. QED BY <2>1, <2>2
<1>5. CASE Reconciles(h)
  BY <1>1, <1>5, SavedRow DEF Reconciles, RowGoesOn, RowShape
<1>6. CASE Takes(h)
  <2>. DEFINE local == Updated(row.local, handler[h].event.changes)
  <2>1. local \in Fields
    BY <1>1, UpdatedForm DEF Row, Event
  <2>2. row' = [row EXCEPT !.local = local, !.watermark = at]
    BY <1>6 DEF Takes
  <2>. HIDE DEF local
  <2>3. /\ row' \in Row /\ row'.status = row.status /\ row'.opId = row.opId
        /\ row'.payload = row.payload /\ row'.started = row.started /\ row'.watermark = at
    BY <1>1, <2>1, <2>2 DEF Row
  <2>. QED BY <1>1, <2>3 DEF RowGoesOn, RowShape
<1>. QED
  BY <1>2, <1>3, <1>4, <1>5, <1>6, ProcessCases DEF Ignores, Loses, LeavesDeleted

LEMMA SettleForm ==
  ASSUME Typed, NEW e, Settle(e)
  PROVE  events' \subseteq events /\ repeats' \in 0..MaxRepeats /\ events \ {e} \subseteq events'
  BY EventsAssumption DEF Settle, HandedOverAgain, Typed, Types

\* A step of a handler that changes nothing but the row, and frees the handler.
LEMMA FreeTyped ==
  ASSUME Typed, RowGoesOn, NEW h \in Handler, Free(h), events' \subseteq events,
         repeats' \in 0..MaxRepeats, state' \in {"scheduled", "started", "ended"},
         dropped' \subseteq Field, UNCHANGED <<zoom, request, clock, sent, reached, asked>>
  PROVE  Typed' /\ HandlersGoOn /\ Known' \subseteq Known
<1>1. HandlersGoOn /\ handler'[h] = Idle /\ \A g \in Handler \ {h} : handler'[g] = handler[g]
  BY FreedHandlers
<1>2. Types'
  BY <1>1 DEF Typed, Types, RowGoesOn, HandlersGoOn
<1>3. Requests'
  BY DEF Typed, Requests, RowGoesOn
<1>4. Idle.pc = "idle" /\ Idle.check = FALSE
  BY DEF Idle
<1>5. Handlers' /\ clock \in Nat
  BY <1>1, <1>4, EventsAssumption DEF Typed, Types, Handlers
<1>. QED BY <1>1, <1>2, <1>3, <1>5, QuietTyped

LEMMA ProcessUpdateTyped ==
  ASSUME Typed, NEW h \in Handler, ProcessUpdate(h)
  PROVE  Typed' /\ RowGoesOn /\ HandlersGoOn /\ Known' \subseteq Known
<1>1. RowGoesOn
  BY SameRow, ProcessRow
<1>2. /\ events' \subseteq events /\ repeats' \in 0..MaxRepeats
      /\ dropped' = dropped \/ Ignore(handler[h].event)
  BY ProcessCases, SettleForm
  DEF Ignores, Loses, Deletes, Contradicts, Confirmed, Reconciles, Takes, LeavesDeleted,
      Typed, Types
<1>3. dropped' \subseteq Field
  <2>1. handler[h].event.changes \in Changes
    BY DEF ProcessUpdate, Typed, Handlers, Event
  <2>. QED BY <1>2, <2>1, ChangesForm DEF Ignore, Typed, Types
<1>4. Free(h) /\ UNCHANGED <<zoom, state, request, clock, sent, reached, asked>>
  BY DEF ProcessUpdate
<1>. QED BY <1>1, <1>2, <1>3, <1>4, FreeTyped DEF Typed, Types

LEMMA HandlerStepTyped ==
  ASSUME Typed, NEW h \in Handler, Transition(h) \/ Die(h)
  PROVE  Typed' /\ RowGoesOn /\ HandlersGoOn /\ Known' \subseteq Known
<1>1. /\ Free(h) /\ row' = row /\ UNCHANGED <<zoom, request, clock, sent, reached, asked, dropped>>
      /\ events' \subseteq events /\ repeats' \in 0..MaxRepeats
  BY SettleForm, EventsAssumption DEF Transition, Die, HandedOverAgain, Typed, Types
<1>2. state' \in {"scheduled", "started", "ended"}
  BY DEF Transition, Die, Typed, Types
<1>. QED BY <1>1, <1>2, SameRow, FreeTyped DEF Typed, Types

LEMMA SettleTyped ==
  ASSUME Typed, NEW h \in Handler,
         \/ IgnoresStaleUpdate(h) \/ HandleMeetingDeleted(h)
         \/ CheckStatus(h) /\ handler' = handler
  PROVE  Typed' /\ RowGoesOn /\ HandlersGoOn /\ Known' \subseteq Known
<1>1. /\ events' \subseteq events /\ repeats' \in 0..MaxRepeats
      /\ UNCHANGED <<zoom, state, request, clock, sent, reached, asked, handler>>
  BY SettleForm DEF IgnoresStaleUpdate, HandleMeetingDeleted, CheckStatus, Typed, Types
<1>2. dropped' \subseteq Field
  BY ChangesForm
  DEF IgnoresStaleUpdate, Ignore, HandleMeetingDeleted, CheckStatus, Typed, Types, Event
<1>3. RowGoesOn
  <2>1. CASE row' = row
    BY <2>1, SameRow
  <2>2. ASSUME row' # row PROVE RowGoesOn
    <3>1. PICK e \in events : row' = [Deleted(row) EXCEPT !.watermark = e.at]
      BY <2>2 DEF IgnoresStaleUpdate, HandleMeetingDeleted, CheckStatus
    <3>. QED BY <3>1, DeletedForm DEF Typed, Types, Event, RowGoesOn, RowShape
  <2>. QED BY <2>1, <2>2
<1>4. Types'
  BY <1>1, <1>2, <1>3 DEF Typed, Types, RowGoesOn
<1>5. Requests'
  BY <1>1, <1>3 DEF Typed, Requests, RowGoesOn
<1>6. Handlers' /\ clock \in Nat
  BY <1>1, EventsAssumption DEF Typed, Types, Handlers
<1>. QED BY <1>1, <1>3, <1>4, <1>5, <1>6, SameHandlers, QuietTyped

LEMMA GetMeetingTyped ==
  ASSUME Typed, NEW h \in Handler, GetMeeting(h)
  PROVE  /\ Typed' /\ RowGoesOn /\ HandlersGoOn /\ Known' \subseteq Known
         /\ handler[h].check /\ handler'[h].pc = "ready" /\ handler'[h].snapshot = zoom
         /\ \A g \in Handler \ {h} : handler'[g] = handler[g]
<1>1. /\ handler[h].pc = "asking" /\ handler[h] \in HandlerState
      /\ handler' = [handler EXCEPT ![h] = [handler[h] EXCEPT !.pc = "ready", !.snapshot = zoom]]
      /\ UNCHANGED <<zoom, row, state, request, events, clock, sent, reached, dropped, asked, repeats>>
  BY DEF GetMeeting, Typed, Types
<1>2. zoom \in Fields \cup {Absent} /\ zoom # Null
  BY EventsAssumption DEF Typed, Types
<1>. DEFINE new == [handler[h] EXCEPT !.pc = "ready", !.snapshot = zoom]
<1>3. /\ new \in HandlerState /\ new.pc = "ready" /\ new.snapshot = zoom
      /\ new.event = handler[h].event /\ new.check = handler[h].check
      /\ new.opId = handler[h].opId /\ new.cutoff = handler[h].cutoff
      /\ new.watermark = handler[h].watermark
  BY <1>1, <1>2 DEF HandlerState
<1>. HIDE DEF new
<1>4. /\ handler' \in [Handler -> HandlerState] /\ handler'[h] = new
      /\ \A g \in Handler \ {h} : handler'[g] = handler[g]
  BY <1>1, <1>3 DEF new, Typed, Types
<1>5. HandlersGoOn
  BY <1>1, <1>3, <1>4 DEF HandlersGoOn, Typed, Handlers
<1>6. Types' /\ Requests' /\ clock \in Nat
  BY <1>1, <1>4, EventsAssumption DEF Typed, Types, Requests
<1>7. Handlers'
  BY <1>1, <1>2, <1>3, <1>4 DEF Typed, Handlers
<1>8. handler[h].check
  BY <1>1 DEF Typed, Handlers
<1>. QED BY <1>1, <1>3, <1>4, <1>5, <1>6, <1>7, <1>8, SameRow, QuietTyped

\* A handler takes an event: it has read the row, and asks Zoom if the event may
\* be one that was overtaken or may confirm the pending update.
Took(h, e) ==
  /\ handler[h] = Idle /\ e \in events /\ e \in Event
  /\ handler' \in [Handler -> HandlerState]
  /\ \A g \in Handler \ {h} : handler'[g] = handler[g]
  /\ handler'[h].event = e /\ handler'[h].snapshot = Null
  /\ handler'[h].pc = IF handler'[h].check THEN "asking" ELSE "ready"
  /\ UNCHANGED <<zoom, row, state, request, events, clock, sent, reached, dropped, asked, repeats>>
  /\ \/ /\ e.type = "updated" /\ ~IsStaleProviderEvent(row, e.at)
        /\ handler'[h].check = \/ RequiresZoomReconciliation(row, e.at)
                               \/ HasPendingUpdate(row) /\ MatchesOperation(row, e.changes)
        /\ handler'[h].opId = row.opId /\ handler'[h].cutoff = row.cutoff
        /\ handler'[h].watermark = row.watermark
     \/ /\ e.type \in {"started", "ended"} /\ ~handler'[h].check
        /\ handler'[h].watermark = Null

LEMMA TakenForm ==
  ASSUME Typed, NEW h \in Handler, BuildContext(h) \/ (CheckStatus(h) /\ handler' # handler)
  PROVE  \E e \in events : Took(h, e)
<1>1. CASE BuildContext(h)
  <2>1. PICK e \in events :
          /\ e.type = "updated" /\ ~IsStaleProviderEvent(row, e.at)
          /\ LET check == \/ RequiresZoomReconciliation(row, e.at)
                          \/ HasPendingUpdate(row) /\ MatchesOperation(row, e.changes)
             IN handler' = [handler EXCEPT ![h] =
                  [pc |-> IF check THEN "asking" ELSE "ready", event |-> e, check |-> check,
                   snapshot |-> Null, opId |-> row.opId, cutoff |-> row.cutoff,
                   watermark |-> row.watermark]]
    BY <1>1 DEF BuildContext
  <2>. DEFINE check == \/ RequiresZoomReconciliation(row, e.at)
                       \/ HasPendingUpdate(row) /\ MatchesOperation(row, e.changes)
              new == [pc |-> IF check THEN "asking" ELSE "ready", event |-> e, check |-> check,
                      snapshot |-> Null, opId |-> row.opId, cutoff |-> row.cutoff,
                      watermark |-> row.watermark]
  <2>2. check \in BOOLEAN /\ e \in Event /\ row \in Row
    BY DEF RequiresZoomReconciliation, HasPendingUpdate, MatchesOperation, Typed, Types
  <2>. HIDE DEF check
  <2>3. new \in HandlerState
    BY <2>2 DEF HandlerState, Row
  <2>4. handler' = [handler EXCEPT ![h] = new]
    BY <2>1 DEF check
  <2>5. handler' \in [Handler -> HandlerState] /\ handler'[h] = new
        /\ \A g \in Handler \ {h} : handler'[g] = handler[g]
    BY <2>3, <2>4 DEF Typed, Types
  <2>6. handler[h] = Idle
        /\ UNCHANGED <<zoom, row, state, request, events, clock, sent, reached, dropped, asked, repeats>>
    BY <1>1 DEF BuildContext, Typed, Handlers
  <2>7. /\ new.event = e /\ new.snapshot = Null /\ new.check = check
        /\ new.pc = IF new.check THEN "asking" ELSE "ready"
        /\ new.opId = row.opId /\ new.cutoff = row.cutoff /\ new.watermark = row.watermark
    OBVIOUS
  <2>. HIDE DEF new
  <2>8. Took(h, e)
    BY <2>1, <2>2, <2>5, <2>6, <2>7 DEF Took, check
  <2>. QED BY <2>8
<1>2. CASE CheckStatus(h) /\ handler' # handler
  <2>1. PICK e \in events :
          /\ e.type \in {"started", "ended"}
          /\ handler' = [handler EXCEPT ![h].pc = "ready", ![h].event = e]
          /\ UNCHANGED <<events, repeats>>
    BY <1>2 DEF CheckStatus
  <2>2. handler[h] = Idle
        /\ UNCHANGED <<zoom, row, state, request, clock, sent, reached, dropped, asked>>
    BY <1>2 DEF CheckStatus, Typed, Handlers
  <2>. DEFINE new == [Idle EXCEPT !.pc = "ready", !.event = e]
  <2>3. e \in Event /\ Idle \in HandlerState
    BY DEF Typed, Types, Idle, HandlerState
  <2>4. /\ new \in HandlerState /\ new.pc = "ready" /\ new.event = e /\ new.snapshot = Null
        /\ new.check = FALSE /\ new.watermark = Null
    BY <2>3 DEF Idle, HandlerState
  <2>5. handler' = [handler EXCEPT ![h] = new]
    BY <2>1, <2>2
  <2>. HIDE DEF new
  <2>6. handler' \in [Handler -> HandlerState] /\ handler'[h] = new
        /\ \A g \in Handler \ {h} : handler'[g] = handler[g]
    BY <2>4, <2>5 DEF Typed, Types
  <2>7. Took(h, e)
    BY <2>1, <2>2, <2>3, <2>4, <2>6 DEF Took
  <2>. QED BY <2>7
<1>. QED BY <1>1, <1>2

LEMMA TookTyped ==
  ASSUME Typed, NEW h \in Handler, NEW e \in events, Took(h, e)
  PROVE  Typed' /\ RowGoesOn /\ Known' \subseteq Known
<1>1. handler[h].pc = "idle" /\ \A g \in Handler : g # h => handler'[g] = handler[g]
  BY DEF Took, Idle
<1>2. Known' \subseteq Known
  BY <1>1 DEF Took, Known
<1>3. Times'
  BY <1>2 DEF Took, Typed, Times
<1>4. Types' /\ Requests' /\ RowShape'
  BY DEF Took, Typed, Types, Requests, RowShape
<1>5. Handlers'
  <2>1. /\ handler'[h].pc \in {"asking", "ready"} /\ e \in Event
        /\ handler'[h].pc = "asking" <=> handler'[h].check
        /\ handler'[h].event = e /\ e.type # "deleted" /\ handler'[h].snapshot = Null
        /\ handler'[h].check => e.type = "updated"
    BY DEF Took
  <2>2. \A g \in Handler \ {h} : handler'[g] = handler[g]
    BY <1>1
  <2>. QED BY <2>1, <2>2 DEF Typed, Handlers
<1>6. Matching'
  <2>. SUFFICES ASSUME NEW g \in Handler,
                       handler'[g].pc # "idle", handler'[g].event.type = "updated",
                       row'.opId # Null, handler'[g].opId = row'.opId,
                       MatchesOperation(row', handler'[g].event.changes)
                PROVE  handler'[g].check
    BY DEF Matching
  <2>1. row' = row
    BY DEF Took
  <2>2. CASE g = h
    <3>1. HasPendingUpdate(row)
      BY <2>1 DEF HasPendingUpdate, Typed, RowShape
    <3>. QED BY <2>1, <2>2, <3>1 DEF Took
  <2>3. CASE g # h
    BY <1>1, <2>1, <2>3 DEF Typed, Matching
  <2>. QED BY <2>2, <2>3
<1>7. row' = row
  BY DEF Took
<1>. QED BY <1>2, <1>3, <1>4, <1>5, <1>6, <1>7, SameRow DEF Typed

LEMMA TypedStep ==
  ASSUME Typed, [Next]_vars
  PROVE  Typed'
<1>1. CASE UNCHANGED vars
  BY <1>1 DEF vars, Typed, Types, RowShape, Handlers, Requests, Times, Known, Matching,
              MatchesOperation
<1>2. ASSUME NEW h \in Handler, BuildContext(h) \/ CheckStatus(h) PROVE Typed'
  <2>1. CASE CheckStatus(h) /\ handler' = handler
    BY <2>1, SettleTyped
  <2>2. CASE BuildContext(h) \/ (CheckStatus(h) /\ handler' # handler)
    BY <2>2, TakenForm, TookTyped
  <2>. QED BY <1>2, <2>1, <2>2
<1>3. ASSUME NEW h \in Handler, IgnoresStaleUpdate(h) \/ HandleMeetingDeleted(h) PROVE Typed'
  BY <1>3, SettleTyped
<1>4. ASSUME NEW h \in Handler, ProcessUpdate(h) \/ Transition(h) \/ Die(h) PROVE Typed'
  BY <1>4, ProcessUpdateTyped, HandlerStepTyped
<1>5. ASSUME NEW h \in Handler, GetMeeting(h) PROVE Typed'
  BY <1>5, GetMeetingTyped
<1>6. CASE HostEdits \/ HostDeletes \/ HostMeets \/ Tick
  BY <1>6, HostEditsTyped, HostMeetsTyped, TickTyped
<1>7. CASE SaveUpdateIntent \/ ZoomApplies \/ ZoomDoesNotApply \/ RequestSettles
  BY <1>7, SaveUpdateIntentTyped, ZoomAppliesTyped, ZoomDoesNotApplyTyped, RequestSettlesTyped
<1>. QED BY <1>1, <1>2, <1>3, <1>4, <1>5, <1>6, <1>7 DEF Next

LEMMA TypedInvariant == Spec => []Typed
  BY InitTyped, TypedStep, PTL DEF Spec

\* For all handlers, fields, values and updates, every state is well typed: an
\* update is recorded exactly while the row says so.
THEOREM TypeCorrect == Spec => []TypeOK
<1>1. Typed => TypeOK
  BY DEF Typed, Types, RowShape, TypeOK, HandlerState, RequestState
<1>. QED BY <1>1, TypedInvariant, PTL

-----------------------------------------------------------------------------
(* A meeting Zoom does not have stays away, and only such a meeting is     *)
(* deleted.                                                                *)

Gone ==
  /\ row.status = "deleted" => zoom = Absent
  /\ \A e \in events : e.type = "deleted" => zoom = Absent
  /\ \A h \in Handler : handler[h].snapshot = Absent => zoom = Absent

LEMMA InitGone == Init => Gone
<1>. SUFFICES ASSUME Init PROVE Gone
  OBVIOUS
<1>1. row.status = "active"
  BY DEF Init
<1>2. \A h \in Handler : handler[h].snapshot # Absent
  BY EventsAssumption DEF Init, Idle
<1>. QED BY <1>1, <1>2 DEF Init, Gone

\* Steps that leave Zoom's meeting alone and send nothing.
LEMMA GoneGoesOn ==
  ASSUME Gone, zoom' = zoom, events' \subseteq events,
         row'.status = "deleted" => row.status = "deleted" \/ zoom = Absent,
         \A h \in Handler :
           handler'[h].snapshot \in {Null, zoom, handler[h].snapshot}
  PROVE  Gone'
<1>1. Null # Absent
  BY EventsAssumption
<1>. QED BY <1>1 DEF Gone

LEMMA ProcessGone ==
  ASSUME Typed, Gone, NEW h \in Handler, ProcessUpdate(h)
  PROVE  Gone'
<1>1. row'.status = "deleted" => row.status = "deleted" \/ zoom = Absent
  <2>. SUFFICES ASSUME row'.status = "deleted", row.status # "deleted" PROVE zoom = Absent
    OBVIOUS
  <2>1. row \in Row /\ handler[h].event \in Event /\ handler[h].pc # "idle"
    BY DEF ProcessUpdate, Typed, Types, Handlers
  <2>2. ASSUME Contradicts(h) PROVE FALSE
    BY <2>1, <2>2 DEF Contradicts, Row
  <2>3. ASSUME Confirmed(h) \/ Reconciles(h) PROVE FALSE
    <3>1. Saved(h) \in Row /\ Saved(h).status = row.status
      BY <2>1, <2>3, SavedRow DEF Confirmed, Reconciles
    <3>. QED BY <2>3, <3>1, CompletedForm DEF Confirmed, Reconciles
  <2>4. ASSUME Takes(h) PROVE FALSE
    BY <2>1, <2>4 DEF Takes, Row
  <2>5. Deletes(h)
    BY <2>2, <2>3, <2>4, ProcessCases DEF Ignores, Loses, LeavesDeleted
  <2>. QED BY <2>5 DEF Deletes, IsMissingAtZoom, Gone
<1>2. zoom' = zoom /\ events' \subseteq events
  BY SettleForm DEF ProcessUpdate
<1>3. \A g \in Handler : handler'[g].snapshot \in {Null, zoom, handler[g].snapshot}
  <2>1. /\ handler'[h] = Idle /\ \A g \in Handler \ {h} : handler'[g] = handler[g]
    BY FreedHandlers DEF ProcessUpdate
  <2>. QED BY <2>1 DEF Idle
<1>. QED BY <1>1, <1>2, <1>3, GoneGoesOn

LEMMA HandlersGone ==
  ASSUME Typed, Gone, NEW h \in Handler,
         \/ IgnoresStaleUpdate(h) \/ BuildContext(h) \/ GetMeeting(h) \/ HandleMeetingDeleted(h)
         \/ CheckStatus(h) \/ Transition(h) \/ Die(h)
  PROVE  Gone'
<1>1. CASE GetMeeting(h)
  <2>1. zoom' = zoom /\ events' = events /\ row' = row
    BY <1>1 DEF GetMeeting
  <2>. QED BY <1>1, <2>1, GetMeetingTyped, GoneGoesOn
<1>2. CASE Transition(h) \/ Die(h)
  <2>1. /\ zoom' = zoom /\ events' \subseteq events /\ row' = row /\ Free(h)
    BY <1>2, SettleForm DEF Transition, Die
  <2>2. /\ handler'[h] = Idle /\ \A g \in Handler \ {h} : handler'[g] = handler[g]
    BY <2>1, FreedHandlers
  <2>3. \A g \in Handler : handler'[g].snapshot \in {Null, zoom, handler[g].snapshot}
    BY <2>2 DEF Idle
  <2>. QED BY <2>1, <2>3, GoneGoesOn
<1>3. CASE BuildContext(h) \/ (CheckStatus(h) /\ handler' # handler)
  <2>1. PICK e \in events : Took(h, e)
    BY <1>3, TakenForm
  <2>2. zoom' = zoom /\ events' = events /\ row' = row
        /\ \A g \in Handler : handler'[g].snapshot \in {Null, zoom, handler[g].snapshot}
    BY <2>1 DEF Took
  <2>. QED BY <2>2, GoneGoesOn
<1>4. CASE \/ IgnoresStaleUpdate(h) \/ HandleMeetingDeleted(h)
           \/ CheckStatus(h) /\ handler' = handler
  <2>1. zoom' = zoom /\ events' \subseteq events /\ handler' = handler
    BY <1>4, SettleForm DEF IgnoresStaleUpdate, HandleMeetingDeleted, CheckStatus
  <2>2. row' = row \/ zoom = Absent
    BY <1>4 DEF IgnoresStaleUpdate, HandleMeetingDeleted, CheckStatus, Gone
  <2>. QED BY <2>1, <2>2, GoneGoesOn
<1>. QED BY <1>1, <1>2, <1>3, <1>4

LEMMA GoneStep ==
  ASSUME Typed, Gone, [Next]_vars
  PROVE  Gone'
<1>1. CASE UNCHANGED vars \/ Tick \/ ZoomDoesNotApply
  BY <1>1 DEF vars, Tick, ZoomDoesNotApply, Gone
<1>2. CASE HostEdits \/ ZoomApplies
  <2>1. /\ zoom # Absent /\ row' = row /\ handler' = handler
    BY <1>2 DEF HostEdits, ZoomApplies
  <2>2. \E changes : Sends("updated", changes)
    BY <1>2 DEF HostEdits, ZoomApplies
  <2>3. \A e \in events' : e \in events \/ e.type = "updated"
    BY <2>2 DEF Sends
  <2>. QED BY <2>1, <2>3 DEF Gone
<1>3. CASE HostDeletes
  BY <1>3 DEF HostDeletes, Gone
<1>4. CASE HostMeets
  <2>1. zoom' = zoom /\ row' = row /\ handler' = handler
        /\ \A e \in events' : e \in events \/ e.type # "deleted"
    BY <1>4 DEF HostMeets, Sends
  <2>. QED BY <2>1 DEF Gone
<1>5. CASE SaveUpdateIntent
  <2>1. zoom' = zoom /\ events' = events /\ handler' = handler /\ row'.status # "deleted"
    BY <1>5 DEF SaveUpdateIntent, Typed, Types, Row
  <2>. QED BY <2>1 DEF Gone
<1>6. CASE RequestSettles
  <2>1. zoom' = zoom /\ events' = events /\ handler' = handler
    BY <1>6 DEF RequestSettles
  <2>2. row' = row \/ row'.status # "deleted"
    BY <1>6, AnswerRow DEF RequestSettles
  <2>. QED BY <2>1, <2>2 DEF Gone
<1>. QED BY <1>1, <1>2, <1>3, <1>4, <1>5, <1>6, ProcessGone, HandlersGone DEF Next

\* Only a meeting Zoom does not have is deleted: by an event that says so, or
\* by an update event whose handler found it missing.
THEOREM DeletionIsTrue == Spec => []DeletedIsTrue
<1>1. Init => Typed /\ Gone
  BY InitTyped, InitGone
<1>2. Typed /\ Gone /\ [Next]_vars => (Typed /\ Gone)'
  BY TypedStep, GoneStep
<1>3. Gone => DeletedIsTrue
  BY DEF Gone, DeletedIsTrue
<1>. QED BY <1>1, <1>2, <1>3, PTL DEF Spec

-----------------------------------------------------------------------------
(* An update is completed after Zoom got its values, and nothing goes      *)
(* backwards.                                                              *)

\* What may complete the recorded update is an answer or an event of a later
\* time, and neither comes before Zoom got the values.
Confirms ==
  row.opId # Null =>
    /\ \A e \in Known :
         /\ e.type = "updated" /\ e.at > row.started /\ MatchesOperation(row, e.changes)
         => reached
    /\ request.answer = "ok" => reached

LEMMA ConfirmsGoesOn ==
  ASSUME Typed, Confirms, RowGoesOn, Known' \subseteq Known, reached' = reached,
         request'.answer \in {Null, request.answer}
  PROVE  Confirms'
<1>1. Null # "ok"
  BY EventsAssumption
<1>2. row'.opId # Null =>
        /\ row.opId # Null /\ row'.started = row.started
        /\ \A e \in Known : MatchesOperation(row', e.changes) <=> MatchesOperation(row, e.changes)
  BY DEF RowGoesOn, MatchesOperation
<1>. QED BY <1>1, <1>2 DEF Confirms

LEMMA ChangeConfirms ==
  ASSUME Typed, Confirms, UNCHANGED <<row, handler>>, zoom' \in Fields, Reaches(zoom'),
         NEW e \in Event, events' = events \cup {e}, e.type = "updated",
         \A f \in DOMAIN e.changes : zoom'[f] = e.changes[f],
         row.opId # Null /\ request'.answer = "ok" /\ request.answer # "ok"
           => MatchesOperation(row, e.changes)
  PROVE  Confirms'
<1>1. Known' \subseteq Known \cup {e}
  BY SameHandlers, KnownGoesOn
<1>2. (reached => reached')
      /\ (row.opId # Null /\ MatchesOperation(row, e.changes) => reached')
  BY DEF Reaches, MatchesOperation
<1>3. Confirms' <=>
        (row.opId # Null =>
           /\ \A k \in Known' :
                /\ k.type = "updated" /\ k.at > row.started /\ MatchesOperation(row, k.changes)
                => reached'
           /\ request'.answer = "ok" => reached')
  BY DEF Confirms, MatchesOperation
<1>. QED BY <1>1, <1>2, <1>3 DEF Confirms

LEMMA ZoomConfirms ==
  ASSUME Typed, Confirms, HostEdits \/ ZoomApplies
  PROVE  Confirms'
<1>1. CASE HostEdits
  <2>1. PICK f \in Field, v \in Val :
          zoom' = [zoom EXCEPT ![f] = v] /\ Sends("updated", [g \in {f} |-> v])
    BY <1>1 DEF HostEdits
  <2>2. zoom' \in Fields /\ zoom'[f] = v
    BY <1>1, <2>1 DEF HostEdits, Typed, Types, Fields
  <2>. DEFINE changes == [g \in {f} |-> v]
              e == NewEvent("updated", changes)
  <2>3. changes \in Changes /\ DOMAIN changes = {f} /\ changes[f] = v
    BY OneChange
  <2>. HIDE DEF changes
  <2>4. e \in Event /\ e.type = "updated" /\ e.changes = changes /\ events' = events \cup {e}
    BY <2>1, <2>3, SentForm DEF changes
  <2>5. /\ UNCHANGED <<row, handler, request>> /\ Reaches(zoom')
    BY <1>1 DEF HostEdits
  <2>. HIDE DEF e
  <2>6. \A g \in DOMAIN e.changes : zoom'[g] = e.changes[g]
    BY <2>2, <2>3, <2>4
  <2>. QED BY <2>2, <2>4, <2>5, <2>6, ChangeConfirms
<1>2. CASE ZoomApplies
  <2>1. /\ request.pc = "calling" /\ zoom \in Fields /\ request.payload \in Changes
        /\ zoom' = Updated(zoom, request.payload) /\ Sends("updated", request.payload)
        /\ UNCHANGED <<row, handler>> /\ Reaches(zoom')
    BY <1>2 DEF ZoomApplies, Typed, Types, Requests, RequestState
  <2>. DEFINE e == NewEvent("updated", request.payload)
  <2>2. e \in Event /\ e.type = "updated" /\ e.changes = request.payload
        /\ events' = events \cup {e}
    BY <2>1, SentForm
  <2>. HIDE DEF e
  <2>3. zoom' \in Fields /\ \A f \in DOMAIN e.changes : zoom'[f] = e.changes[f]
    BY <2>1, <2>2, UpdatedForm
  <2>4. row.opId # Null => MatchesOperation(row, e.changes)
    BY <2>1, <2>2 DEF Typed, Requests, MatchesOperation
  <2>. QED BY <2>1, <2>2, <2>3, <2>4, ChangeConfirms
<1>. QED BY <1>1, <1>2

LEMMA HandlersConfirm ==
  ASSUME Typed, Confirms, NEW h \in Handler,
         \/ IgnoresStaleUpdate(h) \/ BuildContext(h) \/ GetMeeting(h) \/ ProcessUpdate(h)
         \/ HandleMeetingDeleted(h) \/ CheckStatus(h) \/ Transition(h) \/ Die(h)
  PROVE  Confirms' /\ RowGoesOn
<1>1. reached' = reached /\ request' = request
  BY DEF IgnoresStaleUpdate, BuildContext, GetMeeting, ProcessUpdate, HandleMeetingDeleted,
         CheckStatus, Transition, Die
<1>2. RowGoesOn /\ Known' \subseteq Known
  <2>1. CASE ProcessUpdate(h)
    BY <2>1, ProcessUpdateTyped
  <2>2. CASE Transition(h) \/ Die(h)
    BY <2>2, HandlerStepTyped
  <2>3. CASE GetMeeting(h)
    BY <2>3, GetMeetingTyped
  <2>4. CASE BuildContext(h) \/ (CheckStatus(h) /\ handler' # handler)
    BY <2>4, TakenForm, TookTyped
  <2>5. CASE \/ IgnoresStaleUpdate(h) \/ HandleMeetingDeleted(h)
             \/ CheckStatus(h) /\ handler' = handler
    BY <2>5, SettleTyped
  <2>. QED BY <2>1, <2>2, <2>3, <2>4, <2>5
<1>. QED BY <1>1, <1>2, ConfirmsGoesOn

LEMMA ConfirmsStep ==
  ASSUME Typed, Confirms, [Next]_vars
  PROVE  Confirms'
<1>1. CASE UNCHANGED vars
  BY <1>1 DEF vars, Confirms, Known, MatchesOperation
<1>2. CASE HostDeletes \/ HostMeets
  <2>1. PICK type \in {"deleted", "started", "ended"} : Sends(type, NoChanges)
    BY <1>2 DEF HostDeletes, HostMeets
  <2>. DEFINE e == NewEvent(type, NoChanges)
  <2>2. e \in Event /\ e.type # "updated" /\ events' = events \cup {e}
    BY <2>1, NoChange, SentForm
  <2>. HIDE DEF e
  <2>3. UNCHANGED <<row, handler, request, reached>>
    BY <1>2 DEF HostDeletes, HostMeets
  <2>4. Known' \subseteq Known \cup {e}
    BY <2>2, <2>3, SameHandlers, KnownGoesOn
  <2>5. Confirms' <=>
        (row.opId # Null =>
           /\ \A k \in Known' :
                /\ k.type = "updated" /\ k.at > row.started /\ MatchesOperation(row, k.changes)
                => reached
           /\ request.answer = "ok" => reached)
    BY <2>3 DEF Confirms, MatchesOperation
  <2>. QED BY <2>2, <2>4, <2>5 DEF Confirms
<1>3. CASE Tick \/ ZoomDoesNotApply
  <2>1. UNCHANGED <<row, handler, events, reached>>
    BY <1>3 DEF Tick, ZoomDoesNotApply
  <2>2. request'.answer = request.answer \/ request'.answer # "ok"
    BY <1>3 DEF Tick, ZoomDoesNotApply, Typed, Types, RequestState
  <2>. QED BY <2>1, <2>2 DEF Confirms, Known, MatchesOperation
<1>4. CASE SaveUpdateIntent
  <2>1. /\ row'.started = clock /\ request'.answer = Null
        /\ UNCHANGED <<events, handler>>
    BY <1>4 DEF SaveUpdateIntent, Typed, Types, Row
  <2>2. \A e \in Known' : ~(e.at > row'.started)
    <3>1. Known' = Known /\ clock \in Nat /\ \A e \in Known : e.at \in Nat /\ e.at <= clock
      BY <2>1, EventsAssumption DEF Known, Typed, Times, Types, Event
    <3>. QED BY <2>1, <3>1
  <2>. QED BY <2>1, <2>2, EventsAssumption DEF Confirms
<1>5. CASE RequestSettles
  BY <1>5, RequestSettlesTyped, ConfirmsGoesOn DEF RequestSettles, NoRequest
<1>. QED BY <1>1, <1>2, <1>3, <1>4, <1>5, ZoomConfirms, HandlersConfirm DEF Next

\* No update is recorded that was not, except by the user.
LEMMA Completes ==
  ASSUME Typed, Confirms, [Next]_vars,
         row.opId # Null, row'.opId = Null, row'.status = "active"
  PROVE  reached \/ request.answer = "limited"
<1>1. row' # row
  OBVIOUS
<1>2. CASE RequestSettles
  BY <1>2, AnswerRow DEF RequestSettles, Confirms
<1>3. ASSUME NEW h \in Handler, ProcessUpdate(h) PROVE reached
  <2>. DEFINE e == handler[h].event
  <2>1. /\ row \in Row /\ e \in Event /\ handler[h].pc # "idle" /\ e.type = "updated"
        /\ e \in Known /\ row.status # "active"
    BY <1>3 DEF ProcessUpdate, Typed, Types, Handlers, Known, RowShape
  <2>2. Confirmed(h)
    <3>1. ASSUME Deletes(h) PROVE FALSE
      <4>1. e.at \in 0..MaxTime
        BY <2>1 DEF Event
      <4>. QED BY <2>1, <3>1, <4>1, DeletedForm DEF Deletes
    <3>2. ASSUME Contradicts(h) PROVE FALSE
      BY <2>1, <3>2 DEF Contradicts, Row
    <3>. QED
      BY <1>1, <1>3, <2>1, <3>1, <3>2, ProcessCases
      DEF Ignores, Loses, LeavesDeleted, Reconciles, Takes
  <2>3. ~PredatesPendingOperation(row, e.at)
    BY <2>1, <2>2, SavedRow DEF Confirmed
  <2>4. e.at > row.started
    <3>1. e.at \in Nat /\ row.started \in Nat
      BY <2>1, EventsAssumption DEF Event, Row
    <3>. QED BY <2>3, <3>1 DEF PredatesPendingOperation
  <2>. QED BY <2>1, <2>2, <2>4 DEF Confirms, Confirmed
<1>4. ASSUME NEW h \in Handler, HandleMeetingDeleted(h) PROVE FALSE
  <2>1. PICK e \in events : row' = [Deleted(row) EXCEPT !.watermark = e.at]
    BY <1>1, <1>4 DEF HandleMeetingDeleted
  <2>. QED BY <2>1, DeletedForm DEF Typed, Types, Event
<1>5. CASE SaveUpdateIntent
  BY <1>5 DEF SaveUpdateIntent, Typed, Types, Row
<1>. QED
  BY <1>1, <1>2, <1>3, <1>4, <1>5
  DEF Next, vars, HostEdits, HostDeletes, HostMeets, Tick, ZoomApplies, ZoomDoesNotApply,
      IgnoresStaleUpdate, BuildContext, GetMeeting, CheckStatus, Transition, Die

LEMMA ConfirmsInvariant == Spec => [](Typed /\ Confirms)
<1>1. Init => Typed /\ Confirms
  BY InitTyped DEF Init, Confirms
<1>2. Typed /\ Confirms /\ [Next]_vars => (Typed /\ Confirms)'
  BY TypedStep, ConfirmsStep
<1>. QED BY <1>1, <1>2, PTL DEF Spec

\* A webhook or an answer completes an update only after Zoom was given its
\* values, however the events, the retries and the next update overlap.
THEOREM CompletedWasApplied == Spec => CompletedUpdateWasApplied
<1>1. Typed /\ Confirms /\ [Next]_vars =>
        [row.opId # Null /\ row'.opId = Null /\ row'.status = "active"
           => reached \/ request.answer = "limited"]_vars
  BY Completes
<1>. QED BY <1>1, ConfirmsInvariant, PTL DEF Spec, CompletedUpdateWasApplied

\* What a step may do to the watermark and to a deleted row.
Forward ==
  /\ row.watermark # Null => row'.watermark # Null /\ row'.watermark >= row.watermark
  /\ row'.watermark = row.watermark \/ \E e \in Known : row'.watermark = e.at
  /\ row.status = "deleted" => row'.status = "deleted" /\ row'.local = row.local

LEMMA GoesForward ==
  ASSUME Typed, [Next]_vars
  PROVE  Forward
<1>1. row \in Row /\ (row.watermark # Null => row.watermark \in Nat)
  BY EventsAssumption DEF Typed, Types, Row
<1>2. ASSUME row' = row PROVE Forward
  BY <1>1, <1>2 DEF Forward
<1>3. ASSUME RequestSettles, row' # row PROVE Forward
  BY <1>1, <1>3, AnswerRow DEF RequestSettles, Typed, RowShape, Requests, Forward
<1>4. ASSUME SaveUpdateIntent PROVE Forward
  <2>1. row.status # "deleted" /\ row'.watermark = row.watermark
    BY <1>1, <1>4 DEF SaveUpdateIntent, Row
  <2>. QED BY <1>1, <2>1 DEF Forward
<1>5. ASSUME NEW h \in Handler, ProcessUpdate(h), row' # row PROVE Forward
  <2>. DEFINE at == handler[h].event.at
  <2>1. /\ handler[h].event \in Known /\ at \in 0..MaxTime /\ at \in Nat /\ at # Null
        /\ row'.watermark = at
    BY <1>5, ProcessRow, EventsAssumption DEF ProcessUpdate, Typed, Handlers, Event, Known
  <2>2. ~IsStaleProviderEvent(row, at)
    BY <1>5, ProcessCases DEF Ignores, Loses
  <2>3. row.status = "deleted" => row'.status = "deleted" /\ row'.local = row.local
    <3>. SUFFICES ASSUME row.status = "deleted"
                  PROVE  row'.status = "deleted" /\ row'.local = row.local
      OBVIOUS
    <3>1. Deletes(h)
      BY <1>1, <1>5, ProcessCases
      DEF Ignores, Loses, Contradicts, Confirmed, Reconciles, Takes, LeavesDeleted,
          HasPendingUpdate
    <3>. QED BY <1>1, <2>1, <3>1, DeletedForm DEF Deletes
  <2>. QED BY <1>1, <2>1, <2>2, <2>3 DEF IsStaleProviderEvent, Forward
<1>6. ASSUME NEW h \in Handler, HandleMeetingDeleted(h), row' # row PROVE Forward
  <2>1. PICK e \in events : /\ row.status # "deleted" /\ ~IsStaleProviderEvent(row, e.at)
                            /\ row' = [Deleted(row) EXCEPT !.watermark = e.at]
    BY <1>6 DEF HandleMeetingDeleted
  <2>2. e \in Known /\ e.at \in 0..MaxTime /\ e.at \in Nat /\ e.at # Null
    BY EventsAssumption DEF Typed, Types, Event, Known
  <2>3. row'.watermark = e.at
    BY <1>1, <2>1, <2>2, DeletedForm
  <2>. QED BY <1>1, <2>1, <2>2, <2>3 DEF IsStaleProviderEvent, Forward
<1>. QED
  BY <1>2, <1>3, <1>4, <1>5, <1>6
  DEF Next, vars, HostEdits, HostDeletes, HostMeets, Tick, ZoomApplies, ZoomDoesNotApply,
      IgnoresStaleUpdate, BuildContext, GetMeeting, CheckStatus, Transition, Die

\* In any order of events, the watermark never moves back, a meeting that has
\* ended does not start again, and a deleted one is left alone.
THEOREM NothingGoesBack == Spec => NeverBackwards
<1>1. ASSUME [Next]_vars
      PROVE  state = "ended" => state' = "ended"
  BY <1>1
  DEF Next, vars, HostEdits, HostDeletes, HostMeets, Tick, SaveUpdateIntent, ZoomApplies,
      ZoomDoesNotApply, RequestSettles, IgnoresStaleUpdate, BuildContext, GetMeeting,
      ProcessUpdate, HandleMeetingDeleted, CheckStatus, Transition, MayStart, Die
<1>2. Typed /\ [Next]_vars =>
        [/\ row.watermark # Null => row'.watermark # Null /\ row'.watermark >= row.watermark
         /\ state = "ended" => state' = "ended"
         /\ row.status = "deleted" => row'.status = "deleted" /\ row'.local = row.local]_vars
  BY <1>1, GoesForward DEF Forward
<1>. QED BY <1>2, TypedInvariant, PTL DEF Spec, NeverBackwards

-----------------------------------------------------------------------------
(* What a handler has read, compared with what the row says now.           *)

\* A handler that does not ask Zoom has an event of a later time than what it
\* has read of the row.
Reading ==
  /\ row.watermark # Null => row.watermark <= clock
  /\ \A h \in Handler : handler[h].pc # "idle" =>
       /\ handler[h].watermark # Null =>
            row.watermark # Null /\ handler[h].watermark <= row.watermark
       /\ handler[h].event.type = "updated" /\ ~handler[h].check =>
            /\ handler[h].watermark # Null => handler[h].event.at > handler[h].watermark
            /\ handler[h].cutoff # Null => handler[h].event.at > handler[h].cutoff.at

LEMMA Numbers ==
  ASSUME Typed
  PROVE  /\ clock \in Nat /\ row.watermark \in Nat \cup {Null}
         /\ row.cutoff # Null => row.cutoff.at \in Nat
         /\ \A h \in Handler : handler[h].watermark \in Nat \cup {Null}
         /\ \A e \in Known : e.at \in Nat /\ e.at <= clock
<1>1. 0..MaxTime \subseteq Nat /\ Null \notin Stamp
  BY EventsAssumption
<1>2. /\ clock \in Nat /\ row.watermark \in Nat \cup {Null}
      /\ row.cutoff # Null => row.cutoff.at \in Nat
  BY <1>1 DEF Typed, Types, Row, Cutoff
<1>3. \A h \in Handler : handler[h].watermark \in Nat \cup {Null}
  BY <1>1 DEF Typed, Types, HandlerState
<1>4. \A e \in Known : e.at \in Nat /\ e.at <= clock
  BY <1>1 DEF Typed, Times, Known, Event
<1>. QED BY <1>2, <1>3, <1>4

LEMMA HandlerSteps ==
  ASSUME Typed, [Next]_vars
  PROVE  HandlersGoOn \/ \E h \in Handler : \E e \in events : Took(h, e)
<1>1. CASE handler' = handler
  BY <1>1, SameHandlers
<1>2. ASSUME NEW h \in Handler, ProcessUpdate(h) \/ Transition(h) \/ Die(h)
      PROVE  HandlersGoOn
  BY <1>2, FreedHandlers DEF ProcessUpdate, Transition, Die
<1>3. ASSUME NEW h \in Handler, GetMeeting(h) PROVE HandlersGoOn
  BY <1>3, GetMeetingTyped
<1>4. ASSUME NEW h \in Handler, BuildContext(h) \/ (CheckStatus(h) /\ handler' # handler)
      PROVE  \E e \in events : Took(h, e)
  BY <1>4, TakenForm
<1>. QED
  BY <1>1, <1>2, <1>3, <1>4
  DEF Next, vars, HostEdits, HostDeletes, HostMeets, Tick, SaveUpdateIntent, ZoomApplies,
      ZoomDoesNotApply, RequestSettles, IgnoresStaleUpdate, HandleMeetingDeleted

LEMMA InitReading == Init => Reading
<1>. SUFFICES ASSUME Init PROVE Reading
  OBVIOUS
<1>1. row.watermark = Null /\ \A h \in Handler : handler[h].pc = "idle"
  BY DEF Init, Idle
<1>. QED BY <1>1 DEF Reading

LEMMA ReadingStep ==
  ASSUME Typed, Typed', Reading, [Next]_vars
  PROVE  Reading'
<1>1. Forward
  BY GoesForward
<1>2. clock' = clock \/ clock' = clock + 1
  BY DEF Next, vars, HostEdits, HostDeletes, HostMeets, Tick, SaveUpdateIntent, ZoomApplies,
         ZoomDoesNotApply, RequestSettles, IgnoresStaleUpdate, BuildContext, GetMeeting,
         ProcessUpdate, HandleMeetingDeleted, CheckStatus, Transition, Die
<1>3. row'.watermark # Null => row'.watermark <= clock'
  <2>1. row'.watermark # Null => row'.watermark <= clock
    BY <1>1, Numbers DEF Forward, Reading
  <2>2. /\ clock \in Nat /\ clock' \in Nat
        /\ row'.watermark \in Nat \cup {Null}
    BY <1>2, Numbers, EventsAssumption DEF Typed, Types, Row
  <2>. QED BY <1>2, <2>1, <2>2
<1>4. ASSUME NEW h \in Handler, handler'[h].pc # "idle"
      PROVE  /\ handler'[h].watermark # Null =>
                  row'.watermark # Null /\ handler'[h].watermark <= row'.watermark
             /\ handler'[h].event.type = "updated" /\ ~handler'[h].check =>
                  /\ handler'[h].watermark # Null => handler'[h].event.at > handler'[h].watermark
                  /\ handler'[h].cutoff # Null => handler'[h].event.at > handler'[h].cutoff.at
  <2>0. row'.watermark \in Nat \cup {Null}
    BY EventsAssumption DEF Typed, Types, Row
  <2>1. ASSUME handler[h].pc # "idle", handler'[h].event = handler[h].event,
               handler'[h].check = handler[h].check, handler'[h].cutoff = handler[h].cutoff,
               handler'[h].watermark = handler[h].watermark
        PROVE  /\ handler'[h].watermark # Null =>
                    row'.watermark # Null /\ handler'[h].watermark <= row'.watermark
               /\ handler'[h].event.type = "updated" /\ ~handler'[h].check =>
                    /\ handler'[h].watermark # Null => handler'[h].event.at > handler'[h].watermark
                    /\ handler'[h].cutoff # Null => handler'[h].event.at > handler'[h].cutoff.at
    <3>1. handler[h].watermark # Null =>
            row.watermark # Null /\ handler[h].watermark <= row.watermark
      BY <2>1 DEF Reading
    <3>2. handler[h].watermark # Null =>
            row'.watermark # Null /\ handler[h].watermark <= row'.watermark
      BY <1>1, <2>0, <3>1, Numbers DEF Forward
    <3>. QED BY <2>1, <3>2 DEF Reading
  <2>2. CASE HandlersGoOn
    BY <1>4, <2>1, <2>2 DEF HandlersGoOn, Idle
  <2>3. ASSUME NEW g \in Handler, NEW e \in events, Took(g, e), g # h
        PROVE  handler'[h] = handler[h]
    BY <2>3 DEF Took
  <2>4. ASSUME NEW e \in events, Took(h, e)
        PROVE  /\ handler'[h].watermark # Null =>
                    row'.watermark # Null /\ handler'[h].watermark <= row'.watermark
               /\ handler'[h].event.type = "updated" /\ ~handler'[h].check =>
                    /\ handler'[h].watermark # Null => handler'[h].event.at > handler'[h].watermark
                    /\ handler'[h].cutoff # Null => handler'[h].event.at > handler'[h].cutoff.at
    <3>1. handler'[h].event = e /\ row' = row /\ e.at \in Nat
      BY <2>4, Numbers DEF Took, Known
    <3>2. CASE e.type # "updated"
      BY <2>4, <3>1, <3>2 DEF Took
    <3>3. CASE e.type = "updated"
      <4>1. /\ handler'[h].cutoff = row.cutoff /\ handler'[h].watermark = row.watermark
            /\ ~IsStaleProviderEvent(row, e.at)
            /\ ~handler'[h].check => ~RequiresZoomReconciliation(row, e.at)
        BY <2>4, <3>3 DEF Took
      <4>2. row.watermark # Null => row.watermark <= row.watermark
        BY Numbers
      <4>3. ~handler'[h].check =>
              /\ row.watermark # Null => e.at > row.watermark
              /\ row.cutoff # Null => e.at > row.cutoff.at
        BY <3>1, <4>1, Numbers DEF IsStaleProviderEvent, RequiresZoomReconciliation
      <4>. QED BY <3>1, <4>1, <4>2, <4>3
    <3>. QED BY <3>2, <3>3
  <2>. QED BY <1>4, <2>1, <2>2, <2>3, <2>4, HandlerSteps
<1>. QED BY <1>3, <1>4 DEF Reading

-----------------------------------------------------------------------------
(* A meeting that is gone has its deletion event under way, or is deleted. *)

Noticed ==
  zoom = Absent /\ row.status # "deleted" =>
    \E d \in events :
      /\ d.type = "deleted"
      /\ row.watermark # Null => row.watermark <= d.at
      /\ \A e \in Known : e.at <= d.at

\* Steps after which the deletion event is still there.
LEMMA NoticedGoesOn ==
  ASSUME Typed, Noticed, [Next]_vars, zoom' = zoom, Known' \subseteq Known,
         \A d \in events : d.type = "deleted" =>
           \/ d \in events' \/ row'.status = "deleted"
           \/ row.watermark # Null /\ d.at < row.watermark
  PROVE  Noticed'
<1>. SUFFICES ASSUME zoom = Absent, row'.status # "deleted"
              PROVE  \E d \in events' :
                       /\ d.type = "deleted"
                       /\ row'.watermark # Null => row'.watermark <= d.at
                       /\ \A e \in Known' : e.at <= d.at
  BY DEF Noticed
<1>1. Forward
  BY GoesForward
<1>2. PICK d \in events :
        /\ d.type = "deleted"
        /\ row.watermark # Null => row.watermark <= d.at
        /\ \A e \in Known : e.at <= d.at
  BY <1>1 DEF Noticed, Forward
<1>3. d \in Known
  BY DEF Known, Typed, Types
<1>4. d \in events'
  BY <1>2, <1>3, Numbers
<1>5. row'.watermark # Null => row'.watermark <= d.at
  BY <1>1, <1>2 DEF Forward
<1>. QED BY <1>2, <1>4, <1>5

LEMMA NoticedStep ==
  ASSUME Typed, Reading, Noticed, [Next]_vars
  PROVE  Noticed'
<1>1. CASE UNCHANGED vars
  BY <1>1 DEF vars, Noticed, Known
<1>2. CASE HostEdits \/ HostMeets \/ ZoomApplies
  <2>1. zoom' # Absent
    <3>1. CASE HostEdits
      BY <3>1, EventsAssumption DEF HostEdits, Typed, Types, Fields
    <3>2. CASE ZoomApplies
      BY <3>2, EventsAssumption, UpdatedForm
      DEF ZoomApplies, Typed, Types, Requests, RequestState
    <3>. QED BY <1>2, <3>1, <3>2 DEF HostMeets
  <2>. QED BY <2>1 DEF Noticed
<1>3. CASE HostDeletes
  <2>. DEFINE d == NewEvent("deleted", NoChanges)
  <2>1. d \in Event /\ d.type = "deleted" /\ d.at = clock /\ events' = events \cup {d}
    BY <1>3, NoChange, SentForm DEF HostDeletes
  <2>. HIDE DEF d
  <2>2. UNCHANGED <<row, handler>>
    BY <1>3 DEF HostDeletes
  <2>3. Known' \subseteq Known \cup {d}
    BY <2>1, <2>2, SameHandlers, KnownGoesOn
  <2>4. \A e \in Known' : e.at <= d.at
    BY <2>1, <2>3, Numbers
  <2>. QED BY <2>1, <2>2, <2>4 DEF Noticed, Reading
<1>4. CASE Tick \/ SaveUpdateIntent \/ ZoomDoesNotApply \/ RequestSettles
  <2>1. UNCHANGED <<zoom, events, handler>>
    BY <1>4 DEF Tick, SaveUpdateIntent, ZoomDoesNotApply, RequestSettles
  <2>. QED BY <2>1, NoticedGoesOn DEF Known
<1>5. ASSUME NEW h \in Handler, ProcessUpdate(h) \/ Transition(h) PROVE Noticed'
  <2>1. zoom' = zoom /\ Known' \subseteq Known
    BY <1>5, ProcessUpdateTyped, HandlerStepTyped DEF ProcessUpdate, Transition
  <2>2. events' = events \/ events' = events \ {handler[h].event}
    BY <1>5 DEF ProcessUpdate, Transition, Settle
  <2>3. handler[h].event.type # "deleted"
    BY <1>5 DEF ProcessUpdate, Transition
  <2>. QED BY <2>1, <2>2, <2>3, NoticedGoesOn
<1>6. ASSUME NEW h \in Handler, GetMeeting(h) \/ Die(h) PROVE Noticed'
  <2>1. zoom' = zoom /\ events' = events /\ Known' \subseteq Known
    BY <1>6, GetMeetingTyped, HandlerStepTyped DEF GetMeeting, Die
  <2>. QED BY <2>1, NoticedGoesOn
<1>7. ASSUME NEW h \in Handler, BuildContext(h) \/ (CheckStatus(h) /\ handler' # handler)
      PROVE  Noticed'
  <2>1. PICK e \in events : Took(h, e)
    BY <1>7, TakenForm
  <2>2. zoom' = zoom /\ events' = events /\ Known' \subseteq Known
    BY <2>1, TookTyped DEF Took
  <2>. QED BY <2>2, NoticedGoesOn
<1>8. ASSUME NEW h \in Handler,
             \/ IgnoresStaleUpdate(h) \/ HandleMeetingDeleted(h)
             \/ CheckStatus(h) /\ handler' = handler
      PROVE  Noticed'
  <2>1. zoom' = zoom /\ Known' \subseteq Known
    BY <1>8, SettleTyped DEF IgnoresStaleUpdate, HandleMeetingDeleted, CheckStatus
  <2>2. CASE IgnoresStaleUpdate(h) \/ CheckStatus(h)
    <3>1. \A d \in events : d.type = "deleted" => d \in events'
      BY <2>2 DEF IgnoresStaleUpdate, CheckStatus, Settle
    <3>. QED BY <2>1, <3>1, NoticedGoesOn
  <2>3. CASE HandleMeetingDeleted(h)
    <3>1. PICK e \in events :
            /\ row' = IF row.status = "deleted" \/ IsStaleProviderEvent(row, e.at)
                      THEN row ELSE [Deleted(row) EXCEPT !.watermark = e.at]
            /\ Settle(e)
      BY <2>3 DEF HandleMeetingDeleted
    <3>2. events \ {e} \subseteq events'
      BY <3>1, SettleForm
    <3>3. CASE row.status = "deleted" \/ ~IsStaleProviderEvent(row, e.at)
      <4>1. row'.status = "deleted"
        <5>1. e.at \in 0..MaxTime /\ row \in Row
          BY DEF Typed, Types, Event
        <5>. QED BY <3>1, <3>3, <5>1, DeletedForm
      <4>. QED BY <4>1 DEF Noticed
    <3>4. CASE IsStaleProviderEvent(row, e.at)
      BY <2>1, <3>2, <3>4, NoticedGoesOn DEF IsStaleProviderEvent
    <3>. QED BY <3>3, <3>4
  <2>. QED BY <1>8, <2>2, <2>3
<1>. QED BY <1>1, <1>2, <1>3, <1>4, <1>5, <1>6, <1>7, <1>8 DEF Next

-----------------------------------------------------------------------------
(* A field no update event was ignored for is shown as Zoom has it, or an  *)
(* event that will show it is under way.                                   *)

Names(e, f) == e.type = "updated" /\ f \in DOMAIN e.changes

\* The event carries Zoom's value of the field, and none has a later time.
Decides(e, f) ==
  /\ Names(e, f) /\ e.changes[f] = zoom[f]
  /\ \A k \in Known : Names(k, f) => k.at <= e.at

\* A handler that takes the event now is stale or asks Zoom.
Checked(e) ==
  \/ row.watermark # Null /\ e.at <= row.watermark
  \/ row.cutoff # Null /\ e.at <= row.cutoff.at

\* The handler has asked Zoom, and nobody has written what it read of the row.
\* (The operation does not matter: it may have come and gone.)
Fits(h) ==
  /\ handler[h].pc = "ready" /\ handler[h].check
  /\ handler[h].cutoff = row.cutoff /\ handler[h].watermark = row.watermark

ShownIn(f) ==
  \/ \E e \in events : Decides(e, f)
  \/ /\ row.local[f] = zoom[f]
     /\ \A e \in Known : Names(e, f) => e.changes[f] = zoom[f] \/ Checked(e)

\* What the handler has seen is right, or an event other than its own decides.
SeenBy(h, f) ==
  \/ handler[h].snapshot[f] = zoom[f]
  \/ \E e \in events : e # handler[h].event /\ Decides(e, f)

AnsweredIn(f) ==
  row.opId # Null /\ request.answer = "ok" /\ f \in DOMAIN request.payload =>
    zoom[f] = request.payload[f] \/ \E e \in events : Decides(e, f)

InField(f) ==
  ShownIn(f) /\ (\A h \in Handler : Fits(h) => SeenBy(h, f)) /\ AnsweredIn(f)

InFields ==
  zoom # Absent /\ row.status # "deleted" => \A f \in Field \ dropped : InField(f)

\* What a step has to keep for a field it does not write.
LEMMA FieldGoesOn ==
  ASSUME Typed, Typed', Reading, [Next]_vars, NEW f, InField(f),
         zoom'[f] = zoom[f], row'.local[f] = row.local[f], row'.cutoff = row.cutoff,
         \A k \in Known' : Names(k, f) => k \in Known,
         \A k \in events : Names(k, f) => k \in events',
         \A h \in Handler :
           handler'[h].pc = "ready" /\ handler'[h].check =>
             handler'[h] = handler[h] \/ handler'[h].snapshot[f] = zoom[f],
         row'.opId # Null /\ request'.answer = "ok" /\ f \in DOMAIN request'.payload =>
           \/ zoom'[f] = request'.payload[f]
           \/ row.opId # Null /\ request' = request
  PROVE  InField(f)'
<1>1. Forward
  BY GoesForward
<1>2. \A e \in events : Decides(e, f) => e \in events' /\ Decides(e, f)'
  BY DEF Decides
<1>3. \A e \in Known : Checked(e) => Checked(e)'
  <2>. SUFFICES ASSUME NEW e \in Known, Checked(e) PROVE Checked(e)'
    OBVIOUS
  <2>1. CASE row.watermark # Null /\ e.at <= row.watermark
    <3>1. /\ row'.watermark # Null /\ row'.watermark >= row.watermark
      BY <1>1, <2>1 DEF Forward
    <3>2. row'.watermark \in Nat
      BY <3>1, EventsAssumption DEF Typed, Types, Row
    <3>3. e.at <= row'.watermark
      BY <2>1, <3>1, <3>2, Numbers
    <3>. QED BY <3>1, <3>3 DEF Checked
  <2>2. CASE row.cutoff # Null /\ e.at <= row.cutoff.at
    BY <2>2 DEF Checked
  <2>. QED BY <2>1, <2>2 DEF Checked
<1>4. ShownIn(f)'
  BY <1>2, <1>3 DEF InField, ShownIn
<1>5. ASSUME NEW h \in Handler, Fits(h)' PROVE SeenBy(h, f)'
  <2>1. CASE handler'[h].snapshot[f] = zoom[f]
    BY <2>1 DEF SeenBy
  <2>2. CASE handler'[h] = handler[h]
    <3>1. /\ handler[h].pc = "ready" /\ handler[h].check /\ handler[h].cutoff = row.cutoff
          /\ handler[h].watermark = row'.watermark
      BY <1>5, <2>2 DEF Fits
    <3>2. handler[h].watermark # Null =>
            row.watermark # Null /\ handler[h].watermark <= row.watermark
      BY <3>1 DEF Reading
    <3>3. row.watermark # Null => row'.watermark # Null /\ row'.watermark >= row.watermark
      BY <1>1 DEF Forward
    <3>4. handler[h].watermark = row.watermark
      BY <3>1, <3>2, <3>3, Numbers
    <3>5. SeenBy(h, f)
      BY <3>1, <3>4 DEF InField, Fits
    <3>. QED BY <1>2, <2>2, <3>5 DEF SeenBy
  <2>. QED BY <1>5, <2>1, <2>2 DEF Fits
<1>6. AnsweredIn(f)'
  BY <1>2 DEF InField, AnsweredIn
<1>. QED BY <1>4, <1>5, <1>6 DEF InField

\* A change that Zoom sends.
LEMMA FieldChanges ==
  ASSUME Typed, Typed', Reading, [Next]_vars, NEW f \in Field, InField(f),
         UNCHANGED <<row, handler, clock>>,
         NEW e \in Event, e.at = clock, e \notin Known, events' = events \cup {e},
         Names(e, f) => zoom'[f] = e.changes[f],
         ~Names(e, f) => zoom'[f] = zoom[f],
         \/ request' = request
         \/ Names(e, f) \/ f \notin DOMAIN request'.payload
  PROVE  InField(f)'
<1>1. Known' \subseteq Known \cup {e}
  BY SameHandlers, KnownGoesOn
<1>2. CASE Names(e, f)
  <2>1. \A k \in Known' : k.at <= e.at
    BY <1>1, Numbers
  <2>2. Decides(e, f)'
    BY <1>2, <2>1 DEF Decides
  <2>3. \A h \in Handler : handler[h].pc # "idle" => handler[h].event # e
    BY DEF Known
  <2>4. \A h \in Handler : Fits(h)' => handler'[h].event # e
    BY <2>3 DEF Fits
  <2>. QED BY <2>2, <2>4 DEF InField, ShownIn, SeenBy, AnsweredIn
<1>3. CASE ~Names(e, f)
  <2>1. \A k \in Known' : Names(k, f) => k \in Known
    BY <1>1, <1>3
  <2>. QED BY <1>3, <2>1, FieldGoesOn
<1>. QED BY <1>2, <1>3

\* A row that gets a new cutoff: every event under way is checked, and what any
\* handler has seen counts no longer.
LEMMA FieldSaved ==
  ASSUME Typed, Typed', NEW f, HandlersGoOn, Known' \subseteq Known, clock' = clock,
         row'.cutoff = NewCutoff,
         row'.local[f] = zoom'[f] \/ (\E e \in events' : Decides(e, f)'),
         row'.opId # Null /\ request'.answer = "ok" /\ f \in DOMAIN request'.payload =>
           zoom'[f] = request'.payload[f] \/ (\E e \in events' : Decides(e, f)')
  PROVE  InField(f)'
<1>1. /\ NewCutoff # Null /\ NewCutoff.at = clock
      /\ \A h \in Handler : NewCutoff # handler[h].cutoff
  BY FreshCutoff
<1>2. \A e \in Known' : Checked(e)'
  BY <1>1, Numbers DEF Checked
<1>3. \A h \in Handler : ~Fits(h)'
  BY <1>1 DEF HandlersGoOn, Fits, Idle
<1>. QED BY <1>2, <1>3 DEF InField, ShownIn, AnsweredIn

LEMMA StillShown ==
  ASSUME Typed, [Next]_vars, zoom' # Absent, row'.status # "deleted"
  PROVE  zoom # Absent /\ row.status # "deleted" /\ dropped \subseteq dropped'
<1>1. zoom # Absent
  BY DEF Next, vars, HostEdits, HostDeletes, HostMeets, Tick, SaveUpdateIntent, ZoomApplies,
         ZoomDoesNotApply, RequestSettles, IgnoresStaleUpdate, BuildContext, GetMeeting,
         ProcessUpdate, HandleMeetingDeleted, CheckStatus, Transition, Die
<1>2. row.status # "deleted"
  BY GoesForward DEF Forward
<1>3. ASSUME NEW h \in Handler, ProcessUpdate(h) PROVE dropped \subseteq dropped'
  BY <1>3, ProcessCases
  DEF Ignores, Loses, Deletes, Contradicts, Confirmed, Reconciles, Takes, LeavesDeleted, Ignore
<1>4. dropped \subseteq dropped'
  BY <1>3
  DEF Next, vars, HostEdits, HostDeletes, HostMeets, Tick, SaveUpdateIntent, ZoomApplies,
      ZoomDoesNotApply, RequestSettles, IgnoresStaleUpdate, BuildContext, GetMeeting,
      HandleMeetingDeleted, CheckStatus, Transition, Die, Ignore
<1>. QED BY <1>1, <1>2, <1>4

LEMMA ZoomFields ==
  ASSUME Typed, Typed', Reading, HostEdits \/ ZoomApplies, NEW f \in Field, InField(f)
  PROVE  InField(f)'
<1>0. [Next]_vars
  BY DEF Next
<1>1. CASE HostEdits
  <2>1. PICK g \in Field, v \in Val :
          zoom' = [zoom EXCEPT ![g] = v] /\ Sends("updated", [x \in {g} |-> v])
    BY <1>1 DEF HostEdits
  <2>2. zoom'[g] = v /\ (f # g => zoom'[f] = zoom[f])
    BY <1>1, <2>1 DEF HostEdits, Typed, Types, Fields
  <2>. DEFINE changes == [x \in {g} |-> v]
              e == NewEvent("updated", changes)
  <2>3. changes \in Changes /\ DOMAIN changes = {g} /\ changes[g] = v
    BY OneChange
  <2>. HIDE DEF changes
  <2>4. /\ e \in Event /\ e.type = "updated" /\ e.changes = changes /\ events' = events \cup {e}
        /\ e.at = clock /\ e \notin Known
    BY <2>1, <2>3, SentForm DEF changes
  <2>5. UNCHANGED <<row, handler, clock, request>>
    BY <1>1 DEF HostEdits
  <2>. HIDE DEF e
  <2>6. Names(e, f) <=> f = g
    BY <2>3, <2>4 DEF Names
  <2>. QED BY <1>0, <2>2, <2>3, <2>4, <2>5, <2>6, FieldChanges
<1>2. CASE ZoomApplies
  <2>1. /\ request.pc = "calling" /\ zoom \in Fields /\ request.payload \in Changes
        /\ zoom' = Updated(zoom, request.payload) /\ Sends("updated", request.payload)
        /\ UNCHANGED <<row, handler, clock>>
    BY <1>2 DEF ZoomApplies, Typed, Types, Requests, RequestState
  <2>. DEFINE e == NewEvent("updated", request.payload)
  <2>2. /\ e \in Event /\ e.type = "updated" /\ e.changes = request.payload
        /\ events' = events \cup {e} /\ e.at = clock /\ e \notin Known
    BY <2>1, SentForm
  <2>. HIDE DEF e
  <2>3. request'.payload = request.payload
    BY <1>2 DEF ZoomApplies, Typed, Types, RequestState
  <2>4. (Names(e, f) => zoom'[f] = e.changes[f]) /\ (~Names(e, f) => zoom'[f] = zoom[f])
    BY <2>1, <2>2, UpdatedForm DEF Names
  <2>. QED BY <1>0, <2>1, <2>2, <2>3, <2>4, FieldChanges DEF Names
<1>. QED BY <1>1, <1>2

LEMMA RequestFields ==
  ASSUME Typed, Typed', Reading, RequestSettles, NEW f \in Field, InField(f)
  PROVE  InField(f)'
<1>1. /\ request.pc = "answered" /\ request'.answer = Null /\ Null # "ok"
      /\ UNCHANGED <<zoom, events, handler, clock>> /\ Known' = Known
  BY EventsAssumption DEF RequestSettles, NoRequest, Known
<1>2. [Next]_vars
  BY DEF Next
<1>3. CASE row'.local = row.local /\ row'.cutoff = row.cutoff
  BY <1>1, <1>2, <1>3, FieldGoesOn
<1>4. CASE ~(row'.local = row.local /\ row'.cutoff = row.cutoff)
  <2>1. row.opId = request.opId /\ row' = AfterAnswer
    BY <1>4 DEF RequestSettles
  <2>2. /\ request.answer = "ok" /\ row'.cutoff = NewCutoff
        /\ row'.local = Updated(row.local, request.payload)
        /\ row.opId # Null /\ request.payload \in Changes /\ row.local \in Fields
    BY <1>1, <1>4, <2>1, AnswerRow DEF Typed, Requests, Types, RequestState, Row
  <2>3. \A e : Decides(e, f) => Decides(e, f)'
    BY <1>1 DEF Decides
  <2>4. row'.local[f] = zoom'[f] \/ \E e \in events' : Decides(e, f)'
    <3>1. CASE f \in DOMAIN request.payload
      BY <1>1, <2>2, <2>3, <3>1, UpdatedForm DEF InField, AnsweredIn
    <3>2. CASE f \notin DOMAIN request.payload
      BY <1>1, <2>2, <2>3, <3>2, UpdatedForm DEF InField, ShownIn
    <3>. QED BY <3>1, <3>2
  <2>. QED BY <1>1, <2>2, <2>4, SameHandlers, FieldSaved
<1>. QED BY <1>3, <1>4

\* Steps of a handler that only settle an event, read or give up.
LEMMA HandlerFields ==
  ASSUME Typed, Typed', Reading, NEW h \in Handler,
         \/ IgnoresStaleUpdate(h) \/ BuildContext(h) \/ GetMeeting(h) \/ CheckStatus(h)
         \/ Transition(h) \/ Die(h),
         NEW f \in Field \ dropped', InField(f)
  PROVE  InField(f)'
<1>1. [Next]_vars /\ UNCHANGED <<zoom, row, request>>
  BY DEF Next, IgnoresStaleUpdate, BuildContext, GetMeeting, CheckStatus, Transition, Die
<1>2. Known' \subseteq Known
  <2>1. CASE Transition(h) \/ Die(h)
    BY <2>1, HandlerStepTyped
  <2>2. CASE GetMeeting(h)
    BY <2>2, GetMeetingTyped
  <2>3. CASE BuildContext(h) \/ (CheckStatus(h) /\ handler' # handler)
    BY <2>3, TakenForm, TookTyped
  <2>4. CASE IgnoresStaleUpdate(h) \/ (CheckStatus(h) /\ handler' = handler)
    BY <2>4, SettleTyped
  <2>. QED BY <2>1, <2>2, <2>3, <2>4
<1>3. \A k \in events : Names(k, f) => k \in events'
  BY DEF IgnoresStaleUpdate, BuildContext, GetMeeting, CheckStatus, Transition, Die, Settle,
         Ignore, Names
<1>4. \A g \in Handler : handler'[g].pc = "ready" /\ handler'[g].check =>
        handler'[g] = handler[g] \/ handler'[g].snapshot[f] = zoom[f]
  <2>1. CASE GetMeeting(h)
    BY <2>1, GetMeetingTyped
  <2>2. CASE Transition(h) \/ Die(h)
    BY <2>2, FreedHandlers DEF Transition, Die, Idle
  <2>3. CASE BuildContext(h) \/ (CheckStatus(h) /\ handler' # handler)
    BY <2>3, TakenForm DEF Took
  <2>4. CASE IgnoresStaleUpdate(h) \/ (CheckStatus(h) /\ handler' = handler)
    BY <2>4 DEF IgnoresStaleUpdate
  <2>. QED BY <2>1, <2>2, <2>3, <2>4
<1>. QED BY <1>1, <1>2, <1>3, <1>4, FieldGoesOn

LEMMA ProcessFields ==
  ASSUME Typed, Typed', Reading, Gone, NEW h \in Handler, ProcessUpdate(h),
         zoom # Absent, row.status # "deleted", row'.status # "deleted",
         NEW f \in Field \ dropped', InField(f)
  PROVE  InField(f)'
<1>. DEFINE e == handler[h].event
<1>1. /\ [Next]_vars /\ UNCHANGED <<zoom, request, clock>> /\ Known' \subseteq Known
      /\ HandlersGoOn
  BY ProcessUpdateTyped DEF Next, ProcessUpdate
<1>2. /\ e \in Event /\ e \in Known /\ e.type = "updated" /\ row \in Row
      /\ e.at \in 0..MaxTime /\ e.changes \in Changes /\ handler[h].pc = "ready"
  BY DEF ProcessUpdate, Typed, Types, Handlers, Known, Event
<1>3. \A k \in events : k # e => k \in events'
  BY DEF ProcessUpdate, Settle
<1>4. \A g \in Handler : handler'[g].pc = "ready" => handler'[g] = handler[g]
  BY FreedHandlers DEF ProcessUpdate, Idle
<1>5. \A k : Decides(k, f) => Decides(k, f)'
  BY <1>1 DEF Decides
<1>6. ASSUME Settle(e), Ignore(e), row'.local = row.local, row'.cutoff = row.cutoff,
             row'.opId = row.opId
      PROVE  InField(f)'
  <2>1. ~Names(e, f)
    BY <1>6 DEF Ignore, Names
  <2>2. \A k \in events : Names(k, f) => k \in events'
    BY <1>3, <2>1
  <2>. QED BY <1>1, <1>4, <1>6, <2>2, FieldGoesOn
<1>7. CASE Ignores(h)
  BY <1>6, <1>7 DEF Ignores
<1>8. CASE Loses(h)
  BY <1>1, <1>4, <1>8, FieldGoesOn DEF Loses
<1>9. CASE Contradicts(h)
  <2>1. /\ row'.local = row.local /\ row'.cutoff = row.cutoff /\ row'.opId = row.opId
    BY <1>2, <1>9 DEF Contradicts, Row
  <2>. QED BY <1>6, <1>9, <2>1 DEF Contradicts
<1>10. ASSUME MeetingDidNotChange(h), handler[h].check
       PROVE  handler[h].snapshot[f] = zoom[f] \/ \E k \in events' : Decides(k, f)'
  <2>1. SeenBy(h, f)
    BY <1>2, <1>10 DEF InField, Fits, MeetingDidNotChange
  <2>. QED BY <1>3, <1>5, <2>1 DEF SeenBy
<1>11. CASE MeetingDidNotChange(h) /\ Confirmed(h)
  <2>1. /\ row'.cutoff = NewCutoff /\ row'.local = handler[h].snapshot
        /\ row'.opId # Null => row'.opId = row.opId
    <3>1. Saved(h) \in Row
      BY <1>2, <1>11, SavedRow DEF Confirmed
    <3>. QED BY <1>2, <1>11, <3>1, SavedRow, CompletedForm DEF Confirmed
  <2>2. row'.local[f] = zoom'[f] \/ \E k \in events' : Decides(k, f)'
    BY <1>1, <1>10, <1>11, <2>1 DEF Confirmed
  <2>3. ASSUME row'.opId # Null, request'.answer = "ok", f \in DOMAIN request'.payload
        PROVE  zoom'[f] = request'.payload[f] \/ \E k \in events' : Decides(k, f)'
    <3>1. request' = request /\ row.opId # Null
      BY <1>1, <2>1, <2>3
    <3>2. zoom[f] = request.payload[f] \/ \E k \in events : Decides(k, f)
      BY <2>3, <3>1 DEF InField, AnsweredIn
    <3>3. ASSUME Decides(e, f) PROVE zoom[f] = request.payload[f]
      <4>1. request.pc # "idle"
        BY <2>3, <3>1, EventsAssumption DEF Typed, Requests, NoRequest
      <4>2. row.payload = request.payload
        BY <3>1, <4>1 DEF Typed, Requests
      <4>3. e.changes[f] = row.payload[f]
        BY <1>11, <2>3, <3>1, <4>2 DEF Confirmed, MatchesOperation
      <4>. QED BY <3>3, <4>2, <4>3 DEF Decides
    <3>. QED BY <1>1, <1>3, <1>5, <3>1, <3>2, <3>3
  <2>. QED BY <1>1, <2>1, <2>2, <2>3, FieldSaved
<1>12. CASE MeetingDidNotChange(h) /\ Reconciles(h)
  <2>1. /\ row'.cutoff = NewCutoff /\ row'.local = handler[h].snapshot /\ row'.opId = Null
    BY <1>2, <1>12, SavedRow DEF Reconciles, Typed, RowShape
  <2>2. row'.local[f] = zoom'[f] \/ \E k \in events' : Decides(k, f)'
    BY <1>1, <1>10, <1>12, <2>1 DEF Reconciles
  <2>. QED BY <1>1, <2>1, <2>2, FieldSaved
<1>13. CASE MeetingDidNotChange(h) /\ Takes(h)
  <2>. DEFINE local == Updated(row.local, e.changes)
  <2>1. local \in Fields
    BY <1>2, UpdatedForm DEF Row
  <2>2. /\ row'.local = local /\ row'.cutoff = row.cutoff /\ row'.watermark = e.at
        /\ row'.opId = row.opId /\ row.opId = Null
    <3>. HIDE DEF local
    <3>1. row' = [row EXCEPT !.local = local, !.watermark = e.at]
      BY <1>13 DEF Takes, local
    <3>. QED BY <1>2, <1>13, <3>1 DEF Row, Takes, Typed, RowShape
  <2>3. (Names(e, f) => row'.local[f] = e.changes[f])
        /\ (~Names(e, f) => row'.local[f] = row.local[f])
    BY <1>2, <2>2, UpdatedForm DEF Row, Names
  <2>4. CASE ~Names(e, f)
    <3>1. \A k \in events : Names(k, f) => k \in events'
      BY <1>3, <2>4
    <3>. QED BY <1>1, <1>4, <2>2, <2>3, <2>4, <3>1, FieldGoesOn
  <2>5. CASE Names(e, f)
    <3>1. \A g \in Handler : ~Fits(g)'
      <4>. SUFFICES ASSUME NEW g \in Handler, Fits(g)' PROVE FALSE
        OBVIOUS
      <4>1. g \in Handler /\ handler[g].pc # "idle" /\ handler[g].watermark = e.at
        BY <1>4, <2>2 DEF Fits
      <4>2. e.at \in Nat /\ e.at # Null
        BY <1>2, EventsAssumption
      <4>3. row.watermark # Null /\ e.at <= row.watermark
        BY <4>1, <4>2 DEF Reading
      <4>4. handler[h].watermark # Null => e.at > handler[h].watermark
        BY <1>2, <1>13 DEF Reading, Takes
      <4>5. handler[h].watermark = row.watermark
        BY <1>13 DEF MeetingDidNotChange
      <4>. QED BY <4>2, <4>3, <4>4, <4>5, Numbers
    <3>2. ~Checked(e)
      <4>1. /\ handler[h].watermark # Null => e.at > handler[h].watermark
            /\ handler[h].cutoff # Null => e.at > handler[h].cutoff.at
        BY <1>2, <1>13 DEF Reading, Takes
      <4>2. handler[h].watermark = row.watermark /\ handler[h].cutoff = row.cutoff
        BY <1>13 DEF MeetingDidNotChange
      <4>. QED BY <1>2, <4>1, <4>2, Numbers DEF Checked
    <3>3. \A k \in Known : Checked(k) \/ k.at <= e.at => Checked(k)'
      <4>. SUFFICES ASSUME NEW k \in Known, Checked(k) \/ k.at <= e.at PROVE Checked(k)'
        OBVIOUS
      <4>1. e.at \in Nat /\ e.at # Null /\ k.at \in Nat
        BY <1>2, EventsAssumption, Numbers
      <4>2. row.watermark # Null => row.watermark <= e.at
        BY <1>1, <2>2, GoesForward, Numbers, <4>1 DEF Forward
      <4>3. CASE k.at <= e.at
        BY <2>2, <4>1, <4>3 DEF Checked
      <4>4. CASE row.watermark # Null /\ k.at <= row.watermark
        BY <2>2, <4>1, <4>2, <4>4, Numbers DEF Checked
      <4>5. CASE row.cutoff # Null /\ k.at <= row.cutoff.at
        BY <2>2, <4>5 DEF Checked
      <4>. QED BY <4>3, <4>4, <4>5 DEF Checked
    <3>4. ShownIn(f)'
      <4>1. ASSUME NEW k \in events, Decides(k, f), k # e PROVE ShownIn(f)'
        BY <1>3, <1>5, <4>1 DEF ShownIn
      <4>2. CASE Decides(e, f)
        <5>1. row'.local[f] = zoom'[f]
          BY <1>1, <2>3, <4>2 DEF Decides
        <5>2. \A k \in Known' : Names(k, f) => Checked(k)'
          BY <1>1, <3>3, <4>2 DEF Decides
        <5>. QED BY <5>1, <5>2 DEF ShownIn
      <4>3. CASE \A k \in Known : Names(k, f) => k.changes[f] = zoom[f] \/ Checked(k)
        <5>1. row'.local[f] = zoom'[f]
          BY <1>1, <1>2, <2>3, <2>5, <3>2, <4>3
        <5>2. \A k \in Known' : Names(k, f) => k.changes[f] = zoom'[f] \/ Checked(k)'
          BY <1>1, <3>3, <4>3
        <5>. QED BY <5>1, <5>2 DEF ShownIn
      <4>. QED BY <4>1, <4>2, <4>3 DEF InField, ShownIn
    <3>. QED BY <2>2, <3>1, <3>4 DEF InField, AnsweredIn
  <2>. QED BY <2>4, <2>5
<1>14. ~Deletes(h)
  <2>. SUFFICES ASSUME Deletes(h) PROVE FALSE
    OBVIOUS
  <2>. QED BY <1>2, DeletedForm DEF Deletes
<1>. QED
  BY <1>7, <1>8, <1>9, <1>11, <1>12, <1>13, <1>14, ProcessCases DEF LeavesDeleted

LEMMA InFieldsStep ==
  ASSUME Typed, Typed', Reading, Gone, InFields, [Next]_vars
  PROVE  InFields'
<1>. SUFFICES ASSUME zoom' # Absent, row'.status # "deleted", NEW f \in Field \ dropped'
              PROVE  InField(f)'
  BY DEF InFields
<1>1. zoom # Absent /\ row.status # "deleted" /\ InField(f)
  BY StillShown DEF InFields
<1>2. CASE UNCHANGED vars
  BY <1>1, <1>2 DEF vars, InField, ShownIn, Fits, SeenBy, AnsweredIn, Decides, Checked, Known
<1>3. CASE HostEdits \/ ZoomApplies
  BY <1>1, <1>3, ZoomFields
<1>4. CASE HostDeletes
  BY <1>4 DEF HostDeletes
<1>5. CASE HostMeets
  <2>1. PICK type \in {"started", "ended"} : Sends(type, NoChanges)
    BY <1>5 DEF HostMeets
  <2>. DEFINE e == NewEvent(type, NoChanges)
  <2>2. /\ e \in Event /\ e.type = type /\ e.at = clock /\ e \notin Known
        /\ events' = events \cup {e}
    BY <2>1, NoChange, SentForm
  <2>. HIDE DEF e
  <2>3. ~Names(e, f)
    BY <2>1, <2>2 DEF Names
  <2>4. UNCHANGED <<zoom, row, handler, clock, request>>
    BY <1>5 DEF HostMeets
  <2>. QED BY <1>1, <2>2, <2>3, <2>4, FieldChanges
<1>6. CASE Tick \/ ZoomDoesNotApply
  <2>1. UNCHANGED <<zoom, row, handler, events>> /\ Known' = Known
    BY <1>6 DEF Tick, ZoomDoesNotApply, Known
  <2>2. request' = request \/ request'.answer # "ok"
    BY <1>6 DEF Tick, ZoomDoesNotApply, Typed, Types, RequestState
  <2>. QED BY <1>1, <2>1, <2>2, FieldGoesOn
<1>7. CASE SaveUpdateIntent
  <2>1. UNCHANGED <<zoom, handler, events>> /\ Known' = Known
        /\ row'.local = row.local /\ row'.cutoff = row.cutoff /\ request'.answer = Null
    BY <1>7 DEF SaveUpdateIntent, Known, Typed, Types, Row
  <2>. QED BY <1>1, <2>1, EventsAssumption, FieldGoesOn
<1>8. CASE RequestSettles
  BY <1>1, <1>8, RequestFields
<1>9. ASSUME NEW h \in Handler,
             \/ IgnoresStaleUpdate(h) \/ BuildContext(h) \/ GetMeeting(h) \/ CheckStatus(h)
             \/ Transition(h) \/ Die(h)
      PROVE  InField(f)'
  BY <1>1, <1>9, HandlerFields
<1>10. ASSUME NEW h \in Handler, ProcessUpdate(h) PROVE InField(f)'
  BY <1>1, <1>10, ProcessFields
<1>11. ASSUME NEW h \in Handler, HandleMeetingDeleted(h) PROVE FALSE
  BY <1>1, <1>11 DEF HandleMeetingDeleted, Gone
<1>. QED
  BY <1>2, <1>3, <1>4, <1>5, <1>6, <1>7, <1>8, <1>9, <1>10, <1>11 DEF Next

IInv == Typed /\ Gone /\ Confirms /\ Reading /\ Noticed /\ InFields

LEMMA InitIInv == Init => IInv
<1>. SUFFICES ASSUME Init PROVE IInv
  OBVIOUS
<1>1. /\ events = {} /\ row.local = zoom /\ row.opId = Null /\ zoom \in Fields
      /\ \A h \in Handler : handler[h].pc = "idle"
  BY DEF Init, Idle
<1>2. Known = {}
  BY <1>1 DEF Known
<1>3. \A f \in Field : InField(f)
  BY <1>1, <1>2 DEF InField, ShownIn, Fits, AnsweredIn
<1>4. Confirms /\ Noticed /\ InFields
  BY <1>1, <1>3, EventsAssumption DEF Confirms, Noticed, InFields
<1>. QED BY <1>4, InitTyped, InitGone, InitReading DEF IInv

LEMMA Invariance == Spec => []IInv
<1>1. IInv /\ [Next]_vars => IInv'
  <2>. SUFFICES ASSUME IInv, [Next]_vars PROVE IInv'
    OBVIOUS
  <2>1. Typed'
    BY TypedStep DEF IInv
  <2>. QED
    BY <2>1, GoneStep, ConfirmsStep, ReadingStep, NoticedStep, InFieldsStep DEF IInv
<1>. QED BY <1>1, InitIInv, PTL DEF Spec

\* When nothing is under way, an active meeting shows what Zoom shows in every
\* field no event was ignored for, and a meeting Zoom does not have is deleted:
\* handlers that read before the lock, ties of Zoom's times, and events that are
\* repeated or come in another order lose nothing.
THEOREM EndsInSync == Spec => []InSync
<1>1. IInv => InSync
  <2>. SUFFICES ASSUME IInv, events = {}, request = NoRequest, \A h \in Handler : handler[h] = Idle
                PROVE  /\ zoom = Absent => row.status = "deleted"
                       /\ row.status = "active" =>
                            \A f \in Field \ dropped : row.local[f] = zoom[f]
    BY DEF InSync
  <2>1. zoom = Absent => row.status = "deleted"
    BY DEF IInv, Noticed
  <2>. QED BY <2>1 DEF IInv, InFields, InField, ShownIn
<1>. QED BY <1>1, Invariance, PTL
=============================================================================
