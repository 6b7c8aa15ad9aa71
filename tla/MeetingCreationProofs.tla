------------------------ MODULE MeetingCreationProofs ------------------------
(***************************************************************************)
(* Theorems about MeetingCreation, for any number of recovery runs, Zoom   *)
(* meetings, tokens, attempts and faults.                                  *)
(***************************************************************************)
EXTENDS MeetingCreation, TLAPS

\* Zoom ids are of meetings Zoom has.
Ids ==
  /\ row.zoomId \in zoom \cup {Null}
  /\ creator.pc = "answered" => creator.answer \in {"ok", "unknown", "rejected", "broken"}
  /\ creator.pc = "answered" /\ creator.answer = "ok" => creator.zoomId \in zoom
  /\ \A r \in Recoverer : recoverer[r].found \subseteq zoom
  /\ operator \in zoom \cup {Null}

\* While the request runs, only the webhook can have moved its row on; and a row
\* that is attached to a meeting is past its creation.
Stages ==
  /\ row.status = "none" <=> creator.pc = "idle"
  /\ row.status \in {"none", "creating"} =>
       row.zoomId = Null /\ row.claim = Null /\ row.attempts = 0
  /\ row.status = "creating" /\ creator.pc # "done" => row.lease = "live"
  /\ creator.pc # "done" /\ row.zoomId = Null => row.status \in {"none", "creating"}
  /\ EstablishedNeverFails

\* The automatic recovery still has to look at the row.
Alive ==
  row.status \in {"creating", "create_unknown"} /\ ~AwaitsManualZoomRecovery

\* Two things reopen a row whose attempts are spent, each once: the webhook that
\* attaches a meeting, and the late answer of the request.
Allowance ==
  IF creator.pc = "done" /\ row.zoomId # Null THEN MaxAttempts + 2 ELSE MaxAttempts

Counted ==
  row.attempts <= Allowance /\ (Alive => row.attempts < Allowance)

IInv == TypeOK /\ Ids /\ Stages /\ NeverInLimbo /\ Counted

Status == {"none", "creating", "create_unknown", "active", "failed", "updating"}

\* A row that has been released, with what else is stored.
Released(r, status, zoomId, avail, attempts) ==
  /\ r.status = status /\ r.zoomId = zoomId
  /\ r.claim = Null /\ r.lease = Null /\ r.avail = avail
  /\ r.attempts = attempts

\* What the assignments of MeetingRow make of a row.
LEMMA Forms ==
  ASSUME NEW r \in Row
  PROVE  /\ Waiting(r) \in Row
         /\ Released(Waiting(r), r.status, r.zoomId, "later", r.attempts)
         /\ \A s \in Status :
              /\ HandedOver(r, s) \in Row
              /\ Released(HandedOver(r, s), s, r.zoomId, Null, r.attempts)
  BY DEF Row, Waiting, HandedOver, Released, Status

LEMMA ActivatedForm ==
  ASSUME TypeOK, NEW m \in ZoomId
  PROVE  /\ Activated(m) \in Row
         /\ Released(Activated(m), "active", m, Null, row.attempts)
  BY DEF TypeOK, Row, Activated, HandedOver, Released

\* A meeting that is finalized keeps its Zoom meeting or gets the one found.
LEMMA FinalizedInv ==
  ASSUME IInv, row.status = "create_unknown", NEW m \in zoom, row' = Finalized(m),
         UNCHANGED <<creator, zoom>>
  PROVE  row' \in Row /\ Stages' /\ NeverInLimbo' /\ Counted' /\ row'.zoomId \in zoom
<1>1. m \in ZoomId /\ row \in Row
  BY DEF IInv, TypeOK
<1>2. CASE Conflicts(m)
  <2>1. row' \in Row /\ Released(row', "create_unknown", row.zoomId, Null, row.attempts)
    BY <1>1, <1>2, Forms DEF Finalized, Status
  <2>2. row.zoomId \in zoom
    BY <1>2 DEF Conflicts, IInv, Ids
  <2>. QED
    BY <1>1, <2>1, <2>2, RowAssumption
    DEF Released, Row, IInv, Stages, EstablishedNeverFails, NeverInLimbo, AwaitsManualZoomRecovery,
        Counted, Alive, Allowance
<1>3. CASE ~Conflicts(m)
  <2>1. row' \in Row /\ Released(row', "active", m, Null, row.attempts)
    BY <1>1, <1>3, ActivatedForm DEF Finalized, IInv
  <2>2. row'.attempts <= Allowance'
    BY <1>1, <2>1, RowAssumption, CreationAssumption
    DEF Released, Row, IInv, Counted, Allowance
  <2>. QED
    BY <1>1, <2>1, <2>2, CreationAssumption
    DEF Released, Row, IInv, Stages, EstablishedNeverFails, NeverInLimbo, AwaitsManualZoomRecovery,
        Counted, Alive
<1>. QED BY <1>2, <1>3

LEMMA InitInv == Init => IInv
  BY RowAssumption, CreationAssumption
  DEF Init, IInv, TypeOK, Row, Creator, Run, IdleRun, Ids, Stages, EstablishedNeverFails,
      NeverInLimbo, AwaitsManualZoomRecovery, Counted, Alive, Allowance

LEMMA CreateMeetingWithOperationInv ==
  ASSUME IInv, NEW op \in OpId, CreateMeetingWithOperation(op)
  PROVE  IInv'
<1>1. /\ row' = [status |-> "creating", opId |-> op, zoomId |-> row.zoomId,
                 claim |-> row.claim, lease |-> "live", avail |-> row.avail,
                 attempts |-> row.attempts]
      /\ row.status = "none" /\ row.zoomId = Null /\ row.claim = Null /\ row.attempts = 0
  BY DEF CreateMeetingWithOperation, IInv, TypeOK, Row, Stages
<1>2. /\ creator' = [pc |-> "calling", answer |-> creator.answer, zoomId |-> creator.zoomId]
      /\ UNCHANGED <<zoom, webhooks, recoverer, operator, faults>>
  BY DEF CreateMeetingWithOperation, IInv, TypeOK, Creator
<1>3. TypeOK'
  BY <1>1, <1>2 DEF IInv, TypeOK, Row, Creator
<1>4. Ids'
  BY <1>1, <1>2 DEF IInv, Ids
<1>5. Stages' /\ NeverInLimbo' /\ Counted'
  BY <1>1, <1>2, RowAssumption
  DEF Stages, EstablishedNeverFails, NeverInLimbo, AwaitsManualZoomRecovery, Counted,
      Alive, Allowance
<1>. QED BY <1>3, <1>4, <1>5 DEF IInv

LEMMA CallZoomInv ==
  ASSUME IInv, CallZoom
  PROVE  IInv'
<1>1. PICK answer \in {"ok", "unknown", "rejected", "broken"}, m \in ZoomId \cup {Null} :
        /\ creator' = [pc |-> "answered", answer |-> answer, zoomId |-> m]
        /\ \/ m \in ZoomId /\ ZoomCreates(m)
           \/ answer # "ok" /\ UNCHANGED <<zoom, webhooks>>
  BY DEF CallZoom
<1>2. creator.pc = "calling" /\ UNCHANGED <<row, recoverer, operator, faults>>
  BY DEF CallZoom
<1>3. /\ zoom \subseteq zoom' /\ zoom' \subseteq ZoomId /\ webhooks' \subseteq zoom'
      /\ answer = "ok" => m \in zoom'
  BY <1>1 DEF ZoomCreates, IInv, TypeOK
<1>4. TypeOK'
  BY <1>1, <1>2, <1>3 DEF IInv, TypeOK, Creator
<1>5. Ids'
  <2>1. row'.zoomId \in zoom' \cup {Null} /\ operator' \in zoom' \cup {Null}
    BY <1>2, <1>3 DEF IInv, Ids
  <2>. QED BY <1>1, <1>2, <1>3, <2>1 DEF IInv, Ids
<1>6. Stages' /\ NeverInLimbo' /\ Counted'
  BY <1>1, <1>2
  DEF IInv, Stages, EstablishedNeverFails, NeverInLimbo, AwaitsManualZoomRecovery, Counted,
      Alive, Allowance
<1>. QED BY <1>4, <1>5, <1>6 DEF IInv

\* The request's answer ends the creation, leaves it to the recovery, or comes
\* too late to matter.
LEMMA FinishCreationInv ==
  ASSUME IInv, FinishCreation
  PROVE  IInv'
<1>1. /\ creator.pc = "answered"
      /\ creator' = [pc |-> "done", answer |-> creator.answer, zoomId |-> creator.zoomId]
      /\ UNCHANGED <<zoom, webhooks, recoverer, operator, faults>>
  BY DEF FinishCreation, IInv, TypeOK, Creator
<1>2. row \in Row /\ row.status # "none"
  BY <1>1 DEF IInv, TypeOK, Stages
<1>3. \/ row' = row
      \/ row' = CreateFailed
      \/ row' = CreateUnknown
      \/ creator.zoomId \in zoom /\ row' = Synced(creator.zoomId)
  <2>1. creator.answer \in {"ok", "unknown", "rejected", "broken"}
    BY <1>1 DEF IInv, TypeOK, Creator, Ids
  <2>2. creator.answer = "ok" => creator.zoomId \in zoom
    BY <1>1 DEF IInv, Ids
  <2>3. CASE creator.answer = "ok"
    BY <2>2, <2>3 DEF FinishCreation
  <2>4. CASE creator.answer = "unknown"
    BY <2>4 DEF FinishCreation
  <2>5. CASE creator.answer = "rejected"
    BY <2>5 DEF FinishCreation
  <2>6. CASE creator.answer = "broken"
    BY <2>6 DEF FinishCreation
  <2>. QED BY <2>1, <2>3, <2>4, <2>5, <2>6
<1>4. row' \in Row /\ row'.zoomId \in zoom \cup {Null} /\ Stages' /\ NeverInLimbo' /\ Counted'
  <2>1. CASE row' = row
    BY <1>1, <1>2, <2>1, CreationAssumption, RowAssumption
    DEF Row, IInv, Ids, Stages, EstablishedNeverFails, NeverInLimbo,
        AwaitsManualZoomRecovery, Counted, Alive, Allowance
  <2>2. CASE row' = CreateFailed /\ row' # row
    <3>1. row.status = "creating" /\ row' = [HandedOver(row, "failed") EXCEPT !.attempts = @ + 1]
      BY <2>2 DEF CreateFailed
    <3>2. row.zoomId = Null /\ row.attempts = 0
      BY <3>1 DEF IInv, Stages
    <3>3. HandedOver(row, "failed") \in Row /\ Released(HandedOver(row, "failed"), "failed", Null, Null, 0)
      BY <1>2, <3>2, Forms DEF Status
    <3>4. row' \in Row /\ Released(row', "failed", Null, Null, 1)
      BY <3>1, <3>3, RowAssumption DEF Row, Released
    <3>. QED
      BY <1>1, <3>4, RowAssumption
      DEF Released, Stages, EstablishedNeverFails, NeverInLimbo, AwaitsManualZoomRecovery,
          Counted, Alive, Allowance
  <2>3. CASE row' = CreateUnknown /\ row' # row
    <3>1. /\ row.status \in {"creating", "create_unknown"}
          /\ row' = [Waiting(row) EXCEPT !.status = "create_unknown", !.attempts = @ + 1]
      BY <2>3 DEF CreateUnknown
    <3>2. \/ row.zoomId = Null /\ row.attempts = 0
          \/ row.zoomId # Null /\ row.attempts <= MaxAttempts
      BY <1>1, <3>1 DEF IInv, Stages, Counted, Allowance
    <3>3. Waiting(row) \in Row /\ Released(Waiting(row), row.status, row.zoomId, "later", row.attempts)
      BY <1>2, Forms
    <3>4. row.attempts \in Nat /\ row.attempts + 1 \in 0..MaxAttempts + 2
      BY <1>2, <3>2, RowAssumption DEF Row
    <3>5. /\ row' \in Row
          /\ Released(row', "create_unknown", row.zoomId, "later", row.attempts + 1)
      BY <3>1, <3>3, <3>4 DEF Row, Released
    <3>6. row'.attempts < Allowance'
      BY <1>1, <3>2, <3>4, <3>5, RowAssumption DEF Allowance, Released
    <3>7. Counted'
      BY <3>4, <3>5, <3>6, RowAssumption DEF Counted, Released, Allowance
    <3>. QED
      BY <1>1, <3>5, <3>7, RowAssumption
      DEF IInv, Ids, Released, Stages, EstablishedNeverFails, NeverInLimbo
  <2>4. CASE creator.zoomId \in zoom /\ row' = Synced(creator.zoomId) /\ row' # row
    <3>1. creator.zoomId \in ZoomId
      BY <2>4 DEF IInv, TypeOK
    <3>2. CASE Conflicts(creator.zoomId)
      <4>1. row.zoomId \in zoom /\ row.status \notin {"none", "creating", "failed"}
        BY <1>2, <3>2 DEF Conflicts, IInv, Ids, Stages, EstablishedNeverFails
      <4>2. row' \in Row /\ Released(row', row.status, row.zoomId, Null, row.attempts)
        <5>1. row' = HandedOver(row, row.status)
          BY <2>4, <3>2, <4>1 DEF Synced, Conflicts
        <5>2. row.status \in Status
          BY <1>2 DEF Row, Status
        <5>. QED BY <1>2, <5>1, <5>2, Forms
      <4>3. row'.attempts <= Allowance'
        BY <1>1, <1>2, <4>1, <4>2, RowAssumption, CreationAssumption
        DEF Released, Row, IInv, Counted, Allowance
      <4>. QED
        BY <1>1, <1>2, <4>1, <4>2, <4>3, RowAssumption, CreationAssumption
        DEF Released, Row, Stages, EstablishedNeverFails, NeverInLimbo, AwaitsManualZoomRecovery,
            Counted, Alive
    <3>3. CASE ~Conflicts(creator.zoomId)
      <4>1. row' \in Row /\ Released(row', "active", creator.zoomId, Null, row.attempts)
        BY <2>4, <3>1, <3>3, ActivatedForm DEF Synced, IInv
      <4>2. row'.attempts <= Allowance'
        BY <1>1, <1>2, <2>4, <3>1, <4>1, RowAssumption, CreationAssumption
        DEF Released, Row, IInv, Counted, Allowance
      <4>. QED
        BY <1>1, <1>2, <2>4, <3>1, <4>1, <4>2, RowAssumption, CreationAssumption
        DEF Released, Row, Stages, EstablishedNeverFails, NeverInLimbo, AwaitsManualZoomRecovery,
            Counted, Alive
    <3>. QED BY <3>2, <3>3
  <2>. QED BY <1>3, <2>1, <2>2, <2>3, <2>4
<1>5. TypeOK'
  BY <1>1, <1>4 DEF IInv, TypeOK, Creator
<1>6. Ids'
  BY <1>1, <1>4 DEF IInv, Ids
<1>. QED BY <1>4, <1>5, <1>6 DEF IInv

LEMMA CreatorCrashesInv ==
  ASSUME IInv, CreatorCrashes
  PROVE  IInv'
<1>1. /\ creator.pc # "done" /\ creator.pc # "idle"
      /\ creator' = [pc |-> "done", answer |-> creator.answer, zoomId |-> creator.zoomId]
      /\ UNCHANGED <<row, recoverer, operator>>
      /\ faults < MaxFaults /\ faults' = faults + 1
  BY DEF CreatorCrashes, Fault, IInv, TypeOK, Creator
<1>2. zoom \subseteq zoom' /\ zoom' \subseteq ZoomId /\ webhooks' \subseteq zoom'
  BY DEF CreatorCrashes, ZoomCreates, IInv, TypeOK
<1>3. TypeOK'
  BY <1>1, <1>2, CreationAssumption DEF IInv, TypeOK, Creator
<1>4. Ids'
  BY <1>1, <1>2 DEF IInv, Ids
<1>5. Stages' /\ NeverInLimbo' /\ Counted'
  BY <1>1, CreationAssumption, RowAssumption
  DEF IInv, TypeOK, Row, Stages, EstablishedNeverFails, NeverInLimbo,
      AwaitsManualZoomRecovery, Counted, Alive, Allowance
<1>. QED BY <1>3, <1>4, <1>5 DEF IInv

LEMMA HostDuplicatesInv ==
  ASSUME IInv, NEW m \in ZoomId, HostDuplicates(m)
  PROVE  IInv'
<1>1. /\ UNCHANGED <<row, creator, recoverer, operator, faults>>
      /\ zoom \subseteq zoom' /\ zoom' \subseteq ZoomId /\ webhooks' \subseteq zoom'
  BY DEF HostDuplicates, ZoomCreates, IInv, TypeOK
<1>2. TypeOK'
  BY <1>1 DEF IInv, TypeOK
<1>3. Ids'
  BY <1>1 DEF IInv, Ids
<1>4. Stages' /\ NeverInLimbo' /\ Counted'
  BY <1>1
  DEF IInv, Stages, EstablishedNeverFails, NeverInLimbo, AwaitsManualZoomRecovery, Counted,
      Alive, Allowance
<1>. QED BY <1>2, <1>3, <1>4 DEF IInv

\* A webhook hands the row to the recovery, whatever the request is doing.
LEMMA AttachRemoteMeetingIdInv ==
  ASSUME IInv, NEW m \in ZoomId, AttachRemoteMeetingId(m)
  PROVE  IInv'
<1>1. /\ m \in zoom /\ webhooks' \subseteq zoom
      /\ UNCHANGED <<creator, zoom, recoverer, operator, faults>>
  BY DEF AttachRemoteMeetingId, IInv, TypeOK
<1>2. row' \in Row /\ row'.zoomId \in zoom \cup {Null} /\ Stages' /\ NeverInLimbo' /\ Counted'
  <2>1. CASE row' = row
    BY <1>1, <2>1
    DEF IInv, TypeOK, Ids, Stages, EstablishedNeverFails, NeverInLimbo,
        AwaitsManualZoomRecovery, Counted, Alive, Allowance
  <2>2. CASE row' # row
    <3>1. /\ row.status \in {"creating", "create_unknown"} /\ row.zoomId = Null
          /\ row' = [row EXCEPT !.status = "create_unknown", !.zoomId = m,
                                !.avail = "due", !.claim = Null, !.lease = Null]
      BY <2>2 DEF AttachRemoteMeetingId
    <3>2. /\ row' \in Row
          /\ Released(row', "create_unknown", m, "due", row.attempts)
      BY <3>1 DEF IInv, TypeOK, Row, Released
    <3>3. row.attempts \in Nat /\ row.attempts <= MaxAttempts
      BY <3>1, CreationAssumption, RowAssumption DEF IInv, TypeOK, Row, Counted, Allowance
    <3>4. row'.attempts < Allowance'
      <4>1. CASE creator.pc = "done"
        BY <1>1, <3>2, <3>3, <4>1, RowAssumption, CreationAssumption DEF Released, Allowance
      <4>2. CASE creator.pc # "done"
        <5>1. row.attempts = 0
          BY <3>1, <4>2 DEF IInv, Stages
        <5>. QED BY <1>1, <3>2, <4>2, <5>1, RowAssumption DEF Released, Allowance
      <4>. QED BY <4>1, <4>2
    <3>5. Counted'
      BY <3>2, <3>3, <3>4, RowAssumption DEF Counted, Released, Allowance
    <3>. QED
      BY <1>1, <3>1, <3>2, <3>5, CreationAssumption, RowAssumption
      DEF IInv, Released, Stages, EstablishedNeverFails, NeverInLimbo
  <2>. QED BY <2>1, <2>2
<1>3. TypeOK'
  BY <1>1, <1>2 DEF IInv, TypeOK
<1>4. Ids'
  BY <1>1, <1>2 DEF IInv, Ids
<1>. QED BY <1>2, <1>3, <1>4 DEF IInv

LEMMA LoseWebhookInv ==
  ASSUME IInv, LoseWebhook
  PROVE  IInv'
<1>1. /\ UNCHANGED <<row, creator, zoom, recoverer, operator>>
      /\ webhooks' \subseteq zoom' /\ faults' \in 0..MaxFaults
  BY CreationAssumption DEF LoseWebhook, Fault, IInv, TypeOK
<1>. QED
  BY <1>1
  DEF IInv, TypeOK, Ids, Stages, EstablishedNeverFails, NeverInLimbo,
      AwaitsManualZoomRecovery, Counted, Alive, Allowance

\* A recovery run only moves on.
LEMMA RunMoves ==
  ASSUME IInv, NEW r \in Recoverer, NEW run \in Run, run.found \subseteq zoom,
         Become(r, run), UNCHANGED <<row, creator, zoom, webhooks, operator>>,
         faults' \in 0..MaxFaults
  PROVE  IInv'
<1>1. TypeOK'
  BY DEF IInv, TypeOK, Become
<1>2. \A q \in Recoverer : recoverer'[q].found \subseteq zoom
  BY DEF IInv, TypeOK, Ids, Become
<1>3. Ids'
  BY <1>2 DEF IInv, Ids
<1>4. Stages' /\ NeverInLimbo' /\ Counted'
  BY DEF IInv, Stages, EstablishedNeverFails, NeverInLimbo, AwaitsManualZoomRecovery,
      Counted, Alive, Allowance
<1>. QED BY <1>1, <1>3, <1>4 DEF IInv

LEMMA SelectMeetingInv ==
  ASSUME IInv, NEW r \in Recoverer, SelectMeeting(r)
  PROVE  IInv'
<1>. DEFINE run == [IdleRun EXCEPT !.pc = "selected", !.seen = row.zoomId]
<1>1. run \in Run /\ run.found \subseteq zoom
  BY DEF IInv, TypeOK, Row, IdleRun, Run
<1>2. /\ Become(r, run) /\ UNCHANGED <<row, creator, zoom, webhooks, operator, faults>>
      /\ faults \in 0..MaxFaults
  BY DEF SelectMeeting, IInv, TypeOK
<1>. QED BY <1>1, <1>2, RunMoves

LEMMA IdleRunType == IdleRun \in Run /\ IdleRun.found \subseteq zoom
  BY DEF IdleRun, Run

\* A run claims a row that is ready, whatever it was when the run selected it.
LEMMA ClaimMeetingInv ==
  ASSUME IInv, NEW r \in Recoverer, ClaimMeeting(r)
  PROVE  IInv'
<1>1. UNCHANGED <<creator, zoom, webhooks, operator, faults>> /\ faults' \in 0..MaxFaults
  BY DEF ClaimMeeting, IInv, TypeOK
<1>2. CASE ~Claimable
  BY <1>1, <1>2, RunMoves, IdleRunType DEF ClaimMeeting
<1>3. CASE Claimable
  <2>1. PICK t \in Token :
          /\ row' = [row EXCEPT !.status = "create_unknown", !.claim = t,
                                !.lease = "live", !.avail = "due"]
          /\ Become(r, [recoverer[r] EXCEPT !.pc = "claimed", !.token = t])
    BY <1>3 DEF ClaimMeeting
  <2>2. /\ row' \in Row
        /\ row'.status = "create_unknown" /\ row'.zoomId = row.zoomId
        /\ row'.claim = t /\ row'.lease = "live" /\ row'.avail = "due"
        /\ row'.attempts = row.attempts
    BY <2>1 DEF IInv, TypeOK, Row
  <2>3. row.status \in {"creating", "create_unknown"} /\ ~AwaitsManualZoomRecovery
    BY <1>3, RowAssumption DEF Claimable, ReadyForZoomRecovery, AwaitsManualZoomRecovery
  <2>4. creator.pc # "done" => row.status = "create_unknown"
    BY <1>3 DEF Claimable, ReadyForZoomRecovery, IInv, Stages
  <2>5. Stages' /\ NeverInLimbo'
    BY <1>1, <2>2, <2>3, <2>4, RowAssumption
    DEF IInv, Stages, EstablishedNeverFails, NeverInLimbo
  <2>6. Counted'
    BY <1>1, <2>2, <2>3 DEF IInv, Counted, Alive, Allowance
  <2>7. [recoverer[r] EXCEPT !.pc = "claimed", !.token = t] \in Run
    BY DEF IInv, TypeOK, Run
  <2>8. [recoverer[r] EXCEPT !.pc = "claimed", !.token = t].found = recoverer[r].found
    BY DEF IInv, TypeOK, Run
  <2>9. recoverer' \in [Recoverer -> Run] /\ \A q \in Recoverer : recoverer'[q].found \subseteq zoom
    BY <2>1, <2>7, <2>8 DEF IInv, TypeOK, Ids, Become
  <2>. QED BY <1>1, <2>2, <2>5, <2>6, <2>9 DEF IInv, TypeOK, Ids
<1>. QED BY <1>2, <1>3

LEMMA FindMatchesInv ==
  ASSUME IInv, NEW r \in Recoverer, FindMatches(r)
  PROVE  IInv'
<1>1. PICK found \in SUBSET zoom :
        Become(r, [recoverer[r] EXCEPT !.pc = "deciding", !.found = found])
  BY DEF FindMatches
<1>2. [recoverer[r] EXCEPT !.pc = "deciding", !.found = found] \in Run
  BY DEF IInv, TypeOK, Run
<1>3. [recoverer[r] EXCEPT !.pc = "deciding", !.found = found].found = found
  BY DEF IInv, TypeOK, Run
<1>4. UNCHANGED <<row, creator, zoom, webhooks, operator, faults>> /\ faults \in 0..MaxFaults
  BY DEF FindMatches, IInv, TypeOK
<1>. QED BY <1>1, <1>2, <1>3, <1>4, RunMoves

\* Only the owner of a live claim decides, and what it decides keeps the row in
\* somebody's hands.
LEMMA DecideOutcomeInv ==
  ASSUME IInv, NEW r \in Recoverer, DecideOutcome(r)
  PROVE  IInv'
<1>1. /\ UNCHANGED <<creator, zoom, webhooks, operator, faults>> /\ faults' \in 0..MaxFaults
      /\ Become(r, IdleRun)
  BY DEF DecideOutcome, IInv, TypeOK
<1>2. CASE row' = row
  BY <1>1, <1>2, RunMoves, IdleRunType
<1>3. CASE row' # row
  <2>1. row.status = "create_unknown" /\ row.lease = "live"
    BY <1>3 DEF DecideOutcome, OwnsLiveClaim, IsClaimValid
  <2>2. \/ row' = RetryScheduled
        \/ \E m \in zoom : row' = Finalized(m)
        \/ row' = HandedOver(row, "create_unknown")
    BY <1>3 DEF DecideOutcome, IInv, Ids
  <2>3. Alive /\ row \in Row /\ row.attempts \in Nat /\ row.attempts < Allowance
    BY <2>1, RowAssumption
    DEF IInv, TypeOK, Row, Counted, Alive, AwaitsManualZoomRecovery
  <2>4. row' \in Row /\ row'.zoomId \in zoom \cup {Null} /\ Stages' /\ NeverInLimbo' /\ Counted'
    <3>1. CASE row' = RetryScheduled
      <4>. DEFINE next == [row EXCEPT !.attempts = @ + 1]
      <4>1. row.attempts + 1 \in 0..MaxAttempts + 2
        BY <2>3, RowAssumption DEF Allowance
      <4>2. /\ next \in Row /\ next.status = "create_unknown" /\ next.zoomId = row.zoomId
            /\ next.attempts = row.attempts + 1
        BY <2>1, <2>3, <4>1 DEF Row
      <4>3. \/ /\ row' \in Row /\ row.attempts + 1 < MaxAttempts
               /\ Released(row', "create_unknown", row.zoomId, "later", row.attempts + 1)
            \/ /\ row' \in Row
               /\ Released(row', "create_unknown", row.zoomId, Null, row.attempts + 1)
        <5>1. CASE ShouldRetry(next.attempts)
          <6>1. row' = Waiting(next)
            BY <3>1, <5>1 DEF RetryScheduled
          <6>2. row.attempts + 1 < MaxAttempts
            BY <4>2, <5>1 DEF ShouldRetry
          <6>. HIDE DEF next
          <6>. QED BY <4>2, <6>1, <6>2, Forms
        <5>2. CASE ~ShouldRetry(next.attempts)
          <6>1. row' = HandedOver(next, "create_unknown")
            BY <3>1, <5>2 DEF RetryScheduled
          <6>. HIDE DEF next
          <6>. QED BY <4>2, <6>1, Forms DEF Status
        <5>. QED BY <5>1, <5>2
      <4>4. Allowance' = Allowance /\ MaxAttempts <= Allowance
        BY <1>1, <4>3, RowAssumption DEF Allowance, Released
      <4>5. Counted'
        BY <2>3, <4>3, <4>4, RowAssumption, CreationAssumption
        DEF Released, Counted, Alive, AwaitsManualZoomRecovery, Allowance
      <4>. QED
        BY <1>1, <2>1, <4>3, <4>5, RowAssumption
        DEF IInv, Ids, Released, Stages, EstablishedNeverFails, NeverInLimbo,
            AwaitsManualZoomRecovery
    <3>2. CASE \E m \in zoom : row' = Finalized(m)
      BY <1>1, <2>1, <3>2, FinalizedInv
    <3>3. CASE row' = HandedOver(row, "create_unknown")
      <4>1. row' \in Row /\ Released(row', "create_unknown", row.zoomId, Null, row.attempts)
        BY <2>3, <3>3, Forms DEF Status
      <4>2. Allowance' = Allowance
        BY <1>1, <4>1 DEF Allowance, Released
      <4>. QED
        BY <1>1, <2>1, <4>1, <4>2, RowAssumption
        DEF IInv, Ids, Released, Stages, EstablishedNeverFails, NeverInLimbo,
            AwaitsManualZoomRecovery, Counted, Alive
    <3>. QED BY <2>2, <3>1, <3>2, <3>3
  <2>5. recoverer' \in [Recoverer -> Run] /\ \A q \in Recoverer : recoverer'[q].found \subseteq zoom
    BY <1>1, IdleRunType DEF IInv, TypeOK, Ids, Become
  <2>. QED BY <1>1, <2>4, <2>5 DEF IInv, TypeOK, Ids
<1>. QED BY <1>2, <1>3

LEMMA RecovererCrashesInv ==
  ASSUME IInv, NEW r \in Recoverer, RecovererCrashes(r)
  PROVE  IInv'
<1>1. faults' \in 0..MaxFaults
  BY CreationAssumption DEF RecovererCrashes, Fault, IInv, TypeOK
<1>. QED BY <1>1, RunMoves, IdleRunType DEF RecovererCrashes

LEMMA OperatorInv ==
  ASSUME IInv, (\E m \in ZoomId : OperatorVerifies(m)) \/ OperatorActivates \/ MarkNotCreated
  PROVE  IInv'
<1>1. ASSUME NEW m \in ZoomId, OperatorVerifies(m) PROVE IInv'
  BY <1>1
  DEF OperatorVerifies, IInv, TypeOK, Ids, Stages, EstablishedNeverFails, NeverInLimbo,
      AwaitsManualZoomRecovery, Counted, Alive, Allowance
<1>2. CASE OperatorActivates
  <2>1. /\ UNCHANGED <<creator, zoom, webhooks, recoverer, faults>> /\ operator' = Null
        /\ operator \in zoom
    BY <1>2 DEF OperatorActivates, IInv, Ids
  <2>2. CASE row' = row
    BY <2>1, <2>2
    DEF IInv, TypeOK, Ids, Stages, EstablishedNeverFails, NeverInLimbo,
        AwaitsManualZoomRecovery, Counted, Alive, Allowance
  <2>3. CASE row' # row
    <3>1. row.status = "create_unknown" /\ row' = Finalized(operator)
      BY <1>2, <2>3 DEF OperatorActivates, AwaitsManualZoomRecovery
    <3>2. row' \in Row /\ Stages' /\ NeverInLimbo' /\ Counted' /\ row'.zoomId \in zoom
      BY <2>1, <3>1, FinalizedInv
    <3>. QED BY <2>1, <3>2 DEF IInv, TypeOK, Ids
  <2>. QED BY <2>2, <2>3
<1>3. CASE MarkNotCreated
  <2>1. /\ zoom = {} /\ AwaitsManualZoomRecovery
        /\ row' = HandedOver(row, "failed")
        /\ UNCHANGED <<creator, zoom, webhooks, recoverer, operator, faults>>
    BY <1>3 DEF MarkNotCreated
  <2>2. row \in Row /\ row.zoomId = Null
    BY <2>1 DEF IInv, TypeOK, Ids
  <2>3. row' \in Row /\ Released(row', "failed", Null, Null, row.attempts)
    BY <2>1, <2>2, Forms DEF Status
  <2>4. creator.pc = "done"
    BY <2>1, <2>2 DEF AwaitsManualZoomRecovery, IInv, Stages, TypeOK, Creator
  <2>5. Stages' /\ NeverInLimbo' /\ Counted'
    BY <2>1, <2>2, <2>3, <2>4
    DEF IInv, Released, Stages, EstablishedNeverFails, NeverInLimbo,
        AwaitsManualZoomRecovery, Counted, Alive, Allowance
  <2>. QED BY <2>1, <2>3, <2>5 DEF IInv, TypeOK, Ids, Released
<1>. QED BY <1>1, <1>2, <1>3

LEMMA TimeInv ==
  ASSUME IInv, LeaseExpires \/ RetryBecomesDue
  PROVE  IInv'
<1>1. UNCHANGED <<creator, zoom, webhooks, recoverer, operator>> /\ faults' \in 0..MaxFaults
  BY CreationAssumption DEF LeaseExpires, RetryBecomesDue, Fault, IInv, TypeOK
<1>2. /\ row' \in Row
      /\ row'.status = row.status /\ row'.zoomId = row.zoomId /\ row'.claim = row.claim
      /\ row'.attempts = row.attempts
      /\ row'.lease = row.lease \/ (row.lease = "live" /\ row'.lease = "expired")
      /\ row'.avail = row.avail \/ (row.avail = "later" /\ row'.avail = "due")
      /\ row.status = "creating" /\ row'.lease # row.lease => creator.pc = "done"
  BY DEF LeaseExpires, RetryBecomesDue, IInv, TypeOK, Row
<1>3. Stages' /\ NeverInLimbo' /\ Counted'
  BY <1>1, <1>2, RowAssumption
  DEF IInv, Stages, EstablishedNeverFails, NeverInLimbo, AwaitsManualZoomRecovery, Counted,
      Alive, Allowance
<1>. QED BY <1>1, <1>2, <1>3 DEF IInv, TypeOK, Ids

LEMMA StutterInv ==
  ASSUME IInv, UNCHANGED vars
  PROVE  IInv'
  BY DEF vars, IInv, TypeOK, Ids, Stages, EstablishedNeverFails, NeverInLimbo,
         AwaitsManualZoomRecovery, Counted, Alive, Allowance

LEMMA NextInv ==
  ASSUME IInv, [Next]_vars
  PROVE  IInv'
  BY CreateMeetingWithOperationInv, CallZoomInv, FinishCreationInv, CreatorCrashesInv,
     HostDuplicatesInv, AttachRemoteMeetingIdInv, LoseWebhookInv, SelectMeetingInv,
     ClaimMeetingInv, FindMatchesInv, DecideOutcomeInv, RecovererCrashesInv, OperatorInv,
     TimeInv, StutterInv
  DEF Next, CreatorStep, RunStep

LEMMA Invariance == Spec => []IInv
  BY InitInv, NextInv, PTL DEF Spec

-----------------------------------------------------------------------------
\* Every variable keeps its type; in particular the attempts counted in the row
\* stay within two of MAX_ATTEMPTS, although a webhook and a late answer may
\* each reopen a row whose attempts are spent.
THEOREM TypeCorrect == Spec => []TypeOK
  BY Invariance, PTL DEF IInv

\* A creation without an outcome is somebody's: of a lease or a retry time that
\* brings it to the scheduled recovery, or of the operator.
THEOREM AlwaysSomebodys == Spec => []NeverInLimbo
  BY Invariance, PTL DEF IInv

\* A meeting attached to Zoom's is not failed by the late error of its request.
THEOREM LateErrorsAreHarmless == Spec => []EstablishedNeverFails
  BY Invariance, PTL DEF IInv, Stages

\* The meeting a row is attached to stays the same, step by step.
LEMMA AttachedStep ==
  ASSUME IInv, [Next]_vars, row.zoomId # Null
  PROVE  row'.zoomId = row.zoomId
<1>1. row \in Row /\ row.status \notin {"none", "creating"}
  BY DEF IInv, TypeOK, Stages
<1>2. ASSUME NEW m, row' = Finalized(m) PROVE row'.zoomId = row.zoomId
  BY <1>1, <1>2 DEF Finalized, Activated, Conflicts, HandedOver, Row
<1>3. CASE FinishCreation
  <2>1. \/ row' = row
        \/ row' = CreateFailed
        \/ row' = CreateUnknown
        \/ row' = Synced(creator.zoomId)
    <3>1. creator.answer \in {"ok", "unknown", "rejected", "broken"}
      BY <1>3 DEF FinishCreation, IInv, Ids
    <3>2. CASE creator.answer = "ok"
      BY <1>3, <3>2 DEF FinishCreation
    <3>3. CASE creator.answer = "unknown"
      BY <1>3, <3>3 DEF FinishCreation
    <3>4. CASE creator.answer = "rejected"
      BY <1>3, <3>4 DEF FinishCreation
    <3>5. CASE creator.answer = "broken"
      BY <1>3, <3>5 DEF FinishCreation
    <3>. QED BY <3>1, <3>2, <3>3, <3>4, <3>5
  <2>2. CASE row' = CreateFailed
    BY <1>1, <2>2 DEF CreateFailed
  <2>3. CASE row' = CreateUnknown
    BY <1>1, <2>3 DEF CreateUnknown, Waiting, Row
  <2>4. CASE row' = Synced(creator.zoomId)
    BY <1>1, <2>4 DEF Synced, Activated, Conflicts, HandedOver, Row
  <2>. QED BY <2>1, <2>2, <2>3, <2>4
<1>4. ASSUME NEW r \in Recoverer, DecideOutcome(r) PROVE row'.zoomId = row.zoomId
  <2>1. \/ row' = row
        \/ row' = RetryScheduled
        \/ \E m \in ZoomId : row' = Finalized(m)
        \/ row' = HandedOver(row, "create_unknown")
    BY <1>4 DEF DecideOutcome
  <2>2. CASE row' = RetryScheduled
    BY <1>1, <2>2 DEF RetryScheduled, Waiting, HandedOver, Row
  <2>3. CASE row' = HandedOver(row, "create_unknown")
    BY <1>1, <2>3 DEF HandedOver, Row
  <2>. QED BY <1>2, <2>1, <2>2, <2>3
<1>5. CASE OperatorActivates
  BY <1>2, <1>5 DEF OperatorActivates
<1>6. CASE MarkNotCreated
  BY <1>1, <1>6 DEF MarkNotCreated, HandedOver, Row
<1>7. ASSUME NEW r \in Recoverer, ClaimMeeting(r) PROVE row'.zoomId = row.zoomId
  BY <1>1, <1>7 DEF ClaimMeeting, Row
<1>8. CASE LeaseExpires \/ RetryBecomesDue
  BY <1>1, <1>8 DEF LeaseExpires, RetryBecomesDue, Row
<1>. QED
  BY <1>1, <1>3, <1>4, <1>5, <1>6, <1>7, <1>8
  DEF Next, CreatorStep, RunStep, vars, CreateMeetingWithOperation, CallZoom,
      CreatorCrashes, HostDuplicates, AttachRemoteMeetingId, LoseWebhook, SelectMeeting,
      FindMatches, RecovererCrashes, OperatorVerifies

\* No second webhook, recovery, late answer or operator moves a row from the
\* Zoom meeting it is attached to.
THEOREM AttachmentIsFinal == Spec => AttachedForGood
<1>1. IInv /\ [Next]_vars => [row.zoomId # Null => row'.zoomId = row.zoomId]_vars
  BY AttachedStep
<1>. QED BY <1>1, Invariance, PTL DEF Spec, AttachedForGood

\* A recovery run that is late leaves alone a creation the operator looks into.
THEOREM LateRunsAreHarmless == Spec => OperatorIsLeftAlone
<1>1. IInv /\ [Next]_vars =>
        [AwaitsManualZoomRecovery /\ recoverer' # recoverer => UNCHANGED row]_vars
  <2>. SUFFICES ASSUME IInv, Next, AwaitsManualZoomRecovery, recoverer' # recoverer
                PROVE  UNCHANGED row
    OBVIOUS
  <2>1. PICK r \in Recoverer : SelectMeeting(r) \/ RunStep(r) \/ RecovererCrashes(r)
    BY DEF Next, CreatorStep, CreateMeetingWithOperation, CallZoom, FinishCreation,
       CreatorCrashes, HostDuplicates, AttachRemoteMeetingId, LoseWebhook,
       OperatorVerifies, OperatorActivates, MarkNotCreated, LeaseExpires, RetryBecomesDue
  <2>2. CASE ClaimMeeting(r)
    BY <2>2, RowAssumption
    DEF ClaimMeeting, Claimable, ReadyForZoomRecovery, AwaitsManualZoomRecovery
  <2>3. CASE DecideOutcome(r)
    BY <2>3, RowAssumption
    DEF DecideOutcome, OwnsLiveClaim, IsClaimValid, AwaitsManualZoomRecovery
  <2>. QED
    BY <2>1, <2>2, <2>3 DEF RunStep, SelectMeeting, FindMatches, RecovererCrashes
<1>. QED BY <1>1, Invariance, PTL DEF Spec, OperatorIsLeftAlone
=============================================================================
