----------------------------- MODULE MeetingRow -----------------------------
(***************************************************************************)
(* What the operations on a meeting share: the synchronisation columns of  *)
(* the table meetings, the query scopes of MeetingBuilder, the predicates  *)
(* of ZoomRecoveryPolicy and the ways a row is released.                   *)
(*                                                                         *)
(* A timestamp column is NULL, in the future or in the past: lease is      *)
(* "live" or "expired", avail (sync_available_at) "later" or "due".        *)
(***************************************************************************)
EXTENDS Naturals

CONSTANTS
  OpId,         \* operation ids (UUIDs; one is reused once nothing names it)
  Token,        \* claim tokens (UUIDs, likewise)
  Null,
  MaxAttempts   \* ZoomRecoveryPolicy::MAX_ATTEMPTS

ASSUME RowAssumption ==
  /\ MaxAttempts \in Nat /\ MaxAttempts > 1
  /\ Null \notin OpId /\ Null \notin Token
  /\ Null \notin {"live", "expired", "later", "due", "update", "delete"}

Pending == {"updating", "deleting"}

Rejected == {"update_failed", "delete_failed"}

-----------------------------------------------------------------------------
(* MeetingBuilder and RecoverPendingZoomMeetingOperations: which rows the  *)
(* scheduled recovery selects, and which of those it claims.               *)

ReadyForRecovery(row) ==
  \/ row.status \in Pending  /\ (row.lease = "expired" \/ row.avail = "due")
  \/ row.status \in Rejected /\ row.avail = "due"

Selected(row) ==
  /\ ReadyForRecovery(row)
  /\ row.claim = Null \/ row.lease \in {Null, "expired"}

IsClaimable(row) == row.claim = Null \/ row.lease = "expired"

(* ZoomRecoveryPolicy.                                                     *)

IsClaimValid(row, token) == row.claim = token /\ row.lease = "live"

IsOperationCurrent(row, op) == row.opId = op

\* Variant of the next definition: off by one.
ShouldRetryOnceMore(attempts) == attempts <= MaxAttempts

ShouldRetry(attempts) == attempts < MaxAttempts

-----------------------------------------------------------------------------
(* The assignments the handlers share.                                     *)

\* Variants of the next definition: the claim is kept; no retry time is set.
WaitingClaimed(row) == [row EXCEPT !.lease = Null, !.avail = "later"]

WaitingForNothing(row) == [row EXCEPT !.claim = Null, !.lease = Null]

\* Give the row up and let the recovery take it in a while.
Waiting(row) == [row EXCEPT !.claim = Null, !.lease = Null, !.avail = "later"]

\* Give the row up for good: only a user operation will touch it again.
HandedOver(row, status) ==
  [row EXCEPT !.status = status, !.claim = Null, !.lease = Null, !.avail = Null]

\* The operation is over.
Closed(row, status) ==
  [HandedOver(row, status) EXCEPT !.opId = Null, !.opType = Null, !.payload = Null]

(* manualReview: the operation stays recorded, its status says it failed.  *)
Review(row) ==
  HandedOver(row, IF row.opType = "update" THEN "update_failed" ELSE "delete_failed")
=============================================================================
