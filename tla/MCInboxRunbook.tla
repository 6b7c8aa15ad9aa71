--------------------------- MODULE MCInboxRunbook ---------------------------
(***************************************************************************)
(* WebhookInbox with the operator of docs/WEBHOOK_INBOX.md, "Handling      *)
(* Failed Webhooks", who retries a failed event by hand.  The runbook's    *)
(* update touches state and available_at only.                             *)
(***************************************************************************)
EXTENDS WebhookInbox

CONSTANT MaxRetries   \* bound on the manual retries

VARIABLE retries      \* manual retries of every event so far

\* Runbook step 4: "Update row to received with null available_at".
ManualRetry(e) ==
  /\ inbox[e].state = "failed"
  /\ retries[e] < MaxRetries
  /\ retries' = [retries EXCEPT ![e] = @ + 1]
  /\ inbox' = [inbox EXCEPT ![e].state = "received", ![e].delay = 0]
  /\ UNCHANGED <<queue, worker, effects, losses>>

RunbookNext ==
  \/ Next /\ UNCHANGED retries
  \/ \E e \in Event : ManualRetry(e)

RunbookSpec ==
  /\ Init /\ retries = [e \in Event |-> 0]
  /\ [][RunbookNext]_<<vars, retries>>
  /\ Fairness

\* A failed event an operator returned to received is processed again: the
\* runbook offers this as the manual retry of a failed webhook.  The claim
\* scope asks for attempts below the maximum, which the runbook never resets.
ManualRetryIsProcessed ==
  \A e \in Event :
    retries[e] > 0 /\ inbox[e].state = "received" ~> inbox[e].state = "processing"
=============================================================================
