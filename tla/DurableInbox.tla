---------------------------- MODULE DurableInbox ----------------------------
(***************************************************************************)
(* What the webhook inbox promises to a webhook provider: an event that    *)
(* was acknowledged is tried at most MaxAttempts times, its business       *)
(* effects happen only while it is still open, it is closed as done only   *)
(* after an effect, and it is given up only when its attempts are spent.   *)
(* Nothing here says how a worker claims an event, crashes or loses a      *)
(* claim: that is module WebhookInbox.                                     *)
(***************************************************************************)
EXTENDS Naturals

CONSTANTS
  Event,        \* the events a provider may deliver
  MaxAttempts   \* attempts an event is given before it is dead

VARIABLES
  stage,        \* stage of every event
  tries,        \* attempts begun for it
  effects       \* times its business effect was committed

Stage == {"absent", "open", "done", "dead"}

Init ==
  /\ stage   = [e \in Event |-> "absent"]
  /\ tries   = [e \in Event |-> 0]
  /\ effects = [e \in Event |-> 0]

Accept(e) ==
  /\ stage[e] = "absent"
  /\ stage' = [stage EXCEPT ![e] = "open"]
  /\ UNCHANGED <<tries, effects>>

Try(e) ==
  /\ stage[e] = "open"
  /\ tries[e] < MaxAttempts
  /\ tries' = [tries EXCEPT ![e] = @ + 1]
  /\ UNCHANGED <<stage, effects>>

Execute(e) ==
  /\ stage[e] = "open"
  /\ effects[e] < tries[e]
  /\ effects' = [effects EXCEPT ![e] = @ + 1]
  /\ UNCHANGED <<stage, tries>>

Finish(e) ==
  /\ stage[e] = "open"
  /\ effects[e] > 0
  /\ stage' = [stage EXCEPT ![e] = "done"]
  /\ UNCHANGED <<tries, effects>>

\* One sweep may give up on several exhausted events at once.
GiveUp(S) ==
  /\ S # {}
  /\ \A e \in S : stage[e] = "open" /\ tries[e] = MaxAttempts
  /\ stage' = [e \in Event |-> IF e \in S THEN "dead" ELSE stage[e]]
  /\ UNCHANGED <<tries, effects>>

Next ==
  \/ \E e \in Event : Accept(e) \/ Try(e) \/ Execute(e) \/ Finish(e)
  \/ \E S \in SUBSET Event : GiveUp(S)

vars == <<stage, tries, effects>>

Spec == Init /\ [][Next]_vars
=============================================================================
