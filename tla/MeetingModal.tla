---------------------------- MODULE MeetingModal ----------------------------
(***************************************************************************)
(* The form that creates a meeting (MeetingModal.vue) over its idempotent  *)
(* request.  What matters of the form is join_before_host: the radio       *)
(* buttons put the texts "true" and "false" there, createMeeting replaces  *)
(* them by a Boolean before every submission.  A request is what the       *)
(* payload says of it: Request is {"true", "false"}.                       *)
(***************************************************************************)
EXTENDS IdempotentRequest

VARIABLES
  join   \* form.join_before_host

modalVars == <<vars, join>>

Texts == {"text true", "text false"}

ModalInit == Init /\ join = "unset"

\* booleanJoinBeforeHost: anything but the text "true" is false.
BooleanJoinBeforeHost(value) == IF value = "text true" THEN "true" ELSE "false"

\* A radio button is chosen, before the form is submitted.
Choose(text) ==
  /\ \A r \in Request : user[r] = "idle"
  /\ join' = text
  /\ UNCHANGED vars

\* createMeeting; the button is disabled while a call is waiting, and the user
\* stops once a call succeeded or was refused.
CreateMeeting(c) ==
  /\ join # "unset"
  /\ \A r \in Request : ~Waiting(r) /\ user[r] \notin {"served", "refused"}
  /\ join' = BooleanJoinBeforeHost(join)
  /\ Send(c, join')

ModalNext ==
  \/ \E text \in Texts : Choose(text)
  \/ \E c \in Call : CreateMeeting(c)
  \/ /\ \/ \E c \in Call : Settle(c) \/ ServerStep(c) \/ Fault(c)
        \/ Tick
     /\ UNCHANGED join

ModalSpec == ModalInit /\ [][ModalNext]_modalVars

\* Submitting the form again because no answer came does not create a second
\* meeting, whatever was chosen in it.
MeetingIsCreatedOnce ==
  (\A r \in Request : ~excused[r]) => effects["true"] + effects["false"] <= 1
=============================================================================
