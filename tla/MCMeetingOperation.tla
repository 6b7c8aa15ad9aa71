------------------------- MODULE MCMeetingOperation -------------------------
(* MeetingOperation with the sets and the symmetry of its TLC runs.        *)
EXTENDS MeetingOperation, TLC

CONSTANTS topic, password, old, new

\* Nothing at all, a topic, and a password together with a topic.
Payloads == {<<>>, topic :> new, topic :> old @@ password :> new}

Symmetry == Permutations(OpId) \cup Permutations(Token)
              \cup Permutations(Request) \cup Permutations(Worker)
=============================================================================
