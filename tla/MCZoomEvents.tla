---------------------------- MODULE MCZoomEvents ----------------------------
(* A user asks for a new topic, or for a new topic and a new password.     *)
EXTENDS ZoomEvents, TLC

CONSTANTS topic, password, old, new

Updates == {topic :> new, topic :> new @@ password :> new}

Symmetry == Permutations(Handler)
=============================================================================
