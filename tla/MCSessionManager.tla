--------------------------- MODULE MCSessionManager ---------------------------
(* Two operations at a time on a session with a history of two turns.       *)
EXTENDS SessionManager

CONSTANTS o1, o2

MCOp == {o1, o2}
=============================================================================
