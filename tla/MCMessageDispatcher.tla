-------------------------- MODULE MCMessageDispatcher --------------------------
(* Three messages of one user at a time, two attempts each, a limit of two. *)
EXTENDS MessageDispatcher

CONSTANTS m1, m2, m3

MCSlot == {m1, m2, m3}
=============================================================================
