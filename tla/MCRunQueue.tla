------------------------------ MODULE MCRunQueue ------------------------------
(* A run that is enqueued twice, and two slots that process it.             *)
EXTENDS RunQueue

CONSTANTS a1, a2

MCSlot == {a1, a2}
=============================================================================
