---------------------------- MODULE MCOrchestrator ----------------------------
(* Model-checking instance of Orchestrator: one of each mishap.             *)
EXTENDS Orchestrator

MCLimit == [cancel |-> 1, crash |-> 1, fault |-> 1]
=============================================================================
