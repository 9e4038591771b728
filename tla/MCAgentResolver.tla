---------------------------- MODULE MCAgentResolver ----------------------------
(* Two bindings that compete and one above them, for two agents.            *)
EXTENDS AgentResolver

CONSTANTS b1, b2, b3, a1, a2

MCBinding == {b1, b2, b3}
MCAgent == {a1, a2}
MCagentOf == [b \in MCBinding |-> IF b = b2 THEN a2 ELSE a1]
MCpriority == [b \in MCBinding |-> IF b = b3 THEN 4 ELSE 3]
=============================================================================
