------------------------------- MODULE MCLlmStep -------------------------------
(* Three models, two of them in the chain, two rounds of up to two calls;  *)
(* a budget of a short window and, above it, one of a long.                *)
EXTENDS LlmStep

CONSTANTS m1, m2, m3

MCChains == {<<m2, m3>>}
Weekly == [limitUsd |-> 1, periodDays |-> 7]
Monthly == [limitUsd |-> 1, periodDays |-> 30]
MCPolicies == <<{}, {Weekly}, {Monthly}, {}>>
=============================================================================
