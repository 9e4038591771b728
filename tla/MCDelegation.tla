----------------------------- MODULE MCDelegation -----------------------------
(* Model-checking instance of Delegation: the hierarchy of                  *)
(* hierarchy-e2e.test.ts, a chain of the four levels.                       *)
EXTENDS Delegation

Chain == (<<>> :> "agency") @@ (<<1>> :> "department") @@ (<<1, 1>> :> "workspace")
           @@ (<<1, 1, 1>> :> "agent")

MCTrees == {Chain}
=============================================================================
