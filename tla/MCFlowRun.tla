----------------------------- MODULE MCFlowRun -----------------------------
(* Small flows for FlowRun: four nodes and the name of one that no flow    *)
(* contains.  Each flow is there for a shape the traversal must cope with. *)
EXTENDS FlowRun

CONSTANTS n1, n2, n3, ghost,  \* node identifiers
          Cancels, Crashes, Faults \* the bounds of Limit

MCNode  == {n1, n2, n3, ghost}
MCLimit == [m \in Mishaps |-> CASE m = "cancel" -> Cancels
                                [] m = "crash"  -> Crashes
                                [] m = "fault"  -> Faults]

Edge(s, t) == [src |-> s, tgt |-> t]
Branches(t, f) == [b \in BOOLEAN |-> IF b THEN t ELSE f]
NoBranch == Branches(NoNode, NoNode)

(* input -> n3, n2; n2 -> n3: n3 is reached twice; an edge has no target.  *)
Diamond == [ids    |-> <<n2, n1, n3>>,
            kind   |-> [n \in MCNode |-> IF n = n1 THEN "input" ELSE "agent"],
            entry  |-> NoNode,
            out    |-> EdgeMap(<<Edge(n1, n3), Edge(n1, n2), Edge(n2, n3), Edge(n1, NoNode)>>),
            branch |-> [n \in MCNode |-> NoBranch]]

(* n1 -> n2 ? n1 : n3, a loop through a condition.                         *)
Loop == [ids    |-> <<n1, n2, n3>>,
         kind   |-> [n \in MCNode |-> IF n = n2 THEN "condition"
                                      ELSE IF n = n3 THEN "output" ELSE "agent"],
         entry  |-> n1,
         out    |-> EdgeMap(<<Edge(n1, n2), Edge(n3, n3)>>),
         branch |-> [n \in MCNode |-> IF n = n2 THEN Branches(n1, n3) ELSE NoBranch]]

(* A condition that may lead outside the flow, and one with one branch.    *)
Dangling == [ids    |-> <<n2, n3>>,
             kind   |-> [n \in MCNode |-> IF n = n1 THEN "agent" ELSE "condition"],
             entry  |-> NoNode,
             out    |-> EdgeMap(<<>>),
             branch |-> [n \in MCNode |-> IF n = n2 THEN Branches(n3, ghost)
                                          ELSE Branches(NoNode, n2)]]

(* No nodes, or no flow at all.                                            *)
Empty == [Dangling EXCEPT !.ids = <<>>]

MCFlows == {Diamond, Loop, Dangling, Empty}
=============================================================================
