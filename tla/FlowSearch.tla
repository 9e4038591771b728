------------------------------ MODULE FlowSearch ------------------------------
(***************************************************************************)
(* What one execution of a flow promises, with the database, the worklist  *)
(* order and the step life cycle taken away: a search that starts at the   *)
(* root, visits every node at most once, follows from a node one of the    *)
(* sets of successors the flow allows, and ends only when nothing is left  *)
(* to visit.  FlowRun implements it (FlowRun!Search).                      *)
(***************************************************************************)
CONSTANT Node          \* node identifiers a flow may mention

VARIABLES root,        \* the entry node
          may,         \* may[n]: the successor sets that n may lead to
          phase,       \* "off" | "on" | "done"
          seen,        \* nodes visited and left
          todo         \* nodes known and not yet visited

vars == <<root, may, phase, seen, todo>>

TypeOK == /\ root \in Node
          /\ may \in [Node -> SUBSET SUBSET Node]
          /\ phase \in {"off", "on", "done"}
          /\ seen \in SUBSET Node
          /\ todo \in SUBSET Node

Init == /\ root \in Node
        /\ may \in [Node -> SUBSET SUBSET Node]
        /\ phase = "off"
        /\ seen = {}
        /\ todo = {}

(* A search starts afresh: nothing of an earlier one is remembered.        *)
Start == /\ phase # "on"
         /\ phase' = "on"
         /\ seen' = {}
         /\ todo' = {root}
         /\ UNCHANGED <<root, may>>

(* One node is visited and the successors chosen for it become known.      *)
Visit == /\ phase = "on"
         /\ \E n \in todo : \E S \in may[n] :
              /\ seen' = seen \cup {n}
              /\ todo' = (todo \cup S) \ seen'
         /\ UNCHANGED <<root, may, phase>>

(* The search may report success only when no known node is unvisited.     *)
Finish == /\ phase = "on"
          /\ todo = {}
          /\ phase' = "done"
          /\ UNCHANGED <<root, may, seen, todo>>

(* A failure, or forgetting a finished search before the next one.         *)
Stop == /\ phase # "off"
        /\ phase' = "off"
        /\ seen' = {}
        /\ todo' = {}
        /\ UNCHANGED <<root, may>>

Next == Start \/ Visit \/ Finish \/ Stop

Spec == Init /\ [][Next]_vars

(* Every node left behind led somewhere the search still knows of.         *)
Progress == \A n \in seen : \E S \in may[n] : S \subseteq seen \cup todo

(* A search that reports success has visited the root and, from every node *)
(* it visited, one complete set of successors: nothing was dropped.        *)
Closed == phase = "done" => /\ root \in seen
                            /\ \A n \in seen : \E S \in may[n] : S \subseteq seen
=============================================================================
