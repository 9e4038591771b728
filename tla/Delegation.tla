------------------------------ MODULE Delegation ------------------------------
(***************************************************************************)
(* How HierarchyOrchestrator (packages/hierarchy/src/                      *)
(* hierarchy-orchestrator.ts) moves down a hierarchy: which nodes the      *)
(* subtasks of a task go to, which of them are executed and which are      *)
(* delegated to an orchestrator of their own, and what becomes of the run  *)
(* and the delegation step at each level of that recursion.  The execution *)
(* of the subtasks of one level is the subject of Orchestrator.            *)
(***************************************************************************)
EXTENDS Naturals, Sequences, SequencesExt

CONSTANTS Trees,      \* the hierarchies considered
          MaxDepth    \* bound: orchestrations one inside the other

Level == {"agency", "department", "workspace", "agent", "subagent"}

(* A node is its path from the root: the root is <<>>, its children are    *)
(* <<1>>, <<2>>.  A hierarchy gives every node of a prefix-closed set of   *)
(* paths its level.                                                        *)
Nodes(tree) == DOMAIN tree

IsTree(tree) ==
  /\ <<>> \in Nodes(tree)
  /\ \A n \in Nodes(tree) : /\ n \in Seq(Nat \ {0})
                            /\ tree[n] \in Level
                            /\ n # <<>> => Front(n) \in Nodes(tree)

VARIABLES tree,       \* the hierarchy of the outermost orchestrator
          frames,     \* the orchestrations under way or ended, outermost first
          top         \* the innermost one under way; 0: all have ended

vars == <<tree, frames, top>>

Children(n) == {m \in Nodes(tree) : m # <<>> /\ Front(m) = n}

(* collectAgentNodes: the leaves below n that are agents.                  *)
Agents(n) == {m \in Nodes(tree) : /\ IsPrefix(n, m)
                                  /\ Children(m) = {}
                                  /\ tree[m] \in {"agent", "subagent"}}

(* decomposeTasks: the nodes the subtasks may be assigned to: agents the   *)
(* supervisor names, the best match, or the root of the orchestration if   *)
(* there is no agent.                                                      *)
Assignable(n) == IF Agents(n) = {} THEN {{n}} ELSE (SUBSET Agents(n)) \ {{}}

(* routeTask: a node with children gets an orchestrator of its own.        *)
Delegated(n) == Children(n) # {}

Results == {"completed", "partial", "failed", "threw"}
Frame == [root : Nodes(tree), pc : {"open", "split", "work", "await", "ended"},
          assigned : SUBSET Nodes(tree),
          run : {"none", "running", "completed", "failed"},
          step : {"none", "pending", "completed", "failed"},
          result : Results \cup {"none"}]

TypeOK == /\ tree \in Trees /\ IsTree(tree)
          /\ frames \in Seq(Frame)
          /\ frames # <<>>
          /\ top \in 0..Len(frames)

NewFrame(n) == [root |-> n, pc |-> "open", assigned |-> {}, run |-> "none",
                step |-> "none", result |-> "none"]

At(p) == top > 0 /\ frames[top].pc = p

(* The orchestration on top ends with result r; a run it has is closed.    *)
Ended(f, r) == [f EXCEPT !.pc = "ended", !.result = r,
                         !.run = IF f.run = "none" THEN "none"
                                 ELSE IF r \in {"failed", "threw"} THEN "failed"
                                 ELSE "completed"]

Return(r) == /\ frames' = [frames EXCEPT ![top] = Ended(@, r)]
             /\ top' = top - 1

-----------------------------------------------------------------------------
Init == /\ tree \in Trees /\ IsTree(tree)
        /\ frames = <<NewFrame(<<>>)>>
        /\ top = 1

(* orchestrate creates its run and starts it.  The database, or at the     *)
(* bound the memory, refuses: orchestrate throws.                          *)
Open == /\ At("open")
        /\ \/ /\ frames' = [frames EXCEPT ![top].pc = "split", ![top].run = "running"]
              /\ UNCHANGED top
           \/ Return("threw")
        /\ UNCHANGED tree

(* The task is decomposed and all subtasks are executed here.              *)
SplitLocal == /\ At("split")
              /\ \E A \in Assignable(frames[top].root) :
                   /\ \A n \in A : ~Delegated(n)
                   /\ frames' = [frames EXCEPT ![top].pc = "work",
                                               ![top].assigned = A]
              /\ UNCHANGED <<tree, top>>

(* The task goes to a node with children: that node gets a delegation step *)
(* and an orchestrator of its own.  A refused createStep fails the task.   *)
SplitDelegated ==
  /\ At("split")
  /\ \E A \in Assignable(frames[top].root) : \E n \in A :
       /\ Delegated(n)
       /\ \/ /\ top < MaxDepth
             /\ frames' = Append([frames EXCEPT
                             ![top].pc = "await", ![top].assigned = A,
                             ![top].step = "pending"],
                           NewFrame(n))
             /\ top' = top + 1
          \/ Return("failed")
  /\ UNCHANGED tree

(* The subtasks of this level have their results.                          *)
Work == /\ At("work")
        /\ \E r \in {"completed", "partial", "failed"} :
             /\ r = "partial" => Agents(frames[top].root) # {}
             /\ Return(r)
        /\ UNCHANGED tree

(* The inner orchestration ended: its delegation step is completed, with   *)
(* the result it had.  A throw, or a refused write, fails the step, and a  *)
(* refusal of that leaves it pending; either way the task failed.          *)
CloseDelegation ==
  /\ At("await")
  /\ LET r == frames[top + 1].result
         close(step, res) ==
           /\ frames' = [frames EXCEPT ![top] = Ended([@ EXCEPT !.step = step], res)]
           /\ top' = top - 1
     IN  \/ r # "threw" /\ close("completed", r)
         \/ close("failed", "failed")
         \/ close("pending", "failed")
  /\ UNCHANGED tree

Next == \/ Open \/ SplitLocal \/ SplitDelegated \/ Work \/ CloseDelegation

Spec == Init /\ [][Next]_vars

-----------------------------------------------------------------------------
(* An orchestration that delegates does so to an orchestration of the same *)
(* node, since only the root of a hierarchy without agents is delegated:   *)
(* the recursion never moves down.                                         *)
DelegatesToItself == \A d \in DOMAIN frames : frames[d].root = <<>>

(* Hence a task that is delegated never completes: the recursion ends only *)
(* when some level fails, and every level above it fails too.              *)
NoDelegationSucceeds ==
  \A d \in DOMAIN frames :
    frames[d].step # "none" => /\ frames[d].result \in {"none", "failed"}
                               /\ frames[d].run # "completed"

-----------------------------------------------------------------------------
(* What a comment and a test say, and the code does not do.                *)

Above(n) == {m \in Nodes(tree) : IsStrictPrefix(m, n)}

(* "Ningún nivel puede saltarse. La delegación se materializa como RunStep *)
(* { nodeType: 'delegation' }" (the comment on RouteDecision; four RunSteps*)
(* in hierarchy-e2e.test.ts): a task reaches a node through a delegation   *)
(* step of every node above it.                                            *)
NoLevelSkipped ==
  \A d \in DOMAIN frames : frames[d].pc = "work" =>
    \A n \in frames[d].assigned : \A m \in Above(n) :
      \E e \in 1..d - 1 : frames[e].step # "none" /\ frames[e + 1].root = m
=============================================================================
