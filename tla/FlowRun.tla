------------------------------- MODULE FlowRun -------------------------------
(***************************************************************************)
(* One Run executed by FlowExecutor (packages/run-engine/src/              *)
(* flow-executor.ts) with the step life cycle of AgentExecutor             *)
(* (agent-executor.service.ts).  The executor is one asynchronous process: *)
(* every awaited database call, agent call and event emission is a step of *)
(* it, and between two steps the API may cancel the run, the process may   *)
(* die, and the run may be executed again.  Rows of the runs and run_steps *)
(* tables survive a crash; the worklist and the visited set do not.        *)
(***************************************************************************)
EXTENDS Naturals, Sequences, Functions

CONSTANTS Node,        \* node identifiers a flow may mention
          NoNode,      \* an absent entryNodeId or branch
          Flows,       \* the Flow.spec values considered
          MaxAttempts, \* bound: executions of the same run
          Limit        \* bound: cancellations, crashes and failed database calls

Kinds == {"input", "output", "condition", "agent"}
RunStatus  == {"pending", "running", "completed", "failed", "cancelled"}
StepStatus == {"pending", "running", "completed", "failed"}
Mishaps == {"cancel", "crash", "fault"}

(* A flow: its nodes in document order (none: the run has no flow, or the  *)
(* flow no nodes), their types, the explicit entry, the edge map and the   *)
(* branches of the condition nodes.  An edge, a branch or the entry may    *)
(* name a node that does not exist.                                        *)
Flow == [ids : Seq(Node), kind : [Node -> Kinds], entry : Node \cup {NoNode},
         out : [Node -> Seq(Node)],
         branch : [Node -> [BOOLEAN -> Node \cup {NoNode}]]]

ASSUME NodeAssumption  == NoNode \notin Node /\ Node # {}
ASSUME FlowAssumption  == Flows \subseteq Flow
ASSUME BoundAssumption == MaxAttempts \in Nat /\ Limit \in [Mishaps -> Nat]

VARIABLES flow,        \* Flow.spec of the run
          run,         \* Run.status
          steps,       \* RunStep rows in order of creation
          pc,          \* where the executor is
          outcome,     \* how the last executeRun settled
          queue,       \* the worklist of _traverseGraph
          visited,     \* its visited set
          cur,         \* the node whose step is being executed
          chosen,      \* the branch each condition node has taken
          events,      \* StatusChangeEvents emitted
          attempt,     \* executions so far
          spent        \* mishaps so far

db    == <<run, steps>>
local == <<queue, visited, cur, chosen>>
vars  == <<flow, run, steps, pc, outcome, queue, visited, cur, chosen,
           events, attempt, spent>>

StepRow == [node : Node, status : StepStatus, attempt : 0..MaxAttempts]
Event   == [step : Nat, status : StepStatus]

(* Where the executor can wait inside the life cycle of a step.            *)
StepPCs == {"claim", "fetch", "emitRunning", "work", "writeDone", "emitDone",
            "writeFailed", "emitFailed", "writeLost"}
PCs     == {"idle", "begin", "load", "walk", "fail"} \cup StepPCs

TypeOK ==
  /\ flow \in Flows
  /\ run \in RunStatus
  /\ steps \in Seq(StepRow)
  /\ pc \in PCs
  /\ outcome \in {"none", "resolved", "rejected", "crashed"}
  /\ queue \in Seq(Node)
  /\ visited \in SUBSET Node
  /\ cur \in Node \cup {NoNode}
  /\ chosen \in [Node -> Node \cup {NoNode}]
  /\ events \in Seq(Event)
  /\ attempt \in 0..MaxAttempts
  /\ spent \in [Mishaps -> Nat]

-----------------------------------------------------------------------------
(* Operators on flows. *)

Exists(f, n) == n \in Range(f.ids)

(* The entry node: the explicit one, else the first input, else the first. *)
Entry(f) ==
  LET inputs == {i \in DOMAIN f.ids : f.kind[f.ids[i]] = "input"}
  IN  IF f.entry # NoNode THEN f.entry
      ELSE IF inputs # {}
           THEN f.ids[CHOOSE i \in inputs : \A j \in inputs : i <= j]
           ELSE f.ids[1]

(* Where the flow led from a node that was left.                           *)
Followed(n) == IF flow.kind[n] = "condition" THEN {chosen[n]} \ {NoNode}
                                             ELSE Range(flow.out[n])

(* The edge map of a list of edges; an edge without both ends is ignored.  *)
EdgeMap(edges) ==
  [n \in Node |->
     LET from == SelectSeq(edges, LAMBDA e : e.src = n /\ e.tgt # NoNode)
     IN  [i \in DOMAIN from |-> from[i].tgt]]

Spend(m) == /\ spent[m] < Limit[m]
            /\ spent' = [spent EXCEPT ![m] = @ + 1]

SetStep(s) == steps' = [steps EXCEPT ![Len(steps)].status = s]

(* The event names the row; it is emitted after the row was written.       *)
Emit(s) == events' = Append(events, [step |-> Len(steps), status |-> s])

(* A database call of the executor: it is applied, or it is rejected and   *)
(* control goes to the enclosing handler.                                  *)
Applied(next)  == pc' = next /\ UNCHANGED spent
Rejected(next) == /\ Spend("fault")
                  /\ pc' = next

-----------------------------------------------------------------------------
(* Seeded faults: what the actions of the same name would be with a         *)
(* plausible bug.  No action uses them; each breaks a property below.       *)

TakeUnmarked == /\ pc = "walk"                    \* no visited.add
                /\ queue # <<>>
                /\ Head(queue) \notin visited
                /\ visited' = visited

PassFirstOnly == /\ pc = "walk"                   \* pushes one successor
                 /\ queue # <<>>
                 /\ Head(queue) \notin visited
                 /\ visited' = visited \cup {Head(queue)}
                 /\ Exists(flow, Head(queue))
                 /\ flow.kind[Head(queue)] \in {"input", "output"}
                 /\ queue' = Tail(queue) \o
                       (IF flow.out[Head(queue)] = <<>> THEN <<>>
                        ELSE <<Head(flow.out[Head(queue)])>>)
                 /\ UNCHANGED <<flow, db, pc, outcome, cur, chosen, events,
                                attempt, spent>>

EmitThenComplete == /\ pc = "writeDone"           \* emits before it writes
                    /\ Emit("completed")
                    /\ \/ Applied("emitDone") /\ SetStep("completed")
                       \/ Rejected("writeFailed") /\ UNCHANGED steps
                    /\ UNCHANGED <<flow, run, outcome, local, attempt>>

LeaveByBothBranches ==                            \* ignores the condition
  /\ pc = "emitDone"
  /\ Emit("completed")
  /\ pc' = "walk"
  /\ queue' = queue \o flow.out[cur] \o
                SelectSeq(<<flow.branch[cur][TRUE], flow.branch[cur][FALSE]>>,
                          LAMBDA n : n # NoNode)
  /\ cur' = NoNode
  /\ UNCHANGED <<flow, db, outcome, visited, chosen, attempt, spent>>

CompleteThenFail == /\ pc = "walk"                \* the try goes on after it
                    /\ queue = <<>>
                    /\ Applied("fail")
                    /\ run' = "completed"
                    /\ UNCHANGED <<flow, steps, outcome, local, events, attempt>>

FailWithoutWrite == /\ pc = "fail"                \* catch without the update
                    /\ pc' = "idle"
                    /\ outcome' = "rejected"
                    /\ UNCHANGED <<flow, db, local, events, attempt, spent>>

-----------------------------------------------------------------------------
Init == /\ flow \in Flows
        /\ run = "pending"
        /\ steps = <<>>
        /\ pc = "idle"
        /\ outcome = "none"
        /\ queue = <<>>
        /\ visited = {}
        /\ cur = NoNode
        /\ chosen = [n \in Node |-> NoNode]
        /\ events = <<>>
        /\ attempt = 0
        /\ spent = [m \in Mishaps |-> 0]

(* executeRun is called: by setImmediate in startRun, or again later.      *)
Invoke == /\ pc = "idle"
          /\ attempt < MaxAttempts
          /\ attempt' = attempt + 1
          /\ pc' = "begin"
          /\ outcome' = "none"
          /\ UNCHANGED <<flow, db, local, events, spent>>

(* The run is marked running whatever its status; a rejected write is      *)
(* outside the try block, so nothing else is written.                      *)
BeginRun == /\ pc = "begin"
            /\ \/ Applied("load") /\ run' = "running" /\ UNCHANGED outcome
               \/ Rejected("idle") /\ outcome' = "rejected" /\ UNCHANGED run
            /\ UNCHANGED <<flow, steps, local, events, attempt>>

(* The run is read with its flow and the traversal gets its start node.    *)
LoadRun == /\ pc = "load"
           /\ \/ /\ flow.ids # <<>>
                 /\ Applied("walk")
                 /\ queue' = <<Entry(flow)>>
                 /\ visited' = {}
                 /\ cur' = NoNode
                 /\ chosen' = [n \in Node |-> NoNode]
              \/ flow.ids = <<>> /\ Applied("fail") /\ UNCHANGED local
              \/ Rejected("fail") /\ UNCHANGED local
           /\ UNCHANGED <<flow, db, outcome, events, attempt>>

(* The head of the worklist was visited before: it is dropped.             *)
SkipVisited == /\ pc = "walk"
               /\ queue # <<>>
               /\ Head(queue) \in visited
               /\ queue' = Tail(queue)
               /\ UNCHANGED <<flow, db, pc, outcome, visited, cur, chosen,
                              events, attempt, spent>>

(* The head of the worklist is new: it is taken and marked visited.        *)
Take == /\ pc = "walk"
        /\ queue # <<>>
        /\ Head(queue) \notin visited
        /\ visited' = visited \cup {Head(queue)}

(* The flow names a node it does not contain: the traversal throws.        *)
MissingNode == /\ Take
               /\ ~Exists(flow, Head(queue))
               /\ queue' = Tail(queue)
               /\ pc' = "fail"
               /\ UNCHANGED <<flow, db, outcome, cur, chosen, events, attempt,
                              spent>>

(* Input and output nodes have no step: their successors are pushed.       *)
PassThrough == /\ Take
               /\ Exists(flow, Head(queue))
               /\ flow.kind[Head(queue)] \in {"input", "output"}
               /\ queue' = Tail(queue) \o flow.out[Head(queue)]
               /\ UNCHANGED <<flow, db, pc, outcome, cur, chosen, events,
                              attempt, spent>>

(* Any other node gets a RunStep row, pending.                             *)
CreateStep ==
  /\ Take
  /\ Exists(flow, Head(queue))
  /\ flow.kind[Head(queue)] \in {"condition", "agent"}
  /\ queue' = Tail(queue)
  /\ cur' = Head(queue)
  /\ \/ /\ Applied("claim")
        /\ steps' = Append(steps, [node |-> Head(queue), status |-> "pending",
                                   attempt |-> attempt])
     \/ Rejected("fail") /\ UNCHANGED steps
  /\ UNCHANGED <<flow, run, outcome, chosen, events, attempt>>

-----------------------------------------------------------------------------
(* AgentExecutor.execute, for the last row of steps. *)

ClaimStep == /\ pc = "claim"
             /\ \/ Applied("fetch") /\ SetStep("running")
                \/ Rejected("fail") /\ UNCHANGED steps
             /\ UNCHANGED <<flow, run, outcome, local, events, attempt>>

FetchStep == /\ pc = "fetch"
             /\ Applied("emitRunning") \/ Rejected("writeLost")
             /\ UNCHANGED <<flow, db, outcome, local, events, attempt>>

(* The row could not be read: it is marked failed without an event.        *)
LoseStep == /\ pc = "writeLost"
            /\ \/ Applied("fail") /\ SetStep("failed")
               \/ Rejected("fail") /\ UNCHANGED steps
            /\ UNCHANGED <<flow, run, outcome, local, events, attempt>>

EmitRunning == /\ pc = "emitRunning"
               /\ Emit("running")
               /\ pc' = "work"
               /\ UNCHANGED <<flow, db, outcome, local, attempt, spent>>

(* The condition is evaluated or the agent called: it answers or throws.   *)
Work == /\ pc = "work"
        /\ \/ /\ pc' = "writeDone"
              /\ IF flow.kind[cur] = "condition"
                 THEN \E b \in BOOLEAN :
                        chosen' = [chosen EXCEPT ![cur] = flow.branch[cur][b]]
                 ELSE UNCHANGED chosen
           \/ pc' = "writeFailed" /\ UNCHANGED chosen
        /\ UNCHANGED <<flow, db, outcome, queue, visited, cur, events, attempt,
                       spent>>

CompleteStep == /\ pc = "writeDone"
                /\ \/ Applied("emitDone") /\ SetStep("completed")
                   \/ Rejected("writeFailed") /\ UNCHANGED steps
                /\ UNCHANGED <<flow, run, outcome, local, events, attempt>>

(* The event goes out, execute returns and the traversal pushes what the   *)
(* node leads to.                                                          *)
LeaveStep ==
  /\ pc = "emitDone"
  /\ Emit("completed")
  /\ pc' = "walk"
  /\ queue' = queue \o (IF flow.kind[cur] # "condition" THEN flow.out[cur]
                        ELSE IF chosen[cur] = NoNode THEN <<>>
                        ELSE <<chosen[cur]>>)
  /\ cur' = NoNode
  /\ UNCHANGED <<flow, db, outcome, visited, chosen, attempt, spent>>

FailStep == /\ pc = "writeFailed"
            /\ \/ Applied("emitFailed") /\ SetStep("failed")
               \/ Rejected("fail") /\ UNCHANGED steps
            /\ UNCHANGED <<flow, run, outcome, local, events, attempt>>

EmitFailed == /\ pc = "emitFailed"
              /\ Emit("failed")
              /\ pc' = "fail"
              /\ UNCHANGED <<flow, db, outcome, local, attempt, spent>>

-----------------------------------------------------------------------------
(* The end of executeRun. *)

(* The worklist is empty: completed is written, whatever the status is by  *)
(* then.  A rejected write falls into the catch block.                     *)
CompleteRun == /\ pc = "walk"
               /\ queue = <<>>
               /\ \/ /\ Applied("idle")
                     /\ run' = "completed"
                     /\ outcome' = "resolved"
                  \/ Rejected("fail") /\ UNCHANGED <<run, outcome>>
               /\ UNCHANGED <<flow, steps, local, events, attempt>>

(* The catch block: failed is written and the error thrown on.             *)
FailRun == /\ pc = "fail"
           /\ \/ Applied("idle") /\ run' = "failed"
              \/ Rejected("idle") /\ UNCHANGED run
           /\ outcome' = "rejected"
           /\ UNCHANGED <<flow, steps, local, events, attempt>>

-----------------------------------------------------------------------------
(* The environment. *)

(* RunRepository.cancelRun: unconditional, and nothing tells the executor. *)
Cancel == /\ Spend("cancel")
          /\ run' = "cancelled"
          /\ UNCHANGED <<flow, steps, pc, outcome, local, events, attempt>>

(* The process dies: only the rows are left.                               *)
Crash == /\ pc # "idle"
         /\ Spend("crash")
         /\ pc' = "idle"
         /\ outcome' = "crashed"
         /\ UNCHANGED <<flow, db, local, events, attempt>>

Executor == \/ BeginRun \/ LoadRun
            \/ SkipVisited \/ MissingNode \/ PassThrough \/ CreateStep
            \/ ClaimStep \/ FetchStep \/ LoseStep \/ EmitRunning \/ Work
            \/ CompleteStep \/ LeaveStep \/ FailStep \/ EmitFailed
            \/ CompleteRun \/ FailRun

Next == Invoke \/ Executor \/ Cancel \/ Crash

Spec == Init /\ [][Next]_vars

(* The event loop runs a pending continuation, database calls settle and   *)
(* the agent answers or throws.                                            *)
FairSpec == Spec /\ WF_vars(Executor)

-----------------------------------------------------------------------------
(* Safety. *)

(* A node gets one step per execution, however many paths of the flow lead *)
(* to it and whatever cycles it has ("exactamente un step por nodo",       *)
(* run-llm.e2e.spec.ts): the visited set of _traverseGraph.                *)
OneStepPerNode ==
  \A i, j \in DOMAIN steps :
    /\ steps[i].attempt = steps[j].attempt
    /\ steps[i].node = steps[j].node
    => i = j

(* executeRun resolves, and the run says completed, only when the whole    *)
(* reachable part of the flow was executed: the entry was visited, every   *)
(* node led to was visited, and each that needs a step has a completed one *)
(* of this execution.  Neither the worklist nor a failure loses a node.    *)
ResolvedMeansExecuted ==
  outcome = "resolved" =>
    /\ Entry(flow) \in visited
    /\ \A n \in visited :
         /\ Exists(flow, n)
         /\ Followed(n) \subseteq visited
         /\ flow.kind[n] \in {"condition", "agent"} =>
              \E i \in DOMAIN steps : /\ steps[i].node = n
                                      /\ steps[i].attempt = attempt
                                      /\ steps[i].status = "completed"

(* Steps of one execution run one after the other, and nothing runs after  *)
(* a step that did not complete: executeAgent is awaited and its exception *)
(* ends the traversal.                                                     *)
OnlyLastStepOpen ==
  \A i, j \in DOMAIN steps :
    i < j /\ steps[i].attempt = steps[j].attempt => steps[i].status = "completed"

(* An execution that threw leaves no row of its own pending or running, as *)
(* long as the database took every write.                                  *)
RejectedLeavesNoOpenStep ==
  outcome = "rejected" /\ spent["fault"] = 0 =>
    \A i \in DOMAIN steps :
      steps[i].attempt = attempt => steps[i].status \in {"completed", "failed"}

(* The rows of one execution: typed, one for each node, one after another. *)
StepRowsSound == TypeOK /\ OneStepPerNode /\ OnlyLastStepOpen

(* What executeRun's caller learns is true of the rows: resolved of a flow *)
(* that was executed whole, rejected of one whose rows are all closed.     *)
OutcomeTellsRows == ResolvedMeansExecuted /\ RejectedLeavesNoOpenStep

(* What a row's status must be once an event has announced s: "el evento   *)
(* debe reflejar el estado real en BD" (run-step-emitter.ts).              *)
Announces(s) == IF s = "running" THEN {"running", "completed", "failed"} ELSE {s}

EventsReflectRows ==
  \A e \in Range(events) : /\ e.step \in DOMAIN steps
                           /\ steps[e.step].status \in Announces(e.status)

(* Subscribers see a step's events in order, each at most once, and none   *)
(* after the event that ends it.                                           *)
EventsInOrder ==
  \A i, j \in DOMAIN events :
    i < j => \/ events[i].step < events[j].step
             \/ /\ events[i].step = events[j].step
                /\ events[i].status = "running"
                /\ events[j].status \in {"completed", "failed"}

(* What subscribers hear of the steps is true, and in order.               *)
EventsTellRows == EventsReflectRows /\ EventsInOrder

(* ADR-003: the transitions of a run; pending stands for its queued.       *)
AdrTransitions == {<<"pending", "running">>, <<"pending", "cancelled">>,
                   <<"running", "completed">>, <<"running", "failed">>,
                   <<"running", "cancelled">>}

AdrStep == <<run, run'>> \in AdrTransitions

(* A run that is executed once and that nobody cancels changes its status  *)
(* along the transitions of the ADR only, whatever is rejected and wherever*)
(* the process dies.  No write looks at the status it replaces, so nothing *)
(* more can be said.                                                       *)
RunFollowsAdr ==
  [][attempt' <= 1 /\ spent'["cancel"] = 0 /\ run' # run => AdrStep]_vars

(* Liveness. *)

(* Every execution ends, on cyclic flows too, with the traversal bounded   *)
(* by the visited set and every exception caught or thrown on.             *)
AttemptSettles == pc # "idle" ~> pc = "idle"

(* While the process lives and the database answers, a run seen running    *)
(* is terminal later.                                                      *)
RunningRunSettles ==
  (run = "running" /\ spent["crash"] = 0 /\ spent["fault"] = 0)
    ~> \/ run \in {"completed", "failed", "cancelled"}
       \/ spent["crash"] + spent["fault"] > 0

(* Executions end, and so do the runs they execute.                        *)
ExecutionEnds == AttemptSettles /\ RunningRunSettles

-----------------------------------------------------------------------------
(* Refinement: an execution is a search of the flow. *)

Searching == pc \in {"walk"} \cup (StepPCs \ {"writeLost", "writeFailed", "emitFailed"})

Choices == [n \in Node |->
              IF flow.kind[n] = "condition"
              THEN {{flow.branch[n][b]} \ {NoNode} : b \in BOOLEAN}
              ELSE {Range(flow.out[n])}]

SearchPhase == IF Searching THEN "on"
               ELSE IF outcome = "resolved" THEN "done" ELSE "off"
SearchSeen  == IF SearchPhase = "off" THEN {} ELSE visited \ {cur}
SearchTodo  == IF SearchPhase = "off" THEN {}
               ELSE (Range(queue) \cup ({cur} \ {NoNode})) \ SearchSeen

EntryOrAny == IF flow.ids = <<>> THEN CHOOSE n \in Node : TRUE ELSE Entry(flow)

Search == INSTANCE FlowSearch WITH root <- EntryOrAny, may <- Choices,
            phase <- SearchPhase, seen <- SearchSeen, todo <- SearchTodo

(* Every execution of the flow is a search as FlowSearch describes it.     *)
ImplementsSearch == Search!Spec

=============================================================================
