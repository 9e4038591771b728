----------------------------- MODULE Orchestrator -----------------------------
(***************************************************************************)
(* One orchestrate call of HierarchyOrchestrator (packages/hierarchy/src/  *)
(* hierarchy-orchestrator.ts): the task is decomposed into subtasks, these *)
(* run in parallel or in sequence, each with an approval gate, retries and *)
(* a timeout, and their results decide the status of the run.  Subtasks    *)
(* share the runs row; every await is a point where the others, a reviewer *)
(* (runs.service.ts) or a cancellation may act.                            *)
(***************************************************************************)
EXTENDS Naturals

CONSTANTS Tasks,       \* how many subtasks the task is decomposed into
          MaxRetries,  \* opts.maxRetries
          Limit        \* bound: cancellations, crashes and failed database calls

Task == 1..Tasks
Mishaps == {"cancel", "crash", "fault"}

ASSUME TasksAssumption    == Tasks \in Nat \ {0}
ASSUME RetriesAssumption  == MaxRetries \in Nat
ASSUME LimitAssumption    == Limit \in [Mishaps -> Nat]

VARIABLES gated,       \* subtasks whose node has requiresApproval
          parallel,    \* opts.parallel
          timed,       \* opts.subtaskTimeoutMs > 0
          supervised,  \* the class is built with a supervisorFn
          asWritten,   \* TRUE: the class is built with run-repository.ts;
                       \* FALSE: with the double of RunRepository in the tests
          run,         \* Run.status
          row,         \* RunStep.status of each subtask
          approval,    \* Approval.status of each subtask
          main,        \* where orchestrate is
          pc,          \* where executeWithRetry is, for each subtask
          tries,       \* calls of executorFn made for each subtask
          abandoned,   \* calls that timed out and have not settled
          result,      \* SubtaskResult.status of each subtask
          outcome,     \* how orchestrate settled
          spent        \* mishaps so far

options == <<gated, parallel, timed, supervised, asWritten>>
db      == <<run, row, approval>>
vars    == <<gated, parallel, timed, supervised, asWritten, run, row, approval, main,
             pc, tries, abandoned, result, outcome, spent>>

RunStatus == {"none", "pending", "running", "paused", "completed", "failed",
              "cancelled"}
RowStatus == {"none", "pending", "completed", "failed", "skipped"}
Verdicts  == {"completed", "failed", "rejected"}
TaskPCs   == {"idle", "create", "pause", "request", "wait", "granted", "refused",
              "skip", "call", "answer", "complete", "fail", "settled"}
MainPCs   == {"create", "start", "decompose", "execute", "consolidate",
              "finish", "catch", "end", "dead"}

TypeOK ==
  /\ gated \subseteq Task
  /\ parallel \in BOOLEAN
  /\ timed \in BOOLEAN
  /\ supervised \in BOOLEAN
  /\ asWritten \in BOOLEAN
  /\ run \in RunStatus
  /\ row \in [Task -> RowStatus]
  /\ approval \in [Task -> {"none", "pending", "approved", "rejected"}]
  /\ main \in MainPCs
  /\ pc \in [Task -> TaskPCs]
  /\ tries \in [Task -> 0..MaxRetries + 1]
  /\ abandoned \in [Task -> 0..MaxRetries + 1]
  /\ result \in [Task -> Verdicts \cup {"none"}]
  /\ outcome \in {"none", "completed", "partial", "failed", "threw"}
  /\ spent \in [Mishaps -> Nat]

-----------------------------------------------------------------------------
Spend(m) == /\ spent[m] < Limit[m]
            /\ spent' = [spent EXCEPT ![m] = @ + 1]

(* A database call of orchestrate: applied, or rejected.                   *)
Applied(next)  == main' = next /\ UNCHANGED spent
Rejected(next) == Spend("fault") /\ main' = next

(* The same for a call of subtask t.  A rejection leaves executeWithRetry, *)
(* and its caller turns the exception into a failed result.                *)
Goto(t, next)   == /\ pc' = [pc EXCEPT ![t] = next]
                   /\ UNCHANGED <<result, spent>>
Settle(t, v)    == /\ pc' = [pc EXCEPT ![t] = "settled"]
                   /\ result' = [result EXCEPT ![t] = v]
                   /\ UNCHANGED spent
Throw(t)        == /\ Spend("fault")
                   /\ pc' = [pc EXCEPT ![t] = "settled"]
                   /\ result' = [result EXCEPT ![t] = "failed"]
SetRow(t, s)    == row' = [row EXCEPT ![t] = s]

At(t, p) == main # "dead" /\ pc[t] = p

(* run-repository.ts takes the step id, and the class passes an object:    *)
(* the database layer refuses every completeStep and failStep call.        *)
StepCallRefused == asWritten /\ UNCHANGED spent

Succeeded == {t \in Task : result[t] = "completed"}

(* The catch of one attempt: another one, or the step fails.               *)
AfterAttempt(t) == IF tries[t] <= MaxRetries THEN "call" ELSE "fail"

(* The status that orchestrate derives from the results.                   *)
Status == IF Succeeded = Task THEN "completed"
          ELSE IF Succeeded = {} THEN "failed" ELSE "partial"

-----------------------------------------------------------------------------
(* Seeded faults: what the definitions of the same name would be with a     *)
(* plausible bug.  No action uses them; each breaks a property below.       *)

WaitThenCall(t) == /\ At(t, "wait")               \* an expired wait goes on
                   /\ \/ approval[t] # "rejected" /\ Goto(t, "granted")
                      \/ approval[t] = "rejected" /\ Goto(t, "refused")
                   /\ UNCHANGED <<options, db, main, tries, abandoned, outcome>>

LateWrite(t) == /\ main # "dead"                  \* no winner of the race
                /\ abandoned[t] > 0
                /\ abandoned' = [abandoned EXCEPT ![t] = @ - 1]
                /\ row' = [row EXCEPT ![t] = "completed"]
                /\ UNCHANGED <<options, run, approval, main, pc, tries, result,
                               outcome, spent>>

BeginAtOnce(t) == /\ main = "execute"             \* sequence without await
                  /\ pc[t] = "idle"
                  /\ Goto(t, "create")
                  /\ UNCHANGED <<options, db, main, tries, abandoned, outcome>>

CloseKeepsPause == /\ main = "finish"             \* leaves a paused run alone
                   /\ Applied("end")
                   /\ run' = IF run = "paused" THEN run
                             ELSE IF Status = "failed" THEN "failed" ELSE "completed"
                   /\ outcome' = Status
                   /\ UNCHANGED <<options, row, approval, pc, tries, abandoned,
                                  result>>

WaitForRejection(t) == /\ At(t, "wait")           \* polls for one verdict
                       /\ approval[t] = "rejected"
                       /\ Goto(t, "refused")
                       /\ UNCHANGED <<options, db, main, tries, abandoned, outcome>>

WaitForReviewer(t) == /\ At(t, "wait")            \* the wait has no deadline
                      /\ \/ approval[t] = "approved" /\ Goto(t, "granted")
                         \/ approval[t] = "rejected" /\ Goto(t, "refused")
                      /\ UNCHANGED <<options, db, main, tries, abandoned, outcome>>

-----------------------------------------------------------------------------
Init == /\ gated \in SUBSET Task
        /\ parallel \in BOOLEAN
        /\ timed \in BOOLEAN
        /\ supervised \in BOOLEAN
        /\ asWritten \in BOOLEAN
        /\ run = "none"
        /\ row = [t \in Task |-> "none"]
        /\ approval = [t \in Task |-> "none"]
        /\ main = "create"
        /\ pc = [t \in Task |-> "idle"]
        /\ tries = [t \in Task |-> 0]
        /\ abandoned = [t \in Task |-> 0]
        /\ result = [t \in Task |-> "none"]
        /\ outcome = "none"
        /\ spent = [m \in Mishaps |-> 0]

-----------------------------------------------------------------------------
(* orchestrate. *)

(* The run is created; a rejection is not caught.                          *)
CreateRun == /\ main = "create"
             /\ \/ Applied("start") /\ run' = "pending" /\ UNCHANGED outcome
                \/ Rejected("end") /\ outcome' = "threw" /\ UNCHANGED run
             /\ UNCHANGED <<options, row, approval, pc, tries, abandoned, result>>

(* It is marked running, still outside the try block.                      *)
StartRun == /\ main = "start"
            /\ \/ Applied("decompose") /\ run' = "running" /\ UNCHANGED outcome
               \/ Rejected("end") /\ outcome' = "threw" /\ UNCHANGED run
            /\ UNCHANGED <<options, row, approval, pc, tries, abandoned, result>>

(* The supervisor, or the capability match when it fails, names the        *)
(* subtasks.                                                               *)
Decompose == /\ main = "decompose"
             /\ main' = "execute"
             /\ UNCHANGED <<options, db, pc, tries, abandoned, result, outcome, spent>>

(* All subtasks have a result: they are consolidated, by the supervisor or *)
(* without it.                                                             *)
Join == /\ main = "execute"
        /\ \A t \in Task : pc[t] = "settled"
        /\ main' = "consolidate"
        /\ UNCHANGED <<options, db, pc, tries, abandoned, result, outcome, spent>>

Consolidate == /\ main = "consolidate"
               /\ main' = "finish"
               /\ UNCHANGED <<options, db, pc, tries, abandoned, result, outcome,
                              spent>>

(* The run is closed, whatever its status is by then.                      *)
CloseRun == /\ main = "finish"
            /\ \/ /\ Applied("end")
                  /\ run' = IF Status = "failed" THEN "failed" ELSE "completed"
                  /\ outcome' = Status
               \/ Rejected("catch") /\ UNCHANGED <<run, outcome>>
            /\ UNCHANGED <<options, row, approval, pc, tries, abandoned, result>>

FailRun == /\ main = "catch"
           /\ \/ Applied("end") /\ run' = "failed"
              \/ Rejected("end") /\ UNCHANGED run
           /\ outcome' = "threw"
           /\ UNCHANGED <<options, row, approval, pc, tries, abandoned, result>>

-----------------------------------------------------------------------------
(* executeWithRetry, for subtask t. *)

(* Called for all subtasks at once, or for each when the previous settled. *)
Begin(t) == /\ main = "execute"
            /\ pc[t] = "idle"
            /\ parallel \/ \A u \in Task : u < t => pc[u] = "settled"
            /\ Goto(t, "create")
            /\ UNCHANGED <<options, db, main, tries, abandoned, outcome>>

CreateStep(t) ==
  /\ At(t, "create")
  /\ \/ Goto(t, IF t \in gated THEN "pause" ELSE "call") /\ SetRow(t, "pending")
     \/ Throw(t) /\ UNCHANGED row
  /\ UNCHANGED <<options, run, approval, main, tries, abandoned, outcome>>

PauseRun(t) == /\ At(t, "pause")
               /\ \/ Goto(t, "request") /\ run' = "paused"
                  \/ Throw(t) /\ UNCHANGED run
               /\ UNCHANGED <<options, row, approval, main, tries, abandoned, outcome>>

CreateApproval(t) ==
  /\ At(t, "request")
  /\ \/ Goto(t, "wait") /\ approval' = [approval EXCEPT ![t] = "pending"]
     \/ Throw(t) /\ UNCHANGED approval
  /\ UNCHANGED <<options, run, row, main, tries, abandoned, outcome>>

(* waitForApproval polls the row until it is decided or its time is up;    *)
(* the class compares the answer with "approved", and run-repository.ts    *)
(* answers an object, which is never equal to it.                          *)
WaitForApproval(t) ==
  /\ At(t, "wait")
  /\ \/ approval[t] = "approved" /\ Goto(t, IF asWritten THEN "refused" ELSE "granted")
     \/ approval[t] \in {"rejected", "pending"} /\ Goto(t, "refused")
     \/ Throw(t)
  /\ UNCHANGED <<options, db, main, tries, abandoned, outcome>>

(* The run is marked running, whichever way the wait ended.                *)
ResumeRun(t) ==
  /\ \/ At(t, "granted") /\ Goto(t, "call") /\ run' = "running"
     \/ At(t, "refused") /\ Goto(t, "skip") /\ run' = "running"
     \/ (At(t, "granted") \/ At(t, "refused")) /\ Throw(t) /\ UNCHANGED run
  /\ UNCHANGED <<options, row, approval, main, tries, abandoned, outcome>>

SkipStep(t) == /\ At(t, "skip")
               /\ \/ Settle(t, "rejected") /\ SetRow(t, "skipped")
                  \/ Throw(t) /\ UNCHANGED row
               /\ UNCHANGED <<options, run, approval, main, tries, abandoned, outcome>>

(* The agent is called, the first time or after the back-off.              *)
CallAgent(t) == /\ At(t, "call")
                /\ tries' = [tries EXCEPT ![t] = @ + 1]
                /\ Goto(t, "answer")
                /\ UNCHANGED <<options, db, main, abandoned, outcome>>

(* It answers, it throws, or subtaskTimeoutMs passes first, when that is   *)
(* not 0; the call is then left to itself.                                 *)
Answer(t) == /\ At(t, "answer")
             /\ Goto(t, "complete")
             /\ UNCHANGED <<options, db, main, tries, abandoned, outcome>>

AgentThrows(t) == /\ At(t, "answer")
                  /\ Goto(t, AfterAttempt(t))
                  /\ UNCHANGED <<options, db, main, tries, abandoned, outcome>>

TimeOut(t) == /\ At(t, "answer")
              /\ timed
              /\ Goto(t, AfterAttempt(t))
              /\ abandoned' = [abandoned EXCEPT ![t] = @ + 1]
              /\ UNCHANGED <<options, db, main, tries, outcome>>

(* An abandoned call settles: its promise has no one to tell.              *)
LateAnswer(t) == /\ main # "dead"
                 /\ abandoned[t] > 0
                 /\ abandoned' = [abandoned EXCEPT ![t] = @ - 1]
                 /\ UNCHANGED <<options, db, main, pc, tries, result, outcome, spent>>

(* The answer is written inside the try block of the attempt: a rejected   *)
(* write is caught like an exception of the agent.                         *)
CompleteStep(t) ==
  /\ At(t, "complete")
  /\ \/ ~asWritten /\ Settle(t, "completed") /\ SetRow(t, "completed")
     \/ /\ StepCallRefused \/ Spend("fault")
        /\ pc' = [pc EXCEPT ![t] = AfterAttempt(t)]
        /\ UNCHANGED <<row, result>>
  /\ UNCHANGED <<options, run, approval, main, tries, abandoned, outcome>>

(* No attempt is left.  A rejected failStep is thrown on.                  *)
FailStep(t) ==
  /\ At(t, "fail")
  /\ \/ ~asWritten /\ Settle(t, "failed") /\ SetRow(t, "failed")
     \/ /\ StepCallRefused \/ Spend("fault")
        /\ pc' = [pc EXCEPT ![t] = "settled"]
        /\ result' = [result EXCEPT ![t] = "failed"]
        /\ UNCHANGED row
  /\ UNCHANGED <<options, run, approval, main, tries, abandoned, outcome>>

-----------------------------------------------------------------------------
(* The API: a reviewer decides a pending approval (an atomic updateMany),  *)
(* in time or not; someone cancels the run; the process dies.              *)

Decide(t, d) == /\ approval[t] = "pending"
                /\ approval' = [approval EXCEPT ![t] = d]
                /\ UNCHANGED <<options, run, row, main, pc, tries, abandoned, result,
                               outcome, spent>>

Cancel == /\ run # "none"
          /\ Spend("cancel")
          /\ run' = "cancelled"
          /\ UNCHANGED <<options, row, approval, main, pc, tries, abandoned, result,
                         outcome>>

Crash == /\ main \notin {"end", "dead"}
         /\ Spend("crash")
         /\ main' = "dead"
         /\ UNCHANGED <<options, db, pc, tries, abandoned, result, outcome>>

-----------------------------------------------------------------------------
Orchestrate == \/ CreateRun \/ StartRun \/ Decompose \/ Join \/ Consolidate
               \/ CloseRun \/ FailRun

(* What the class does by itself for a subtask, and what its agent does.   *)
Step(t) == \/ Begin(t) \/ CreateStep(t) \/ PauseRun(t) \/ CreateApproval(t)
           \/ WaitForApproval(t) \/ ResumeRun(t) \/ SkipStep(t)
           \/ CallAgent(t) \/ TimeOut(t) \/ CompleteStep(t) \/ FailStep(t)

Execute(t) == Step(t) \/ Answer(t) \/ AgentThrows(t)

Next == \/ Orchestrate
        \/ \E t \in Task : Execute(t) \/ LateAnswer(t)
        \/ \E t \in Task, d \in {"approved", "rejected"} : Decide(t, d)
        \/ Cancel
        \/ Crash

Spec == Init /\ [][Next]_vars

(* orchestrate awaits the supervisor, or an agent: no timer bounds the     *)
(* first, and none bounds the second when subtaskTimeoutMs is 0.  The      *)
(* supervisor is asked to consolidate only when a subtask succeeded.       *)
AwaitsSupervisor == /\ supervised
                    /\ \/ main = "decompose"
                       \/ main = "consolidate" /\ Succeeded # {}

AwaitsAgent(t) == At(t, "answer") /\ ~timed

(* The event loop runs every continuation that is due, the database        *)
(* settles every call, and the timers that are set fire.  Nobody is        *)
(* obliged to answer: no supervisor, no agent and no reviewer; nor to      *)
(* cancel, or to let an abandoned call settle.                             *)
Fairness == /\ WF_vars(Orchestrate /\ ~AwaitsSupervisor)
            /\ \A t \in Task : WF_vars(Step(t))

FairSpec == Spec /\ Fairness

-----------------------------------------------------------------------------
(* Safety. *)

(* The agent of a node with requiresApproval is called only once a         *)
(* reviewer approved that subtask; an expired or lost wait never opens the *)
(* gate.                                                                   *)
GateHolds == \A t \in gated : tries[t] > 0 => approval[t] = "approved"

(* A subtask is given up only after every attempt was made, unless the     *)
(* database failed a call.                                                 *)
GivesUpOnlyAfterRetries ==
  \A t \in Task :
    result[t] = "failed" /\ spent["fault"] = 0 => tries[t] = MaxRetries + 1

(* The status returned is the one written, whatever the subtasks did to    *)
(* the run in between: none leaves it paused or running behind.  Only a    *)
(* later cancellation replaces it.                                         *)
ReportedStatusWritten ==
  main = "end" =>
    CASE outcome \in {"completed", "partial"} -> run \in {"completed", "cancelled"}
      [] outcome = "failed"                  -> run \in {"failed", "cancelled"}
      [] OTHER                               -> spent["fault"] > 0

(* The run counts as completed only if some subtask's row is, and as       *)
(* wholly completed only if all rows are.                                  *)
StatusMatchesRows ==
  /\ run = "completed" => \E t \in Task : row[t] = "completed"
  /\ outcome = "completed" => \A t \in Task : row[t] = "completed"
  /\ outcome = "failed" => \A t \in Task : row[t] # "completed"

(* What the run says of the subtasks, and orchestrate of the run, is true. *)
StatusIsTrue == TypeOK /\ ReportedStatusWritten /\ StatusMatchesRows

(* Action properties. *)

(* A row that is completed, failed or skipped stays so: no retry, late     *)
(* answer, late approval or cancellation touches it.                       *)
FinalRowsStay ==
  [][\A t \in Task : row[t] \in {"completed", "failed", "skipped"}
                      => row'[t] = row[t]]_vars

(* No agent is called for a subtask that has its result, nor once results  *)
(* are consolidated; in sequence, none before every earlier subtask has    *)
(* its result, however that one ended.                                     *)
CallDiscipline ==
  [][\A t \in Task : tries'[t] # tries[t] =>
       /\ main = "execute"
       /\ result[t] = "none"
       /\ parallel \/ \A u \in Task : u < t => result[u] # "none"]_vars

(* A subtask's agent is called in its turn, again until it answers, and no *)
(* more than that.                                                         *)
RetryDiscipline == []GivesUpOnlyAfterRetries /\ CallDiscipline

(* While a subtask waits for its reviewer the run is paused, unless it was *)
(* cancelled: the subtasks before it left no write behind.  Of two gated   *)
(* subtasks in parallel the first that ends its wait resumes the run.      *)
PausedWhileWaiting ==
  \A t \in Task :
    /\ At(t, "wait")
    /\ spent["cancel"] = 0
    /\ ~parallel \/ gated = {t}
    => run = "paused"

(* A reviewer decides before the agent is called, with the run paused.     *)
ApprovalsHold == GateHolds /\ PausedWhileWaiting

(* Liveness. *)

(* Every call of orchestrate settles, if nobody reviews too, unless the    *)
(* process dies or the call waits for ever for one who never answers: the  *)
(* supervisor, or an agent without a time limit.  With a limit no silent   *)
(* agent, and with either no silent reviewer, can hold it.                 *)
OrchestrationSettles ==
  \/ []<>(main \in {"end", "dead"})
  \/ <>[]AwaitsSupervisor
  \/ \E t \in Task : <>[]AwaitsAgent(t)

(* A run with an approved subtask does not stay paused, for whichever      *)
(* reason the wait ends, unless the process died or a write failed.        *)
ApprovedRunResumes ==
  \A t \in Task :
    run = "paused" /\ approval[t] = "approved"
      ~> run # "paused" \/ main = "dead" \/ spent["fault"] > 0

-----------------------------------------------------------------------------
(* What a test says, and the code does not do. *)

(* "orchestrate() retorna status=completed" (hierarchy-e2e.test.ts): an    *)
(* answer of the agent, with a database that takes the write, completes    *)
(* the subtask.                                                            *)
AnswerCompletes ==
  [][\A t \in Task : At(t, "complete") /\ pc'[t] # "complete" /\ spent' = spent
                      => result'[t] = "completed"]_vars
=============================================================================
