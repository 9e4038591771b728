-------------------------- MODULE OrchestratorProofs --------------------------
(***************************************************************************)
(* The safety of Orchestrator, for any number of subtasks and retries,     *)
(* either repository and any number of mishaps.  The inductive invariant   *)
(* says, for each subtask, what its position in executeWithRetry implies   *)
(* about its row, its approval and its attempts (TaskInv), and, for the    *)
(* whole, what the position of orchestrate implies about the subtasks and  *)
(* the run (MainInv).                                                      *)
(***************************************************************************)
EXTENDS Orchestrator, TLAPS

USE TasksAssumption, RetriesAssumption, LimitAssumption

Trying == {"call", "answer", "complete", "fail"}

AttemptInv(t) ==
  /\ tries[t] > 0 => pc[t] \in Trying \cup {"settled"}
  /\ pc[t] = "call" => tries[t] <= MaxRetries
  /\ pc[t] \in {"answer", "complete", "fail"} => tries[t] > 0
  /\ pc[t] = "fail" => tries[t] = MaxRetries + 1
  /\ abandoned[t] <= tries[t]
  /\ pc[t] = "answer" => abandoned[t] < tries[t]

GateInv(t) ==
  t \in gated /\ (pc[t] \in Trying \cup {"granted"} \/ tries[t] > 0)
    => approval[t] = "approved"

RowInv(t) ==
  /\ pc[t] \in {"idle", "create"} => row[t] = "none"
  /\ pc[t] \notin {"idle", "create", "settled"} => row[t] = "pending"
  /\ pc[t] = "settled" <=> result[t] # "none"
  /\ result[t] = "completed" <=> row[t] = "completed"
  /\ result[t] = "rejected" <=> row[t] = "skipped"
  /\ row[t] = "failed" => result[t] = "failed"
  /\ result[t] = "failed" /\ spent["fault"] = 0 => tries[t] = MaxRetries + 1

TaskInv(t) == AttemptInv(t) /\ GateInv(t) /\ RowInv(t)

AllIdle    == \A t \in Task : pc[t] = "idle"
AllSettled == \A t \in Task : pc[t] = "settled"
Reported   == {"completed", "partial", "failed"}

MainInv ==
  /\ main \in {"create", "start", "decompose"} => AllIdle
  /\ main \in {"consolidate", "finish", "catch"} => AllSettled
  /\ main = "end" => AllIdle \/ AllSettled
  /\ main = "end" <=> outcome # "none"
  /\ outcome \in Reported => AllSettled /\ outcome = Status
  /\ main = "catch" \/ outcome = "threw" => spent["fault"] > 0
  /\ outcome \in {"completed", "partial"} => run \in {"completed", "cancelled"}
  /\ outcome = "failed" => run \in {"failed", "cancelled"}
  /\ run = "completed" => outcome \in {"completed", "partial"}

SequenceInv ==
  ~parallel => \A t, u \in Task : u < t /\ pc[t] # "idle" => pc[u] = "settled"

IInv == TypeOK /\ (\A t \in Task : TaskInv(t)) /\ MainInv /\ SequenceInv

-----------------------------------------------------------------------------
(* The initial states satisfy the invariant. *)
LEMMA InitIInv == Init => IInv
  BY DEF Init, IInv, TypeOK, TaskInv, AttemptInv, GateInv, RowInv, MainInv,
         SequenceInv, AllIdle, AllSettled, Reported, Task, Mishaps, RunStatus,
         RowStatus, TaskPCs, MainPCs, Verdicts, Trying

(* A subtask that is under way is so while orchestrate awaits it. *)
LEMMA UnderWay ==
  ASSUME IInv, main # "dead", NEW t \in Task, pc[t] \notin {"idle", "settled"}
  PROVE  main = "execute"
  BY DEF IInv, TypeOK, MainInv, AllIdle, AllSettled, MainPCs

(* A step of one subtask preserves the invariant if it keeps the subtask's *)
(* own part and neither completes the run nor touches another subtask.     *)
LEMMA TaskStep ==
  ASSUME IInv, TypeOK', NEW t \in Task, main = "execute",
         pc[t] # "settled", pc'[t] # "idle",
         UNCHANGED <<gated, parallel, timed, supervised, asWritten, main, outcome>>,
         \A u \in Task \ {t} : /\ pc'[u] = pc[u] /\ tries'[u] = tries[u]
                               /\ abandoned'[u] = abandoned[u]
                               /\ row'[u] = row[u] /\ result'[u] = result[u]
                               /\ approval'[u] = approval[u],
         spent'["fault"] >= spent["fault"], run' = run \/ run' # "completed",
         pc[t] = "idle" => parallel \/ \A u \in Task : u < t => pc[u] = "settled",
         TaskInv(t)'
  PROVE  IInv'
<1>0. /\ spent["fault"] \in Nat /\ spent'["fault"] \in Nat
      /\ outcome = "none" /\ run # "completed"
  BY DEF IInv, TypeOK, MainInv, Mishaps
<1>1. ASSUME NEW u \in Task PROVE TaskInv(u)'
  <2>1. CASE u = t
    BY <2>1
  <2>2. CASE u # t
    <3>1. TaskInv(u)
      BY DEF IInv
    <3>2. /\ pc'[u] = pc[u] /\ tries'[u] = tries[u] /\ abandoned'[u] = abandoned[u]
          /\ row'[u] = row[u] /\ result'[u] = result[u]
          /\ approval'[u] = approval[u] /\ gated' = gated
      BY <2>2
    <3> QED
      BY <1>0, <3>1, <3>2 DEF TaskInv, AttemptInv, GateInv, RowInv, Trying
  <2> QED
    BY <2>1, <2>2
<1>2. MainInv'
  BY <1>0 DEF MainInv, Reported
<1>3. SequenceInv'
  <2>1. SUFFICES ASSUME ~parallel, NEW v \in Task, NEW u \in Task, u < v,
                        pc'[v] # "idle"
                 PROVE  pc'[u] = "settled"
    BY DEF SequenceInv
  <2>2. u # v /\ u \in Nat /\ v \in Nat
    BY <2>1 DEF Task
  <2>3. CASE v = t
    <3>1. pc[u] = "settled"
      BY <2>1, <2>3 DEF IInv, SequenceInv
    <3> QED
      BY <2>2, <2>3, <3>1
  <2>4. CASE v # t
    <3>1. pc[u] = "settled"
      BY <2>1, <2>4 DEF IInv, SequenceInv
    <3> QED
      BY <3>1
  <2> QED
    BY <2>3, <2>4
<1> QED
  BY <1>1, <1>2, <1>3 DEF IInv

-----------------------------------------------------------------------------
(* What the helpers of the actions do: subtask t is then at p with result  *)
(* r, and only t moved; the same for its row.                              *)
TaskMove(t, p, r) ==
  /\ pc' \in [Task -> TaskPCs] /\ pc'[t] = p
  /\ result' \in [Task -> Verdicts \cup {"none"}] /\ result'[t] = r
  /\ spent' \in [Mishaps -> Nat] /\ spent'["fault"] >= spent["fault"]
  /\ \A u \in Task \ {t} : pc'[u] = pc[u] /\ result'[u] = result[u]

RowMove(t, s) ==
  /\ row' \in [Task -> RowStatus] /\ row'[t] = s
  /\ \A u \in Task \ {t} : row'[u] = row[u]

LEMMA Columns ==
  ASSUME TypeOK
  PROVE  /\ pc \in [Task -> TaskPCs] /\ result \in [Task -> Verdicts \cup {"none"}]
         /\ spent \in [Mishaps -> Nat] /\ row \in [Task -> RowStatus]
         /\ "fault" \in Mishaps /\ spent["fault"] \in Nat
<1>1. /\ pc \in [Task -> TaskPCs] /\ result \in [Task -> Verdicts \cup {"none"}]
      /\ spent \in [Mishaps -> Nat] /\ row \in [Task -> RowStatus]
  BY Zenon DEF TypeOK
<1>2. "fault" \in Mishaps
  BY DEF Mishaps
<1> QED
  BY <1>1, <1>2

LEMMA GotoMoves ==
  ASSUME TypeOK, NEW t \in Task, NEW p \in TaskPCs, Goto(t, p)
  PROVE  TaskMove(t, p, result[t]) /\ spent' = spent
  BY Columns DEF Goto, TaskMove

LEMMA SettleMoves ==
  ASSUME TypeOK, NEW t \in Task, NEW v \in Verdicts, Settle(t, v)
  PROVE  TaskMove(t, "settled", v) /\ spent' = spent
<1>1. "settled" \in TaskPCs
  BY DEF TaskPCs
<1> QED
  BY <1>1, Columns DEF Settle, TaskMove

LEMMA FaultSpent ==
  ASSUME TypeOK, Spend("fault")
  PROVE  /\ spent' \in [Mishaps -> Nat]
         /\ spent'["fault"] > 0 /\ spent'["fault"] >= spent["fault"]
  BY Columns DEF Spend

LEMMA ThrowMoves ==
  ASSUME TypeOK, NEW t \in Task, Throw(t)
  PROVE  TaskMove(t, "settled", "failed") /\ spent'["fault"] > 0
<1>1. Spend("fault") /\ "settled" \in TaskPCs /\ "failed" \in Verdicts
  BY DEF Throw, TaskPCs, Verdicts
<1> QED
  BY <1>1, FaultSpent, Columns DEF Throw, TaskMove

(* A write that the database refuses, or that the repository does not take *)
(* as it is called.                                                        *)
Refused == StepCallRefused \/ Spend("fault")

LEMMA RefusedMoves ==
  ASSUME TypeOK, NEW t \in Task, NEW p \in TaskPCs,
         NEW r \in Verdicts \cup {"none"}, Refused,
         pc' = [pc EXCEPT ![t] = p], result' = [result EXCEPT ![t] = r]
  PROVE  TaskMove(t, p, r)
<1>1. spent' \in [Mishaps -> Nat] /\ spent'["fault"] >= spent["fault"]
  BY FaultSpent, Columns DEF Refused, StepCallRefused
<1> QED
  BY <1>1, Columns DEF TaskMove

LEMMA SetRowMoves ==
  ASSUME TypeOK, NEW t \in Task, NEW s \in RowStatus, SetRow(t, s)
  PROVE  RowMove(t, s)
  BY Columns DEF SetRow, RowMove

-----------------------------------------------------------------------------
(* The steps of a subtask. *)

(* A subtask begins.                                                       *)
LEMMA BeginKeeps == ASSUME IInv, NEW t \in Task, Begin(t) PROVE IInv'
<1>1. /\ TypeOK /\ TaskInv(t) /\ main = "execute"
      /\ pc[t] = "idle"
  BY DEF IInv, Begin
<1>2. CASE Goto(t, "create")
  <2>1. TaskMove(t, "create", result[t]) /\ spent' = spent
    BY <1>1, <1>2, GotoMoves DEF Begin, TaskPCs, Verdicts, RowStatus
  <2>2. TypeOK' /\ TaskInv(t)'
    BY <1>1, <1>2, <2>1 DEF Begin, TypeOK, TaskInv, AttemptInv, GateInv, RowInv,
       Trying, TaskMove, RowMove, RunStatus, options, db
  <2> QED
    BY <1>1, <1>2, <2>1, <2>2, TaskStep
       DEF Begin, TaskMove, RowMove, options, db
<1> QED
  BY <1>2 DEF Begin, Refused

(* The row is created, pending.                                            *)
LEMMA CreateStepKeeps == ASSUME IInv, NEW t \in Task, CreateStep(t) PROVE IInv'
<1>1. /\ TypeOK /\ TaskInv(t) /\ main = "execute"
      /\ pc[t] = "create"
  BY UnderWay DEF IInv, CreateStep, At
<1>2. CASE Goto(t, IF t \in gated THEN "pause" ELSE "call") /\ SetRow(t, "pending")
  <2>1. TaskMove(t, IF t \in gated THEN "pause" ELSE "call", result[t])
        /\ RowMove(t, "pending") /\ spent' = spent
    BY <1>1, <1>2, GotoMoves, SetRowMoves DEF CreateStep, TaskPCs, Verdicts, RowStatus
  <2>2. TypeOK' /\ TaskInv(t)'
    BY <1>1, <1>2, <2>1 DEF CreateStep, TypeOK, TaskInv, AttemptInv, GateInv, RowInv,
       Trying, TaskMove, RowMove, RunStatus, options, db
  <2> QED
    BY <1>1, <1>2, <2>1, <2>2, TaskStep
       DEF CreateStep, TaskMove, RowMove, options, db
<1>3. CASE Throw(t) /\ UNCHANGED row
  <2>1. TaskMove(t, "settled", "failed") /\ spent'["fault"] > 0
    BY <1>1, <1>3, ThrowMoves DEF CreateStep, TaskPCs, Verdicts, RowStatus
  <2>2. TypeOK' /\ TaskInv(t)'
    BY <1>1, <1>3, <2>1 DEF CreateStep, TypeOK, TaskInv, AttemptInv, GateInv, RowInv,
       Trying, TaskMove, RowMove, RunStatus, options, db
  <2> QED
    BY <1>1, <1>3, <2>1, <2>2, TaskStep
       DEF CreateStep, TaskMove, RowMove, options, db
<1> QED
  BY <1>2, <1>3 DEF CreateStep, Refused

(* The run is paused.                                                      *)
LEMMA PauseRunKeeps == ASSUME IInv, NEW t \in Task, PauseRun(t) PROVE IInv'
<1>1. /\ TypeOK /\ TaskInv(t) /\ main = "execute"
      /\ pc[t] = "pause"
  BY UnderWay DEF IInv, PauseRun, At
<1>2. CASE Goto(t, "request") /\ run' = "paused"
  <2>1. TaskMove(t, "request", result[t]) /\ spent' = spent
    BY <1>1, <1>2, GotoMoves DEF PauseRun, TaskPCs, Verdicts, RowStatus
  <2>2. TypeOK' /\ TaskInv(t)'
    BY <1>1, <1>2, <2>1 DEF PauseRun, TypeOK, TaskInv, AttemptInv, GateInv, RowInv,
       Trying, TaskMove, RowMove, RunStatus, options, db
  <2> QED
    BY <1>1, <1>2, <2>1, <2>2, TaskStep
       DEF PauseRun, TaskMove, RowMove, options, db
<1>3. CASE Throw(t) /\ UNCHANGED run
  <2>1. TaskMove(t, "settled", "failed") /\ spent'["fault"] > 0
    BY <1>1, <1>3, ThrowMoves DEF PauseRun, TaskPCs, Verdicts, RowStatus
  <2>2. TypeOK' /\ TaskInv(t)'
    BY <1>1, <1>3, <2>1 DEF PauseRun, TypeOK, TaskInv, AttemptInv, GateInv, RowInv,
       Trying, TaskMove, RowMove, RunStatus, options, db
  <2> QED
    BY <1>1, <1>3, <2>1, <2>2, TaskStep
       DEF PauseRun, TaskMove, RowMove, options, db
<1> QED
  BY <1>2, <1>3 DEF PauseRun, Refused

(* The approval is requested.                                              *)
LEMMA CreateApprovalKeeps == ASSUME IInv, NEW t \in Task, CreateApproval(t) PROVE IInv'
<1>1. /\ TypeOK /\ TaskInv(t) /\ main = "execute"
      /\ pc[t] = "request"
  BY UnderWay DEF IInv, CreateApproval, At
<1>2. CASE Goto(t, "wait") /\ approval' = [approval EXCEPT ![t] = "pending"]
  <2>1. TaskMove(t, "wait", result[t]) /\ spent' = spent
    BY <1>1, <1>2, GotoMoves DEF CreateApproval, TaskPCs, Verdicts, RowStatus
  <2>2. TypeOK' /\ TaskInv(t)'
    BY <1>1, <1>2, <2>1 DEF CreateApproval, TypeOK, TaskInv, AttemptInv, GateInv, RowInv,
       Trying, TaskMove, RowMove, RunStatus, options, db
  <2> QED
    BY <1>1, <1>2, <2>1, <2>2, TaskStep
       DEF CreateApproval, TaskMove, RowMove, options, db
<1>3. CASE Throw(t) /\ UNCHANGED approval
  <2>1. TaskMove(t, "settled", "failed") /\ spent'["fault"] > 0
    BY <1>1, <1>3, ThrowMoves DEF CreateApproval, TaskPCs, Verdicts, RowStatus
  <2>2. TypeOK' /\ TaskInv(t)'
    BY <1>1, <1>3, <2>1 DEF CreateApproval, TypeOK, TaskInv, AttemptInv, GateInv, RowInv,
       Trying, TaskMove, RowMove, RunStatus, options, db
  <2> QED
    BY <1>1, <1>3, <2>1, <2>2, TaskStep
       DEF CreateApproval, TaskMove, RowMove, options, db
<1> QED
  BY <1>2, <1>3 DEF CreateApproval, Refused

(* The wait ends: only an approval opens the gate.                         *)
LEMMA WaitForApprovalKeeps == ASSUME IInv, NEW t \in Task, WaitForApproval(t) PROVE IInv'
<1>1. /\ TypeOK /\ TaskInv(t) /\ main = "execute"
      /\ pc[t] = "wait"
  BY UnderWay DEF IInv, WaitForApproval, At
<1>2. CASE approval[t] = "approved" /\ Goto(t, "granted")
  <2>1. TaskMove(t, "granted", result[t]) /\ spent' = spent
    BY <1>1, <1>2, GotoMoves DEF WaitForApproval, TaskPCs, Verdicts, RowStatus
  <2>2. TypeOK' /\ TaskInv(t)'
    BY <1>1, <1>2, <2>1 DEF WaitForApproval, TypeOK, TaskInv, AttemptInv, GateInv, RowInv,
       Trying, TaskMove, RowMove, RunStatus, options, db
  <2> QED
    BY <1>1, <1>2, <2>1, <2>2, TaskStep
       DEF WaitForApproval, TaskMove, RowMove, options, db
<1>3. CASE Goto(t, "refused")
  <2>1. TaskMove(t, "refused", result[t]) /\ spent' = spent
    BY <1>1, <1>3, GotoMoves DEF WaitForApproval, TaskPCs, Verdicts, RowStatus
  <2>2. TypeOK' /\ TaskInv(t)'
    BY <1>1, <1>3, <2>1 DEF WaitForApproval, TypeOK, TaskInv, AttemptInv, GateInv, RowInv,
       Trying, TaskMove, RowMove, RunStatus, options, db
  <2> QED
    BY <1>1, <1>3, <2>1, <2>2, TaskStep
       DEF WaitForApproval, TaskMove, RowMove, options, db
<1>4. CASE Throw(t)
  <2>1. TaskMove(t, "settled", "failed") /\ spent'["fault"] > 0
    BY <1>1, <1>4, ThrowMoves DEF WaitForApproval, TaskPCs, Verdicts, RowStatus
  <2>2. TypeOK' /\ TaskInv(t)'
    BY <1>1, <1>4, <2>1 DEF WaitForApproval, TypeOK, TaskInv, AttemptInv, GateInv, RowInv,
       Trying, TaskMove, RowMove, RunStatus, options, db
  <2> QED
    BY <1>1, <1>4, <2>1, <2>2, TaskStep
       DEF WaitForApproval, TaskMove, RowMove, options, db
<1> QED
  BY <1>2, <1>3, <1>4 DEF WaitForApproval, Refused

(* The run is resumed.                                                     *)
LEMMA ResumeRunKeeps == ASSUME IInv, NEW t \in Task, ResumeRun(t) PROVE IInv'
<1>1. /\ TypeOK /\ TaskInv(t) /\ main = "execute"
      /\ pc[t] \in {"granted", "refused"}
  BY UnderWay DEF IInv, ResumeRun, At
<1>2. CASE pc[t] = "granted" /\ Goto(t, "call") /\ run' = "running"
  <2>1. TaskMove(t, "call", result[t]) /\ spent' = spent
    BY <1>1, <1>2, GotoMoves DEF ResumeRun, TaskPCs, Verdicts, RowStatus
  <2>2. TypeOK' /\ TaskInv(t)'
    BY <1>1, <1>2, <2>1 DEF ResumeRun, TypeOK, TaskInv, AttemptInv, GateInv, RowInv,
       Trying, TaskMove, RowMove, RunStatus, options, db
  <2> QED
    BY <1>1, <1>2, <2>1, <2>2, TaskStep
       DEF ResumeRun, TaskMove, RowMove, options, db
<1>3. CASE pc[t] = "refused" /\ Goto(t, "skip") /\ run' = "running"
  <2>1. TaskMove(t, "skip", result[t]) /\ spent' = spent
    BY <1>1, <1>3, GotoMoves DEF ResumeRun, TaskPCs, Verdicts, RowStatus
  <2>2. TypeOK' /\ TaskInv(t)'
    BY <1>1, <1>3, <2>1 DEF ResumeRun, TypeOK, TaskInv, AttemptInv, GateInv, RowInv,
       Trying, TaskMove, RowMove, RunStatus, options, db
  <2> QED
    BY <1>1, <1>3, <2>1, <2>2, TaskStep
       DEF ResumeRun, TaskMove, RowMove, options, db
<1>4. CASE Throw(t) /\ UNCHANGED run
  <2>1. TaskMove(t, "settled", "failed") /\ spent'["fault"] > 0
    BY <1>1, <1>4, ThrowMoves DEF ResumeRun, TaskPCs, Verdicts, RowStatus
  <2>2. TypeOK' /\ TaskInv(t)'
    BY <1>1, <1>4, <2>1 DEF ResumeRun, TypeOK, TaskInv, AttemptInv, GateInv, RowInv,
       Trying, TaskMove, RowMove, RunStatus, options, db
  <2> QED
    BY <1>1, <1>4, <2>1, <2>2, TaskStep
       DEF ResumeRun, TaskMove, RowMove, options, db
<1> QED
  BY <1>2, <1>3, <1>4 DEF ResumeRun, At

(* A refused subtask is skipped.                                           *)
LEMMA SkipStepKeeps == ASSUME IInv, NEW t \in Task, SkipStep(t) PROVE IInv'
<1>1. /\ TypeOK /\ TaskInv(t) /\ main = "execute"
      /\ pc[t] = "skip"
  BY UnderWay DEF IInv, SkipStep, At
<1>2. CASE Settle(t, "rejected") /\ SetRow(t, "skipped")
  <2>1. TaskMove(t, "settled", "rejected") /\ RowMove(t, "skipped") /\ spent' = spent
    BY <1>1, <1>2, SettleMoves, SetRowMoves DEF SkipStep, TaskPCs, Verdicts, RowStatus
  <2>2. TypeOK' /\ TaskInv(t)'
    BY <1>1, <1>2, <2>1 DEF SkipStep, TypeOK, TaskInv, AttemptInv, GateInv, RowInv,
       Trying, TaskMove, RowMove, RunStatus, options, db
  <2> QED
    BY <1>1, <1>2, <2>1, <2>2, TaskStep
       DEF SkipStep, TaskMove, RowMove, options, db
<1>3. CASE Throw(t) /\ UNCHANGED row
  <2>1. TaskMove(t, "settled", "failed") /\ spent'["fault"] > 0
    BY <1>1, <1>3, ThrowMoves DEF SkipStep, TaskPCs, Verdicts, RowStatus
  <2>2. TypeOK' /\ TaskInv(t)'
    BY <1>1, <1>3, <2>1 DEF SkipStep, TypeOK, TaskInv, AttemptInv, GateInv, RowInv,
       Trying, TaskMove, RowMove, RunStatus, options, db
  <2> QED
    BY <1>1, <1>3, <2>1, <2>2, TaskStep
       DEF SkipStep, TaskMove, RowMove, options, db
<1> QED
  BY <1>2, <1>3 DEF SkipStep, Refused

(* An attempt starts.                                                      *)
LEMMA CallAgentKeeps == ASSUME IInv, NEW t \in Task, CallAgent(t) PROVE IInv'
<1>1. /\ TypeOK /\ TaskInv(t) /\ main = "execute"
      /\ pc[t] = "call"
  BY UnderWay DEF IInv, CallAgent, At
<1>2. CASE Goto(t, "answer")
  <2>1. TaskMove(t, "answer", result[t]) /\ spent' = spent
    BY <1>1, <1>2, GotoMoves DEF CallAgent, TaskPCs, Verdicts, RowStatus
  <2>2. TypeOK' /\ TaskInv(t)'
    BY <1>1, <1>2, <2>1 DEF CallAgent, TypeOK, TaskInv, AttemptInv, GateInv, RowInv,
       Trying, TaskMove, RowMove, RunStatus, options, db
  <2> QED
    BY <1>1, <1>2, <2>1, <2>2, TaskStep
       DEF CallAgent, TaskMove, RowMove, options, db
<1> QED
  BY <1>2 DEF CallAgent, Refused

(* The agent answers.                                                      *)
LEMMA AnswerKeeps == ASSUME IInv, NEW t \in Task, Answer(t) PROVE IInv'
<1>1. /\ TypeOK /\ TaskInv(t) /\ main = "execute"
      /\ pc[t] = "answer"
  BY UnderWay DEF IInv, Answer, At
<1>2. CASE Goto(t, "complete")
  <2>1. TaskMove(t, "complete", result[t]) /\ spent' = spent
    BY <1>1, <1>2, GotoMoves DEF Answer, TaskPCs, Verdicts, RowStatus
  <2>2. TypeOK' /\ TaskInv(t)'
    BY <1>1, <1>2, <2>1 DEF Answer, TypeOK, TaskInv, AttemptInv, GateInv, RowInv,
       Trying, TaskMove, RowMove, RunStatus, options, db
  <2> QED
    BY <1>1, <1>2, <2>1, <2>2, TaskStep
       DEF Answer, TaskMove, RowMove, options, db
<1> QED
  BY <1>2 DEF Answer, Refused

(* The agent throws.                                                       *)
LEMMA AgentThrowsKeeps == ASSUME IInv, NEW t \in Task, AgentThrows(t) PROVE IInv'
<1>1. /\ TypeOK /\ TaskInv(t) /\ main = "execute"
      /\ pc[t] = "answer"
  BY UnderWay DEF IInv, AgentThrows, At
<1>2. CASE Goto(t, AfterAttempt(t))
  <2>1. TaskMove(t, AfterAttempt(t), result[t]) /\ spent' = spent
    BY <1>1, <1>2, GotoMoves DEF AgentThrows, TaskPCs, Verdicts, RowStatus, AfterAttempt
  <2>2. TypeOK' /\ TaskInv(t)'
    BY <1>1, <1>2, <2>1 DEF AgentThrows, TypeOK, TaskInv, AttemptInv, GateInv, RowInv,
       Trying, TaskMove, RowMove, RunStatus, options, db, AfterAttempt
  <2> QED
    BY <1>1, <1>2, <2>1, <2>2, TaskStep
       DEF AgentThrows, TaskMove, RowMove, options, db, AfterAttempt
<1> QED
  BY <1>2 DEF AgentThrows, Refused

(* The attempt times out.                                                  *)
LEMMA TimeOutKeeps == ASSUME IInv, NEW t \in Task, TimeOut(t) PROVE IInv'
<1>1. /\ TypeOK /\ TaskInv(t) /\ main = "execute"
      /\ pc[t] = "answer"
  BY UnderWay DEF IInv, TimeOut, At
<1>2. CASE Goto(t, AfterAttempt(t))
  <2>1. TaskMove(t, AfterAttempt(t), result[t]) /\ spent' = spent
    BY <1>1, <1>2, GotoMoves DEF TimeOut, TaskPCs, Verdicts, RowStatus, AfterAttempt
  <2>2. TypeOK' /\ TaskInv(t)'
    BY <1>1, <1>2, <2>1 DEF TimeOut, TypeOK, TaskInv, AttemptInv, GateInv, RowInv,
       Trying, TaskMove, RowMove, RunStatus, options, db, AfterAttempt
  <2> QED
    BY <1>1, <1>2, <2>1, <2>2, TaskStep
       DEF TimeOut, TaskMove, RowMove, options, db, AfterAttempt
<1> QED
  BY <1>2 DEF TimeOut, Refused

(* The answer is written, or the write refused.                            *)
LEMMA CompleteStepKeeps == ASSUME IInv, NEW t \in Task, CompleteStep(t) PROVE IInv'
<1>1. /\ TypeOK /\ TaskInv(t) /\ main = "execute"
      /\ pc[t] = "complete"
  BY UnderWay DEF IInv, CompleteStep, At
<1>2. CASE Settle(t, "completed") /\ SetRow(t, "completed")
  <2>1. TaskMove(t, "settled", "completed") /\ RowMove(t, "completed") /\ spent' = spent
    BY <1>1, <1>2, SettleMoves, SetRowMoves DEF CompleteStep, TaskPCs, Verdicts, RowStatus
  <2>2. TypeOK' /\ TaskInv(t)'
    BY <1>1, <1>2, <2>1 DEF CompleteStep, TypeOK, TaskInv, AttemptInv, GateInv, RowInv,
       Trying, TaskMove, RowMove, RunStatus, options, db, AfterAttempt
  <2> QED
    BY <1>1, <1>2, <2>1, <2>2, TaskStep
       DEF CompleteStep, TaskMove, RowMove, options, db, AfterAttempt
<1>3. CASE Refused /\ pc' = [pc EXCEPT ![t] = AfterAttempt(t)] /\ UNCHANGED <<row, result>>
  <2>1. TaskMove(t, AfterAttempt(t), result[t])
    BY <1>1, <1>3, RefusedMoves DEF CompleteStep, TaskPCs, Verdicts, RowStatus, AfterAttempt, TypeOK
  <2>2. TypeOK' /\ TaskInv(t)'
    BY <1>1, <1>3, <2>1 DEF CompleteStep, TypeOK, TaskInv, AttemptInv, GateInv, RowInv,
       Trying, TaskMove, RowMove, RunStatus, options, db, AfterAttempt
  <2> QED
    BY <1>1, <1>3, <2>1, <2>2, TaskStep
       DEF CompleteStep, TaskMove, RowMove, options, db, AfterAttempt
<1> QED
  BY <1>2, <1>3 DEF CompleteStep, Refused

(* The step is given up.                                                   *)
LEMMA FailStepKeeps == ASSUME IInv, NEW t \in Task, FailStep(t) PROVE IInv'
<1>1. /\ TypeOK /\ TaskInv(t) /\ main = "execute"
      /\ pc[t] = "fail"
  BY UnderWay DEF IInv, FailStep, At
<1>2. CASE Settle(t, "failed") /\ SetRow(t, "failed")
  <2>1. TaskMove(t, "settled", "failed") /\ RowMove(t, "failed") /\ spent' = spent
    BY <1>1, <1>2, SettleMoves, SetRowMoves DEF FailStep, TaskPCs, Verdicts, RowStatus
  <2>2. TypeOK' /\ TaskInv(t)'
    BY <1>1, <1>2, <2>1 DEF FailStep, TypeOK, TaskInv, AttemptInv, GateInv, RowInv,
       Trying, TaskMove, RowMove, RunStatus, options, db
  <2> QED
    BY <1>1, <1>2, <2>1, <2>2, TaskStep
       DEF FailStep, TaskMove, RowMove, options, db
<1>3. CASE /\ Refused /\ pc' = [pc EXCEPT ![t] = "settled"]
          /\ result' = [result EXCEPT ![t] = "failed"] /\ UNCHANGED row
  <2>1. TaskMove(t, "settled", "failed")
    BY <1>1, <1>3, RefusedMoves DEF FailStep, TaskPCs, Verdicts, RowStatus
  <2>2. TypeOK' /\ TaskInv(t)'
    BY <1>1, <1>3, <2>1 DEF FailStep, TypeOK, TaskInv, AttemptInv, GateInv, RowInv,
       Trying, TaskMove, RowMove, RunStatus, options, db
  <2> QED
    BY <1>1, <1>3, <2>1, <2>2, TaskStep
       DEF FailStep, TaskMove, RowMove, options, db
<1> QED
  BY <1>2, <1>3 DEF FailStep, Refused

-----------------------------------------------------------------------------
(* The other steps. *)

(* A task's part of the invariant reads its own columns and the count of   *)
(* failed calls; nothing else changes it.                                  *)
LEMMA TaskInvKept ==
  ASSUME TypeOK, NEW t \in Task, TaskInv(t),
         gated' = gated, row' = row, pc' = pc, tries' = tries,
         abandoned' = abandoned, result' = result,
         approval[t] = "approved" => approval'[t] = "approved",
         spent'["fault"] >= spent["fault"], spent'["fault"] \in Nat
  PROVE  TaskInv(t)'
<1>1. spent["fault"] \in Nat
  BY Columns
<1> QED
  BY <1>1 DEF TaskInv, AttemptInv, GateInv, RowInv, Trying

(* The steps of orchestrate itself. *)
LEMMA OrchestrateKeeps == ASSUME IInv, Orchestrate PROVE IInv'
<1>1. /\ TypeOK /\ MainInv /\ SequenceInv
      /\ UNCHANGED <<options, row, approval, pc, tries, abandoned, result>>
  BY DEF IInv, Orchestrate, CreateRun, StartRun, Decompose, Join, Consolidate,
         CloseRun, FailRun, db
<1>2. UNCHANGED spent \/ Spend("fault")
  BY DEF Orchestrate, CreateRun, StartRun, Decompose, Join, Consolidate,
         CloseRun, FailRun, Applied, Rejected
<1>3. /\ spent' \in [Mishaps -> Nat] /\ spent'["fault"] >= spent["fault"]
      /\ spent["fault"] \in Nat /\ spent'["fault"] \in Nat
  BY <1>1, <1>2, FaultSpent DEF TypeOK, Mishaps
<1>4. ASSUME NEW t \in Task PROVE TaskInv(t)'
  <2>1. /\ TaskInv(t) /\ gated' = gated /\ row' = row /\ pc' = pc
        /\ tries' = tries /\ abandoned' = abandoned /\ result' = result
        /\ approval' = approval
    BY <1>1 DEF IInv, options
  <2> QED
    BY <1>1, <1>3, <2>1, TaskInvKept
<1>5. SequenceInv'
  BY <1>1 DEF SequenceInv, options
<1>6. TypeOK' /\ MainInv'
  <2>1. Status \in Reported /\ (AllSettled' <=> AllSettled) /\ (AllIdle' <=> AllIdle)
        /\ Status' = Status
    BY <1>1 DEF Status, Succeeded, Reported, AllSettled, AllIdle
  <2>2. CASE CreateRun \/ StartRun
    BY <1>1, <1>2, <1>3, <2>1, <2>2, FaultSpent
       DEF CreateRun, StartRun, Applied, Rejected, TypeOK, MainInv, MainPCs,
           RunStatus, Reported, options
  <2>3. CASE Decompose \/ Join \/ Consolidate
    BY <1>1, <1>3, <2>1, <2>3
       DEF Decompose, Join, Consolidate, TypeOK, MainInv, MainPCs, AllSettled,
           Reported, options, db
  <2>4. CASE CloseRun
    <3>1. AllSettled /\ outcome = "none" /\ run # "completed" /\ run' \in RunStatus
      BY <1>1, <2>4 DEF CloseRun, MainInv, TypeOK, RunStatus
    <3>2. TypeOK'
      BY <1>1, <1>3, <2>1, <2>4, <3>1
         DEF CloseRun, Applied, Rejected, TypeOK, MainPCs, Reported, options
    <3> QED
      BY <1>1, <2>1, <2>4, <3>1, <3>2, FaultSpent
         DEF CloseRun, Applied, Rejected, MainInv, Reported
  <2>5. CASE FailRun
    <3>1. AllSettled /\ outcome = "none" /\ run # "completed"
      BY <1>1, <2>5 DEF FailRun, MainInv
    <3>2. TypeOK'
      BY <1>1, <1>3, <2>5 DEF FailRun, Applied, Rejected, TypeOK, MainPCs, RunStatus,
                              options
    <3>3. main' = "end" /\ outcome' = "threw" /\ run' # "completed"
      BY <2>5, <3>1 DEF FailRun, Applied, Rejected
    <3> QED
      BY <1>1, <1>3, <2>1, <2>5, <3>1, <3>2, <3>3 DEF FailRun, MainInv, Reported
  <2> QED
    BY <2>2, <2>3, <2>4, <2>5 DEF Orchestrate
<1> QED
  BY <1>4, <1>5, <1>6 DEF IInv

(* An abandoned call settles. *)
LEMMA LateAnswerKeeps == ASSUME IInv, NEW t \in Task, LateAnswer(t) PROVE IInv'
<1>1. TypeOK /\ TypeOK'
  BY DEF IInv, TypeOK, LateAnswer, options, db
<1>2. ASSUME NEW u \in Task PROVE TaskInv(u)'
  <2>1. TaskInv(u) /\ tries[u] \in Nat /\ abandoned[u] \in Nat
        /\ abandoned \in [Task -> 0..MaxRetries + 1]
    BY <1>1 DEF IInv, TypeOK
  <2>2. abandoned' = [abandoned EXCEPT ![t] = @ - 1] /\ abandoned[t] > 0
    BY DEF LateAnswer
  <2>3. abandoned'[u] <= abandoned[u]
    BY <2>1, <2>2
  <2> QED
    BY <2>1, <2>3, <1>1 DEF LateAnswer, TypeOK, TaskInv, AttemptInv, GateInv, RowInv, Trying,
                      options, db
<1>3. MainInv' /\ SequenceInv'
  BY DEF IInv, LateAnswer, MainInv, SequenceInv, AllIdle, AllSettled, Reported,
         Status, Succeeded, options, db
<1> QED
  BY <1>1, <1>2, <1>3 DEF IInv

(* A reviewer decides. *)
LEMMA DecideKeeps ==
  ASSUME IInv, NEW t \in Task, NEW d \in {"approved", "rejected"}, Decide(t, d)
  PROVE  IInv'
<1>1. TypeOK /\ TypeOK'
  BY DEF IInv, TypeOK, Decide, options
<1>2. ASSUME NEW u \in Task PROVE TaskInv(u)'
  <2>1. approval'[u] = approval[u] \/ approval[u] = "pending"
    BY <1>1 DEF Decide, TypeOK
  <2>2. /\ UNCHANGED <<gated, row, pc, tries, abandoned, result, spent>>
        /\ TaskInv(u)
    BY DEF Decide, options, IInv
  <2>3. spent'["fault"] >= spent["fault"] /\ spent'["fault"] \in Nat
    BY <1>1, <2>2, Columns
  <2> QED
    BY <1>1, <2>1, <2>2, <2>3, TaskInvKept
<1>3. MainInv' /\ SequenceInv'
  BY DEF IInv, Decide, MainInv, SequenceInv, AllIdle, AllSettled, Reported,
         Status, Succeeded, options
<1> QED
  BY <1>1, <1>2, <1>3 DEF IInv

(* The run is cancelled, or the process dies. *)
LEMMA MishapKeeps == ASSUME IInv, Cancel \/ Crash PROVE IInv'
<1>1. /\ TypeOK /\ UNCHANGED <<gated, parallel, timed, supervised, asWritten, row,
                              approval, pc, tries, abandoned, result, outcome>>
      /\ spent' \in [Mishaps -> Nat] /\ spent'["fault"] = spent["fault"]
  BY DEF IInv, TypeOK, Cancel, Crash, Spend, Mishaps, options, db
<1>2. TypeOK'
  BY <1>1 DEF TypeOK, Cancel, Crash, RunStatus, MainPCs, db
<1>3. ASSUME NEW t \in Task PROVE TaskInv(t)'
  <2>1. TaskInv(t) /\ spent'["fault"] >= spent["fault"] /\ spent'["fault"] \in Nat
    BY <1>1, Columns DEF IInv
  <2> QED
    BY <1>1, <2>1, TaskInvKept
<1>4. SequenceInv'
  BY <1>1 DEF IInv, SequenceInv
<1>5. MainInv'
  BY <1>1 DEF IInv, MainInv, Cancel, Crash, AllIdle, AllSettled, Reported, Status,
              Succeeded, db
<1> QED
  BY <1>2, <1>3, <1>4, <1>5 DEF IInv

LEMMA ExecuteKeeps == ASSUME IInv, NEW t \in Task, Execute(t) PROVE IInv'
  BY BeginKeeps, CreateStepKeeps, PauseRunKeeps, CreateApprovalKeeps,
     WaitForApprovalKeeps, ResumeRunKeeps, SkipStepKeeps, CallAgentKeeps,
     AnswerKeeps, AgentThrowsKeeps, TimeOutKeeps, CompleteStepKeeps, FailStepKeeps
     DEF Execute, Step

LEMMA StutterKeeps == ASSUME IInv, UNCHANGED vars PROVE IInv'
  BY DEF vars, IInv, TypeOK, TaskInv, AttemptInv, GateInv, RowInv, MainInv,
         SequenceInv, AllIdle, AllSettled, Reported, Status, Succeeded

LEMMA NextKeeps == IInv /\ [Next]_vars => IInv'
<1> SUFFICES ASSUME IInv, [Next]_vars PROVE IInv'
  OBVIOUS
<1>1. CASE Orchestrate
  BY <1>1, OrchestrateKeeps
<1>2. ASSUME NEW t \in Task, Execute(t) \/ LateAnswer(t) PROVE IInv'
  BY <1>2, ExecuteKeeps, LateAnswerKeeps
<1>3. ASSUME NEW t \in Task, NEW d \in {"approved", "rejected"}, Decide(t, d)
      PROVE IInv'
  BY <1>3, DecideKeeps
<1>4. CASE Cancel \/ Crash
  BY <1>4, MishapKeeps
<1>5. CASE UNCHANGED vars
  BY <1>5, StutterKeeps
<1> QED
  BY <1>1, <1>2, <1>3, <1>4, <1>5 DEF Next

(* IInv is an invariant of the specification. *)
LEMMA Inductive == Spec => []IInv
  BY InitIInv, NextKeeps, PTL DEF Spec

-----------------------------------------------------------------------------
(* The variables keep their types. *)
THEOREM TypeCorrect == Spec => []TypeOK
<1>1. IInv => TypeOK
  BY DEF IInv
<1> QED
  BY <1>1, Inductive, PTL

(* No gated subtask is executed before a reviewer approved it. *)
THEOREM GateIsKept == Spec => []GateHolds
<1>1. IInv => GateHolds
  BY DEF IInv, TaskInv, GateInv, GateHolds, TypeOK
<1> QED
  BY <1>1, Inductive, PTL

(* A subtask fails only after every attempt, unless a database call did. *)
THEOREM AllAttemptsMade == Spec => []GivesUpOnlyAfterRetries
<1>1. IInv => GivesUpOnlyAfterRetries
  BY DEF IInv, TaskInv, RowInv, GivesUpOnlyAfterRetries
<1> QED
  BY <1>1, Inductive, PTL

(* The status returned is the status written, or a later cancellation's. *)
THEOREM StatusWritten == Spec => []ReportedStatusWritten
<1>1. IInv => ReportedStatusWritten
  BY DEF IInv, TypeOK, MainInv, Reported, ReportedStatusWritten
<1> QED
  BY <1>1, Inductive, PTL

(* The status of the run and the statuses of its steps agree. *)
THEOREM StatusAgrees == Spec => []StatusMatchesRows
<1>1. ASSUME IInv PROVE StatusMatchesRows
  <2>1. \A t \in Task : result[t] = "completed" <=> row[t] = "completed"
    BY <1>1 DEF IInv, TaskInv, RowInv
  <2>2. outcome \in Reported => outcome = Status
    BY <1>1 DEF IInv, MainInv
  <2>3. run = "completed" => outcome \in {"completed", "partial"}
    BY <1>1 DEF IInv, MainInv
  <2>4. /\ Status = "completed" => Succeeded = Task
        /\ Status = "failed" => Succeeded = {}
        /\ Status = "partial" => Succeeded # {}
        /\ Task # {}
    BY DEF Status, Task
  <2> QED
    BY <2>1, <2>2, <2>3, <2>4 DEF StatusMatchesRows, Succeeded, Reported
<1> QED
  BY <1>1, Inductive, PTL

-----------------------------------------------------------------------------
(* Only the step that settles a subtask writes its final row. *)
LEMMA RowsStayStep ==
  IInv /\ [Next]_vars =>
    \A t \in Task : row[t] \in {"completed", "failed", "skipped"} => row'[t] = row[t]
<1> SUFFICES ASSUME IInv, [Next]_vars, NEW t \in Task,
                    row[t] \in {"completed", "failed", "skipped"}
             PROVE  row'[t] = row[t]
  OBVIOUS
<1>1. pc[t] = "settled" /\ row \in [Task -> RowStatus]
  BY DEF IInv, TypeOK, TaskInv, RowInv
<1>2. ASSUME NEW u \in Task, pc[u] # "settled", NEW s, SetRow(u, s)
      PROVE  row'[t] = row[t]
  BY <1>1, <1>2 DEF SetRow
<1>3. CASE row' = row
  BY <1>3
<1>4. ASSUME NEW u \in Task, Execute(u) PROVE row'[t] = row[t]
  <2>1. row' = row \/ (pc[u] # "settled" /\ \E s \in RowStatus : SetRow(u, s))
    BY <1>4 DEF Execute, Step, Begin, CreateStep, PauseRun, CreateApproval, WaitForApproval,
         ResumeRun, SkipStep, CallAgent, Answer, AgentThrows, TimeOut, CompleteStep,
         FailStep, At, db, RowStatus
  <2> QED
    BY <2>1, <1>2
<1> QED
  BY <1>3, <1>4 DEF Next, Orchestrate, CreateRun, StartRun, Decompose, Join,
     Consolidate, CloseRun, FailRun, LateAnswer, Decide, Cancel, Crash, vars, db

(* A final row stays as it is. *)
THEOREM RowsStay == Spec => FinalRowsStay
<1>1. IInv /\ [Next]_vars =>
        [\A t \in Task : row[t] \in {"completed", "failed", "skipped"}
                          => row'[t] = row[t]]_vars
  BY RowsStayStep
<1> QED
  BY <1>1, Inductive, PTL DEF Spec, FinalRowsStay

(* An agent is called for an open subtask, in turn. *)
LEMMA CallsDisciplined ==
  IInv /\ [Next]_vars =>
    \A t \in Task : tries'[t] # tries[t] =>
       /\ main = "execute"
       /\ result[t] = "none"
       /\ parallel \/ \A u \in Task : u < t => result[u] # "none"
<1> SUFFICES ASSUME IInv, [Next]_vars, NEW t \in Task, tries'[t] # tries[t]
             PROVE  /\ main = "execute"
                    /\ result[t] = "none"
                    /\ parallel \/ \A u \in Task : u < t => result[u] # "none"
  OBVIOUS
<1>1. \E u \in Task : CallAgent(u)
  BY DEF Next, Orchestrate, CreateRun, StartRun, Decompose, Join, Consolidate,
         CloseRun, FailRun, Execute, Step, Begin, CreateStep, PauseRun, CreateApproval,
         WaitForApproval, ResumeRun, SkipStep, Answer, AgentThrows, TimeOut,
         CompleteStep, FailStep, LateAnswer, Decide, Cancel, Crash, vars
<1>2. CallAgent(t)
  BY <1>1 DEF CallAgent, IInv, TypeOK
<1>3. main # "dead" /\ pc[t] = "call"
  BY <1>2 DEF CallAgent, At
<1>4. main = "execute"
  BY <1>3, UnderWay
<1>5. \A u \in Task : pc[u] = "settled" <=> result[u] # "none"
  BY DEF IInv, TaskInv, RowInv
<1> QED
  BY <1>3, <1>4, <1>5 DEF IInv, SequenceInv

(* No agent is called out of turn, or for a subtask that has its result. *)
THEOREM CallsInTurn == Spec => CallDiscipline
<1>1. IInv /\ [Next]_vars =>
        [\A t \in Task : tries'[t] # tries[t] =>
           /\ main = "execute"
           /\ result[t] = "none"
           /\ parallel \/ \A u \in Task : u < t => result[u] # "none"]_vars
  BY CallsDisciplined
<1> QED
  BY <1>1, Inductive, PTL DEF Spec, CallDiscipline
-----------------------------------------------------------------------------

-----------------------------------------------------------------------------
(* The pause. *)

Gate == {"pause", "request", "wait", "granted", "refused", "skip"}

(* Only gated subtasks pass the gate, and from the pause to the end of the  *)
(* wait the run is paused.                                                  *)
PauseInv ==
  /\ \A t \in Task : pc[t] \in Gate => t \in gated
  /\ \A t \in Task :
       /\ main # "dead" /\ pc[t] \in {"request", "wait"}
       /\ spent["cancel"] = 0
       /\ ~parallel \/ gated = {t}
       => run = "paused"

LEMMA PauseInit == Init => PauseInv
  BY DEF Init, PauseInv, Gate

(* What a step of a subtask does to the gate and to the run.                *)
LEMMA GateMoves ==
  ASSUME IInv, NEW u \in Task, Execute(u)
  PROVE  /\ UNCHANGED <<gated, parallel, main>> /\ main # "dead"
         /\ spent'["cancel"] = spent["cancel"]
         /\ \A t \in Task \ {u} : pc'[t] = pc[t]
         /\ pc'[u] \in Gate => u \in gated \/ pc[u] \in Gate
         /\ pc'[u] = "request" => run' = "paused"
         /\ pc'[u] = "wait" => pc[u] = "request" /\ run' = run
         /\ \/ run' = run
            \/ run' = "paused"
            \/ pc[u] \in {"granted", "refused"}
<1>t. pc \in [Task -> TaskPCs] /\ spent \in [Mishaps -> Nat]
  BY Columns DEF IInv
<1>s. Spend("fault") => spent'["cancel"] = spent["cancel"]
  BY <1>t DEF Spend, Mishaps
<1> USE DEF options, db, Gate
<1>1. CASE Begin(u)
  BY <1>1, <1>t DEF Begin, Goto
<1>2. CASE CreateStep(u)
  BY <1>2, <1>t, <1>s DEF CreateStep, Goto, Throw, At
<1>3. CASE PauseRun(u)
  BY <1>3, <1>t, <1>s DEF PauseRun, Goto, Throw, At
<1>4. CASE CreateApproval(u)
  BY <1>4, <1>t, <1>s DEF CreateApproval, Goto, Throw, At
<1>5. CASE WaitForApproval(u)
  BY <1>5, <1>t, <1>s DEF WaitForApproval, Goto, Throw, At
<1>6. CASE ResumeRun(u)
  BY <1>6, <1>t, <1>s DEF ResumeRun, Goto, Throw, At
<1>7. CASE SkipStep(u)
  BY <1>7, <1>t, <1>s DEF SkipStep, Settle, Throw, At
<1>8. CASE CallAgent(u) \/ Answer(u)
  BY <1>8, <1>t DEF CallAgent, Answer, Goto, At
<1>9. CASE AgentThrows(u) \/ TimeOut(u)
  BY <1>9, <1>t DEF AgentThrows, TimeOut, Goto, At, AfterAttempt
<1>10. CASE CompleteStep(u)
  BY <1>10, <1>t, <1>s DEF CompleteStep, Settle, At, StepCallRefused, AfterAttempt
<1>11. CASE FailStep(u)
  BY <1>11, <1>t, <1>s DEF FailStep, Settle, At, StepCallRefused
<1> QED
  BY <1>1, <1>2, <1>3, <1>4, <1>5, <1>6, <1>7, <1>8, <1>9, <1>10, <1>11 DEF Execute, Step

LEMMA PauseStep == IInv /\ PauseInv /\ [Next]_vars => PauseInv'
<1> SUFFICES ASSUME IInv, PauseInv, [Next]_vars PROVE PauseInv'
  OBVIOUS
<1>t. spent \in [Mishaps -> Nat] /\ {"cancel", "crash", "fault"} \subseteq Mishaps
  BY Columns DEF IInv, Mishaps
<1>1. CASE Orchestrate
  <2>1. UNCHANGED <<gated, pc>>
    BY <1>1 DEF Orchestrate, CreateRun, StartRun, Decompose, Join, Consolidate,
                CloseRun, FailRun, options
  <2>2. run' = run \/ main \in {"create", "start", "finish", "catch"}
    BY <1>1 DEF Orchestrate, CreateRun, StartRun, Decompose, Join, Consolidate,
                CloseRun, FailRun, db
  <2>3. main \in {"create", "start", "finish", "catch"} =>
          \A t \in Task : pc[t] \in {"idle", "settled"}
    BY DEF IInv, MainInv, AllIdle, AllSettled
  <2>4. UNCHANGED parallel /\ main # "dead" /\ spent'["cancel"] = spent["cancel"]
    BY <1>1, <1>t DEF Orchestrate, CreateRun, StartRun, Decompose, Join, Consolidate,
                CloseRun, FailRun, options, Applied, Rejected, Spend
  <2> QED
    BY <2>1, <2>2, <2>3, <2>4 DEF PauseInv
<1>2. ASSUME NEW u \in Task, Execute(u) PROVE PauseInv'
  <2>1. /\ UNCHANGED <<gated, parallel, main>> /\ main # "dead"
        /\ spent'["cancel"] = spent["cancel"]
        /\ \A t \in Task \ {u} : pc'[t] = pc[t]
        /\ pc'[u] \in Gate => u \in gated \/ pc[u] \in Gate
        /\ pc'[u] = "request" => run' = "paused"
        /\ pc'[u] = "wait" => pc[u] = "request" /\ run' = run
        /\ \/ run' = run
           \/ run' = "paused"
           \/ pc[u] \in {"granted", "refused"}
    BY <1>2, GateMoves
  <2>2. \A t \in Task : pc'[t] \in Gate => t \in gated'
    BY <2>1 DEF PauseInv
  <2>3. ASSUME NEW t \in Task, pc'[t] \in {"request", "wait"},
               spent'["cancel"] = 0, ~parallel \/ gated = {t}
        PROVE  run' = "paused"
    <3>1. CASE t = u
      BY <2>1, <2>3, <3>1 DEF PauseInv
    <3>2. CASE t # u
      <4>1. pc[t] \in {"request", "wait"} /\ run = "paused"
        BY <2>1, <2>3, <3>2 DEF PauseInv
      <4>2. pc[u] \notin {"granted", "refused"}
        <5>1. CASE gated = {t}
          BY <3>2, <5>1 DEF PauseInv, Gate
        <5>2. CASE ~parallel
          <6>1. t \in Nat /\ u \in Nat
            BY DEF Task
          <6>2. t < u \/ u < t
            BY <3>2, <6>1
          <6> QED
            BY <4>1, <5>2, <6>2 DEF IInv, SequenceInv
        <5> QED
          BY <2>3, <5>1, <5>2
      <4> QED
        BY <2>1, <4>1, <4>2
    <3> QED
      BY <3>1, <3>2
  <2> QED
    BY <2>1, <2>2, <2>3 DEF PauseInv
<1>3. ASSUME NEW u \in Task, LateAnswer(u) PROVE PauseInv'
  BY <1>3 DEF LateAnswer, PauseInv, options, db
<1>4. ASSUME NEW u \in Task, NEW d \in {"approved", "rejected"}, Decide(u, d)
      PROVE  PauseInv'
  BY <1>4 DEF Decide, PauseInv, options
<1>5. CASE Cancel
  <2>1. UNCHANGED <<gated, pc>> /\ spent'["cancel"] # 0
    BY <1>5, <1>t DEF Cancel, Spend, options
  <2> QED
    BY <2>1 DEF PauseInv
<1>6. CASE Crash
  BY <1>6 DEF Crash, PauseInv, options
<1>7. CASE UNCHANGED vars
  BY <1>7 DEF vars, PauseInv
<1> QED
  BY <1>1, <1>2, <1>3, <1>4, <1>5, <1>6, <1>7 DEF Next

-----------------------------------------------------------------------------
(* The properties that the runs check. *)

(* A reviewer approved before the agent is called, and the run is paused    *)
(* while a subtask waits for the reviewer.                                  *)
THEOREM ApprovalsAreHeld == Spec => []ApprovalsHold
<1>1. IInv /\ PauseInv => ApprovalsHold
  BY DEF IInv, TaskInv, GateInv, GateHolds, TypeOK, PauseInv, PausedWhileWaiting,
         ApprovalsHold, At
<1> QED
  BY <1>1, Inductive, PauseInit, PauseStep, PTL DEF Spec

(* The status of the run, the answer of orchestrate and the rows agree.     *)
THEOREM StatusTold == Spec => []StatusIsTrue
<1>1. TypeOK /\ ReportedStatusWritten /\ StatusMatchesRows => StatusIsTrue
  BY DEF StatusIsTrue
<1> QED
  BY <1>1, TypeCorrect, StatusWritten, StatusAgrees, PTL

(* A subtask's agent is called in its turn, and as often as it may be       *)
(* before the subtask is given up.                                          *)
THEOREM RetriesInOrder == Spec => RetryDiscipline
  BY AllAttemptsMade, CallsInTurn, PTL DEF RetryDiscipline
=============
