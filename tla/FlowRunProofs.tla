---------------------------- MODULE FlowRunProofs ----------------------------
(***************************************************************************)
(* Proofs about FlowRun, for every set of flows and every bound: its       *)
(* safety properties, that it implements FlowSearch, and what FlowSearch   *)
(* promises.  Then about RunQueue, the queue through which runs are        *)
(* executed.                                                               *)
(***************************************************************************)
EXTENDS FlowRun, RunQueue, SequenceTheorems, WellFoundedInduction, TLAPS

USE NodeAssumption, FlowAssumption, BoundAssumption

-----------------------------------------------------------------------------
(* Lemmas on the operators. *)

(* The entry resolution of executeRun always yields a node identifier.      *)
LEMMA EntryNode ==
  ASSUME NEW f \in Flows, f.ids # <<>>
  PROVE  Entry(f) \in Node
<1> DEFINE inputs == {i \in DOMAIN f.ids : f.kind[f.ids[i]] = "input"}
<1>1. f.ids \in Seq(Node) /\ f.entry \in Node \cup {NoNode}
  BY DEF Flow
<1>2. DOMAIN f.ids = 1..Len(f.ids) /\ Len(f.ids) \in Nat \ {0}
  BY <1>1, EmptySeq, LenProperties
<1>3. CASE f.entry # NoNode
  BY <1>1, <1>3 DEF Entry
<1>4. CASE f.entry = NoNode /\ inputs # {}
  <2>1. inputs \subseteq Nat
    BY <1>2
  <2> DEFINE below == {ss \in Nat \X Nat : ss[1] < ss[2]}
  <2>a. IsWellFoundedOn(below, Nat)
    BY NatLessThanWellFounded DEF OpToRel
  <2> HIDE DEF inputs, below
  <2>2. PICK i \in inputs : \A j \in inputs : ~(<<j, i>> \in below)
    BY <1>4, <2>1, <2>a, WFMin
  <2>3. ASSUME NEW j \in inputs PROVE i <= j
    <3>1. i \in Nat /\ j \in Nat
      BY <2>1, <2>2
    <3>2. j < i => <<j, i>> \in below
      BY <3>1 DEF below
    <3> QED
      BY <2>2, <3>1, <3>2
  <2> USE DEF inputs
  <2>4. (CHOOSE k \in inputs : \A j \in inputs : k <= j) \in DOMAIN f.ids
    BY <2>3
  <2> QED
    BY <1>1, <1>2, <1>4, <2>4, ElementOfSeq DEF Entry
<1>5. CASE f.entry = NoNode /\ inputs = {}
  BY <1>1, <1>2, <1>5, ElementOfSeq DEF Entry
<1> QED
  BY <1>3, <1>4, <1>5

(* Writing the status of the last row changes nothing else of the table.    *)
LEMMA SetStepRow ==
  ASSUME steps \in Seq(StepRow), NEW s \in StepStatus, SetStep(s)
  PROVE  /\ steps' \in Seq(StepRow)
         /\ Len(steps') = Len(steps)
         /\ DOMAIN steps = 1..Len(steps) /\ DOMAIN steps' = 1..Len(steps)
         /\ \A i \in 1..Len(steps) :
              /\ steps'[i].node = steps[i].node
              /\ steps'[i].attempt = steps[i].attempt
              /\ steps'[i].status = IF i = Len(steps) THEN s ELSE steps[i].status
<1> DEFINE n == Len(steps)
           newRow == [steps[n] EXCEPT !.status = s]
<1>1. steps' = [steps EXCEPT ![n] = newRow] /\ n \in Nat
  BY LenProperties DEF SetStep
<1>2. CASE n = 0
  <2>1. steps' = steps
    BY <1>1, <1>2, EmptySeq, LenProperties
  <2> QED
    BY <2>1, <1>2
<1>3. CASE n # 0
  <2>1. n \in 1..n
    BY <1>1, <1>3
  <2>2. \A i \in 1..n : steps[i] \in StepRow
    BY ElementOfSeq
  <2>3. newRow \in StepRow
    BY <2>1, <2>2 DEF StepRow
  <2>4. /\ steps' \in Seq(StepRow)
        /\ Len(steps') = n
        /\ \A j \in 1..n : steps'[j] = IF j = n THEN newRow ELSE steps[j]
    BY <1>1, <2>1, <2>3, ExceptSeq
  <2>5. newRow.node = steps[n].node /\ newRow.attempt = steps[n].attempt /\ newRow.status = s
    BY <2>1, <2>2 DEF StepRow
  <2>6. DOMAIN steps' = 1..n
    BY <2>4, LenProperties
  <2>7. DOMAIN steps = 1..n
    BY LenProperties
  <2> QED
    BY <2>4, <2>5, <2>6, <2>7
<1> QED
  BY <1>2, <1>3, LenProperties

(* A new row comes last and changes no other.                               *)
LEMMA AppendRow ==
  ASSUME steps \in Seq(StepRow), NEW newRow \in StepRow, steps' = Append(steps, newRow)
  PROVE  /\ Len(steps') = Len(steps) + 1 /\ Len(steps) \in Nat
         /\ DOMAIN steps = 1..Len(steps) /\ DOMAIN steps' = 1..(Len(steps) + 1)
         /\ \A i \in 1..Len(steps) : steps'[i] = steps[i]
         /\ steps'[Len(steps) + 1] = newRow
  BY AppendProperties, LenProperties

(* What a worklist holds after a push and before a pop.                     *)
LEMMA RangeConcat ==
  ASSUME NEW S, NEW s \in Seq(S), NEW t \in Seq(S)
  PROVE  Range(s \o t) = Range(s) \cup Range(t)
<1> DEFINE m == Len(s)
           n == Len(t)
<1>1. /\ m \in Nat /\ n \in Nat
      /\ DOMAIN s = 1..m /\ DOMAIN t = 1..n
  BY LenProperties
<1>2. /\ DOMAIN (s \o t) = 1..(m + n)
      /\ \A i \in 1..(m + n) : (s \o t)[i] = IF i <= m THEN s[i] ELSE t[i - m]
  BY <1>1, ConcatProperties, LenProperties
<1>3. \A i \in 1..(m + n) : (s \o t)[i] \in Range(s) \cup Range(t)
  <2>1. \A i \in 1..(m + n) : i <= m => i \in DOMAIN s
    BY <1>1
  <2>2. \A i \in 1..(m + n) : ~(i <= m) => i - m \in DOMAIN t
    BY <1>1
  <2> QED
    BY <1>2, <2>1, <2>2 DEF Range
<1>4. \A i \in DOMAIN s : s[i] \in Range(s \o t)
  BY <1>1, <1>2 DEF Range
<1>5. \A i \in DOMAIN t : t[i] \in Range(s \o t)
  <2>1. \A i \in DOMAIN t : i + m \in 1..(m + n) /\ ~(i + m <= m) /\ (i + m) - m = i
    BY <1>1
  <2> QED
    BY <1>2, <2>1 DEF Range
<1> QED
  BY <1>2, <1>3, <1>4, <1>5 DEF Range

LEMMA RangeHeadTail ==
  ASSUME NEW S, NEW s \in Seq(S), s # <<>>
  PROVE  Range(s) = {Head(s)} \cup Range(Tail(s))
<1>1. /\ Len(s) \in Nat \ {0} /\ DOMAIN s = 1..Len(s)
      /\ Tail(s) \in Seq(S) /\ Len(Tail(s)) = Len(s) - 1
      /\ DOMAIN Tail(s) = 1..(Len(s) - 1)
      /\ \A i \in 1..(Len(s) - 1) : Tail(s)[i] = s[i + 1]
      /\ Head(s) = s[1]
  BY EmptySeq, HeadTailProperties, LenProperties
<1>2. \A i \in DOMAIN s : i = 1 \/ (i - 1 \in DOMAIN Tail(s) /\ Tail(s)[i - 1] = s[i])
  <2>1. \A i \in DOMAIN s : i = 1 \/ (i - 1 \in 1..(Len(s) - 1) /\ (i - 1) + 1 = i)
    BY <1>1
  <2> QED
    BY <1>1, <2>1
<1>3. \A i \in DOMAIN Tail(s) : i + 1 \in DOMAIN s /\ Tail(s)[i] = s[i + 1]
  BY <1>1
<1>4. 1 \in DOMAIN s
  BY <1>1
<1>5. \A i \in DOMAIN s : s[i] \in {Head(s)} \cup Range(Tail(s))
  BY <1>1, <1>2 DEF Range
<1>6. Head(s) \in Range(s) /\ \A i \in DOMAIN Tail(s) : Tail(s)[i] \in Range(s)
  BY <1>1, <1>3, <1>4 DEF Range
<1>7. Range(s) \subseteq {Head(s)} \cup Range(Tail(s))
  BY <1>5 DEF Range
<1>8. Range(Tail(s)) \subseteq Range(s)
  BY <1>6 DEF Range
<1> QED
  BY <1>6, <1>7, <1>8

(* A mishap is counted; nothing else is spent.                              *)
LEMMA SpendType ==
  ASSUME spent \in [Mishaps -> Nat], NEW m \in Mishaps, Spend(m)
  PROVE  spent' \in [Mishaps -> Nat]
  BY DEF Spend

(* A database call of the executor goes on to one of two places.            *)
LEMMA CallType ==
  ASSUME spent \in [Mishaps -> Nat], NEW a, NEW b, Applied(a) \/ Rejected(b)
  PROVE  spent' \in [Mishaps -> Nat] /\ pc' \in {a, b}
  BY SpendType DEF Applied, Rejected, Mishaps

-----------------------------------------------------------------------------
(* Type correctness. *)

TypeInv == TypeOK /\ (pc \in StepPCs => cur \in Node)

LEMMA TypeInit == Init => TypeInv
<1> SUFFICES ASSUME Init PROVE TypeInv
  OBVIOUS
<1>1. <<>> \in Seq(StepRow) /\ <<>> \in Seq(Node) /\ <<>> \in Seq(Event)
  BY EmptySeq
<1> QED
  BY <1>1 DEF Init, TypeInv, TypeOK, RunStatus, PCs, StepPCs, Mishaps

LEMMA TypeStep == TypeInv /\ [Next]_vars => TypeInv'
<1> SUFFICES ASSUME TypeInv, [Next]_vars PROVE TypeInv'
  OBVIOUS
<1> USE DEF TypeInv, TypeOK, PCs, StepPCs, db, local
<1>f. flow \in Flow
  OBVIOUS
<1>1. CASE Invoke
  BY <1>1 DEF Invoke
<1>2. CASE BeginRun
  <2>1. Applied("load") \/ Rejected("idle")
    BY <1>2 DEF BeginRun
  <2>2. spent' \in [Mishaps -> Nat] /\ pc' \in {"load", "idle"}
    BY <2>1, CallType
  <2> QED
    BY <1>2, <2>2 DEF BeginRun, RunStatus
<1>3. CASE LoadRun
  <2>1. CASE flow.ids # <<>> /\ Applied("walk") /\ queue' = <<Entry(flow)>>
    <3>1. queue' \in Seq(Node)
      BY <2>1, EntryNode
    <3> QED
      BY <1>3, <2>1, <3>1 DEF LoadRun, Applied
  <2>2. CASE UNCHANGED local
    BY <1>3, <2>2, SpendType DEF LoadRun, Applied, Rejected, Mishaps
  <2> QED
    BY <1>3, <2>1, <2>2 DEF LoadRun
<1>4. CASE SkipVisited
  BY <1>4, HeadTailProperties DEF SkipVisited
<1>5. CASE MissingNode
  BY <1>5, HeadTailProperties DEF MissingNode, Take
<1>6. CASE PassThrough
  <2>1. Head(queue) \in Node /\ Tail(queue) \in Seq(Node)
    BY <1>6, HeadTailProperties DEF PassThrough, Take
  <2>2. queue' \in Seq(Node)
    BY <1>6, <1>f, <2>1, ConcatProperties DEF PassThrough, Flow
  <2> QED
    BY <1>6, <2>1, <2>2 DEF PassThrough, Take
<1>7. CASE CreateStep
  <2>1. Head(queue) \in Node /\ Tail(queue) \in Seq(Node)
    BY <1>7, HeadTailProperties DEF CreateStep, Take
  <2> DEFINE newRow == [node |-> Head(queue), status |-> "pending", attempt |-> attempt]
  <2>2. newRow \in StepRow
    BY <2>1 DEF StepRow, StepStatus
  <2>3. Append(steps, newRow) \in Seq(StepRow)
    BY <2>2, AppendProperties
  <2>4. steps' \in Seq(StepRow)
    BY <1>7, <2>3 DEF CreateStep
  <2> QED
    BY <1>7, <2>1, <2>4, CallType DEF CreateStep, Take
<1>8. CASE ClaimStep
  <2>1. steps' \in Seq(StepRow)
    BY <1>8, SetStepRow DEF ClaimStep, StepStatus
  <2> QED
    BY <1>8, <2>1, CallType DEF ClaimStep
<1>9. CASE FetchStep
  BY <1>9, CallType DEF FetchStep
<1>10. CASE LoseStep
  <2>1. steps' \in Seq(StepRow)
    BY <1>10, SetStepRow DEF LoseStep, StepStatus
  <2> QED
    BY <1>10, <2>1, CallType DEF LoseStep
<1>11. ASSUME NEW s \in StepStatus, Emit(s)
       PROVE  events' \in Seq(Event)
  <2>1. [step |-> Len(steps), status |-> s] \in Event
    BY LenProperties DEF Event
  <2> QED
    BY <1>11, <2>1, AppendProperties DEF Emit
<1>12. CASE EmitRunning
  BY <1>11, <1>12 DEF EmitRunning, StepStatus
<1>13. CASE Work
  <2>1. cur \in Node
    BY <1>13 DEF Work
  <2>2. \A b \in BOOLEAN : flow.branch[cur][b] \in Node \cup {NoNode}
    BY <1>f, <2>1 DEF Flow
  <2>3. chosen' \in [Node -> Node \cup {NoNode}]
    BY <1>13, <2>2 DEF Work
  <2> QED
    BY <1>13, <2>3 DEF Work
<1>14. CASE CompleteStep
  <2>1. steps' \in Seq(StepRow)
    BY <1>14, SetStepRow DEF CompleteStep, StepStatus
  <2> QED
    BY <1>14, <2>1, CallType DEF CompleteStep
<1>15. CASE LeaveStep
  <2>1. events' \in Seq(Event)
    BY <1>11, <1>15 DEF LeaveStep, StepStatus
  <2>2. cur \in Node
    BY <1>15 DEF LeaveStep
  <2> DEFINE next == IF flow.kind[cur] # "condition" THEN flow.out[cur]
                     ELSE IF chosen[cur] = NoNode THEN <<>> ELSE <<chosen[cur]>>
  <2>3. flow.out[cur] \in Seq(Node) /\ <<>> \in Seq(Node)
    BY <1>f, <2>2 DEF Flow
  <2>4. chosen[cur] # NoNode => <<chosen[cur]>> \in Seq(Node)
    BY <2>2
  <2>5. next \in Seq(Node)
    BY <2>3, <2>4
  <2>6. queue' = queue \o next
    BY <1>15 DEF LeaveStep
  <2>7. queue' \in Seq(Node)
    BY <2>5, <2>6, ConcatProperties
  <2> QED
    BY <1>15, <2>1, <2>7 DEF LeaveStep
<1>16. CASE FailStep
  <2>1. steps' \in Seq(StepRow)
    BY <1>16, SetStepRow DEF FailStep, StepStatus
  <2> QED
    BY <1>16, <2>1, CallType DEF FailStep
<1>17. CASE EmitFailed
  BY <1>11, <1>17 DEF EmitFailed, StepStatus
<1>18. CASE CompleteRun
  <2>1. Applied("idle") \/ Rejected("fail")
    BY <1>18 DEF CompleteRun
  <2>2. spent' \in [Mishaps -> Nat] /\ pc' \in {"idle", "fail"}
    BY <2>1, CallType
  <2> QED
    BY <1>18, <2>2 DEF CompleteRun, RunStatus
<1>19. CASE FailRun
  <2>1. Applied("idle") \/ Rejected("idle")
    BY <1>19 DEF FailRun
  <2>2. spent' \in [Mishaps -> Nat] /\ pc' \in {"idle", "idle"}
    BY <2>1, CallType
  <2> QED
    BY <1>19, <2>2 DEF FailRun, RunStatus
<1>20. CASE Cancel
  BY <1>20, SpendType DEF Mishaps, Cancel, RunStatus
<1>21. CASE Crash
  BY <1>21, SpendType DEF Mishaps, Crash
<1>22. CASE UNCHANGED vars
  BY <1>22 DEF vars
<1> QED
  BY <1>1, <1>2, <1>3, <1>4, <1>5, <1>6, <1>7, <1>8, <1>9, <1>10, <1>12,
     <1>13, <1>14, <1>15, <1>16, <1>17, <1>18, <1>19, <1>20, <1>21, <1>22
     DEF Next, Executor

(* Every variable keeps its type, for every set of flows and every bound.   *)
THEOREM TypeCorrect == Spec => []TypeOK
<1>1. Spec => []TypeInv
  BY TypeInit, TypeStep, PTL DEF Spec
<1> QED
  BY <1>1, PTL DEF TypeInv

-----------------------------------------------------------------------------
(* The table of steps: one step per node, one open step at a time.          *)

Own(i) == steps[i].attempt = attempt

(* The rows of an execution, by where it is: none before the traversal, all *)
(* completed between two nodes, and all but the last inside a step.         *)
StepsInv ==
  /\ \A i \in DOMAIN steps : steps[i].attempt <= attempt
  /\ pc \in {"begin", "load"} => \A i \in DOMAIN steps : ~Own(i)
  /\ pc = "walk" => \A i \in DOMAIN steps :
                      Own(i) => steps[i].status = "completed" /\ steps[i].node \in visited
  /\ pc \in StepPCs =>
       /\ Len(steps) # 0
       /\ Own(Len(steps))
       /\ steps[Len(steps)].node = cur
       /\ \A i \in DOMAIN steps :
            Own(i) => /\ steps[i].node \in visited
                      /\ i # Len(steps) => steps[i].status = "completed"
  /\ pc = "emitDone" => steps[Len(steps)].status = "completed"
  /\ OneStepPerNode
  /\ OnlyLastStepOpen

(* The entry is known, and every node visited and left led to known nodes   *)
(* and, if it needs a step, has one that completed.                         *)
Left(n) == /\ Exists(flow, n)
           /\ Followed(n) \subseteq visited \cup Range(queue)
           /\ flow.kind[n] \in {"condition", "agent"} =>
                \E i \in DOMAIN steps : /\ steps[i].node = n
                                        /\ steps[i].attempt = attempt
                                        /\ steps[i].status = "completed"

WorklistInv ==
  /\ pc = "walk" => cur = NoNode
  /\ pc \in {"walk"} \cup StepPCs =>
       /\ Entry(flow) \in visited \cup Range(queue)
       /\ \A n \in visited \ {cur} : Left(n)
  /\ pc \in StepPCs => /\ Exists(flow, cur)
                       /\ flow.kind[cur] \in {"condition", "agent"}
                       /\ cur \in visited
  /\ outcome = "resolved" => pc = "idle" /\ ResolvedMeansExecuted

LEMMA StepsInit == Init => StepsInv
  BY DEF Init, StepsInv, StepPCs, OneStepPerNode, OnlyLastStepOpen

LEMMA StepsStep == TypeInv /\ StepsInv /\ [Next]_vars => StepsInv'
<1> SUFFICES ASSUME TypeInv, StepsInv, [Next]_vars PROVE StepsInv'
  OBVIOUS
<1>t. steps \in Seq(StepRow) /\ attempt \in Nat /\ Len(steps) \in Nat
      /\ DOMAIN steps = 1..Len(steps)
  BY LenProperties DEF TypeInv, TypeOK
<1> USE DEF StepsInv, OneStepPerNode, OnlyLastStepOpen, Own, local, db
<1>1. CASE Invoke
  <2>1. \A i \in DOMAIN steps : steps[i].attempt \in Nat
    <3>1. \A i \in DOMAIN steps : steps[i] \in StepRow
      BY <1>t, ElementOfSeq
    <3> QED
      BY <3>1 DEF StepRow, TypeInv, TypeOK
  <2>2. \A i \in DOMAIN steps : steps[i].attempt <= attempt
    OBVIOUS
  <2>3. \A i \in DOMAIN steps : steps[i].attempt <= attempt + 1 /\ steps[i].attempt # attempt + 1
    BY <1>t, <2>1, <2>2
  <2>4. steps' = steps /\ attempt' = attempt + 1 /\ pc' = "begin"
    BY <1>1 DEF Invoke
  <2> QED
    BY <2>3, <2>4 DEF StepPCs
<1>2. CASE BeginRun
  BY <1>2 DEF BeginRun, Applied, Rejected, StepPCs
<1>3. CASE LoadRun
  BY <1>3 DEF LoadRun, Applied, Rejected, StepPCs
<1>4. CASE SkipVisited \/ MissingNode \/ PassThrough
  BY <1>4 DEF SkipVisited, MissingNode, PassThrough, Take, StepPCs
<1>5. CASE CreateStep
  <2> DEFINE newRow == [node |-> Head(queue), status |-> "pending", attempt |-> attempt]
  <2>1. CASE Applied("claim") /\ steps' = Append(steps, newRow)
    <3>1. newRow \in StepRow
      BY <1>5, HeadTailProperties DEF CreateStep, Take, TypeInv, TypeOK, StepRow, StepStatus
    <3>2. /\ Len(steps') = Len(steps) + 1
          /\ DOMAIN steps' = 1..(Len(steps) + 1)
          /\ \A i \in 1..Len(steps) : steps'[i] = steps[i]
          /\ steps'[Len(steps) + 1] = newRow
      BY <1>t, <2>1, <3>1, AppendRow
    <3>3. \A i \in DOMAIN steps : Own(i) => steps[i].status = "completed"
                                         /\ steps[i].node \in visited
      BY <1>5 DEF CreateStep, Take
    <3>4. newRow.node \notin visited /\ newRow.node = cur' /\ newRow.attempt = attempt
          /\ visited' = visited \cup {newRow.node} /\ attempt' = attempt /\ pc' = "claim"
      BY <1>5, <2>1 DEF CreateStep, Take, Applied
    <3> HIDE DEF newRow
    <3> QED
      BY <1>t, <3>2, <3>3, <3>4 DEF StepPCs
  <2>2. CASE Rejected("fail") /\ UNCHANGED steps
    BY <1>5, <2>2 DEF CreateStep, Rejected, StepPCs
  <2> QED
    BY <1>5, <2>1, <2>2 DEF CreateStep
<1>6. ASSUME NEW s \in StepStatus, SetStep(s), pc \in StepPCs,
             UNCHANGED <<attempt, visited, cur>>,
             pc' \in StepPCs \cup {"fail"}, pc' = "emitDone" => s = "completed"
      PROVE  StepsInv'
  <2>1. /\ Len(steps') = Len(steps)
        /\ DOMAIN steps' = 1..Len(steps)
        /\ \A i \in 1..Len(steps) :
              /\ steps'[i].node = steps[i].node
              /\ steps'[i].attempt = steps[i].attempt
              /\ steps'[i].status = IF i = Len(steps) THEN s ELSE steps[i].status
    BY <1>t, <1>6, SetStepRow
  <2> QED
    BY <1>t, <1>6, <2>1 DEF StepPCs
<1>7. CASE ClaimStep
  <2>1. CASE Applied("fetch") /\ SetStep("running")
    BY <1>6, <1>7, <2>1 DEF ClaimStep, Applied, StepPCs, StepStatus
  <2>2. CASE Rejected("fail") /\ UNCHANGED steps
    BY <1>7, <2>2 DEF ClaimStep, Rejected, StepPCs
  <2> QED
    BY <1>7, <2>1, <2>2 DEF ClaimStep
<1>12. CASE LoseStep
  <2>1. CASE Applied("fail") /\ SetStep("failed")
    BY <1>6, <1>12, <2>1 DEF LoseStep, Applied, StepPCs, StepStatus
  <2>2. CASE Rejected("fail") /\ UNCHANGED steps
    BY <1>12, <2>2 DEF LoseStep, Rejected, StepPCs
  <2> QED
    BY <1>12, <2>1, <2>2 DEF LoseStep
<1>13. CASE CompleteStep
  <2>1. CASE Applied("emitDone") /\ SetStep("completed")
    BY <1>6, <1>13, <2>1 DEF CompleteStep, Applied, StepPCs, StepStatus
  <2>2. CASE Rejected("writeFailed") /\ UNCHANGED steps
    BY <1>13, <2>2 DEF CompleteStep, Rejected, StepPCs
  <2> QED
    BY <1>13, <2>1, <2>2 DEF CompleteStep
<1>14. CASE FailStep
  <2>1. CASE Applied("emitFailed") /\ SetStep("failed")
    BY <1>6, <1>14, <2>1 DEF FailStep, Applied, StepPCs, StepStatus
  <2>2. CASE Rejected("fail") /\ UNCHANGED steps
    BY <1>14, <2>2 DEF FailStep, Rejected, StepPCs
  <2> QED
    BY <1>14, <2>1, <2>2 DEF FailStep
<1>8. CASE FetchStep \/ EmitRunning \/ Work \/ EmitFailed
  BY <1>8 DEF FetchStep, EmitRunning, Work, EmitFailed, Applied, Rejected, StepPCs
<1>9. CASE LeaveStep
  BY <1>9, <1>t DEF LeaveStep, StepPCs
<1>10. CASE CompleteRun \/ FailRun \/ Crash
  BY <1>10 DEF CompleteRun, FailRun, Crash, Applied, Rejected, StepPCs
<1>11. CASE Cancel \/ UNCHANGED vars
  BY <1>11 DEF Cancel, vars
<1> QED
  BY <1>1, <1>2, <1>3, <1>4, <1>5, <1>7, <1>8, <1>9, <1>10, <1>11, <1>12, <1>13, <1>14
     DEF Next, Executor

-----------------------------------------------------------------------------
(* The worklist: no node that was led to is lost. *)

(* A node left stays left while the known nodes grow, its branch and its    *)
(* completed step stay, and the execution is the same.                      *)
LEMMA LeftKept ==
  ASSUME NEW n, Left(n), UNCHANGED <<flow, attempt>>, chosen'[n] = chosen[n],
         visited \cup Range(queue) \subseteq (visited \cup Range(queue))',
         \A i \in DOMAIN steps :
           steps[i].node = n =>
             /\ i \in DOMAIN steps'
             /\ steps'[i].node = steps[i].node
             /\ steps'[i].attempt = steps[i].attempt
             /\ steps'[i].status = steps[i].status
  PROVE  Left(n)'
<1>1. Exists(flow, n)' /\ Followed(n)' = Followed(n) /\ flow' = flow
  BY DEF Left, Exists, Followed
<1>2. Followed(n)' \subseteq (visited \cup Range(queue))'
  BY <1>1 DEF Left
<1>3. (\E i \in DOMAIN steps : /\ steps[i].node = n
                              /\ steps[i].attempt = attempt
                              /\ steps[i].status = "completed")
      => (\E i \in DOMAIN steps : /\ steps[i].node = n
                                 /\ steps[i].attempt = attempt
                                 /\ steps[i].status = "completed")'
  OBVIOUS
<1> QED
  BY <1>1, <1>2, <1>3 DEF Left

LEMMA WorklistInit == Init => WorklistInv
  BY DEF Init, WorklistInv, StepPCs

LEMMA WorklistStep ==
  TypeInv /\ StepsInv /\ WorklistInv /\ [Next]_vars => WorklistInv'
<1> SUFFICES ASSUME TypeInv, StepsInv, WorklistInv, [Next]_vars PROVE WorklistInv'
  OBVIOUS
<1>t. /\ steps \in Seq(StepRow) /\ DOMAIN steps = 1..Len(steps) /\ Len(steps) \in Nat
      /\ queue \in Seq(Node) /\ flow \in Flow
      /\ pc \in StepPCs => cur \in Node
  BY LenProperties DEF TypeInv, TypeOK
<1>e. UNCHANGED flow => Entry(flow)' = Entry(flow)
  BY DEF Entry
<1> USE DEF WorklistInv, local, db
<1>1. CASE Invoke
  BY <1>1 DEF Invoke, StepPCs
<1>2. CASE BeginRun
  BY <1>2 DEF BeginRun, Applied, Rejected, StepPCs
<1>3. CASE LoadRun
  <2>1. CASE Applied("walk") /\ queue' = <<Entry(flow)>> /\ visited' = {} /\ cur' = NoNode
    <3>1. Range(queue') = {Entry(flow)}
      BY <2>1 DEF Range
    <3> QED
      BY <1>e, <1>3, <2>1, <3>1 DEF LoadRun, Applied, StepPCs
  <2>2. CASE pc' = "fail" /\ UNCHANGED outcome
    BY <1>3, <2>2 DEF LoadRun, StepPCs
  <2> QED
    BY <1>3, <2>1, <2>2 DEF LoadRun, Applied, Rejected
<1>4. CASE SkipVisited
  <2>1. Range(queue) = {Head(queue)} \cup Range(queue')
    BY <1>4, <1>t, RangeHeadTail DEF SkipVisited
  <2>2. (visited \cup Range(queue))' = visited \cup Range(queue)
    BY <1>4, <2>1 DEF SkipVisited
  <2>3. \A n \in visited : Left(n) => Left(n)'
    BY <1>4, <2>2, LeftKept DEF SkipVisited
  <2> QED
    BY <1>e, <1>4, <2>2, <2>3 DEF SkipVisited, StepPCs
<1>5. CASE MissingNode
  BY <1>5 DEF MissingNode, Take, StepPCs
<1>6. CASE PassThrough
  <2>0. PICK h \in Node : h = Head(queue)
    BY <1>6, <1>t, HeadTailProperties DEF PassThrough, Take
  <2>1. Range(queue) = {h} \cup Range(Tail(queue)) /\ Tail(queue) \in Seq(Node)
    BY <1>6, <1>t, <2>0, RangeHeadTail, HeadTailProperties DEF PassThrough, Take
  <2>a. flow.out[h] \in Seq(Node) /\ queue' = Tail(queue) \o flow.out[h]
    BY <1>6, <1>t, <2>0 DEF PassThrough, Flow
  <2>z. \A t \in Seq(Node) : Range(Tail(queue) \o t) = Range(Tail(queue)) \cup Range(t)
    BY <2>1, RangeConcat
  <2>2. Range(queue') = Range(Tail(queue)) \cup Range(flow.out[h])
    BY <2>a, <2>z
  <2>3. visited' = visited \cup {h}
    BY <1>6, <2>0 DEF PassThrough, Take
  <2>b. visited \cup Range(queue) \subseteq (visited \cup Range(queue))'
    BY <2>1, <2>2, <2>3
  <2>c. /\ UNCHANGED <<flow, attempt, steps, chosen, cur, pc, outcome>> /\ pc = "walk"
        /\ Exists(flow, h) /\ flow.kind[h] \in {"input", "output"}
    BY <1>6, <2>0 DEF PassThrough, Take
  <2>4. \A n \in visited : Left(n) => Left(n)'
    BY <2>b, <2>c, LeftKept
  <2>5. Left(h)'
    <3>1. Followed(h)' = Range(flow.out[h])
      BY <2>c DEF Followed
    <3> QED
      BY <2>2, <2>c, <3>1 DEF Left, Exists
  <2> QED
    BY <1>e, <2>b, <2>c, <2>3, <2>4, <2>5 DEF StepPCs
<1>7. CASE CreateStep
  <2> DEFINE h == Head(queue)
             newRow == [node |-> h, status |-> "pending", attempt |-> attempt]
  <2>1. Range(queue) = {h} \cup Range(Tail(queue)) /\ h \in Node
    BY <1>7, <1>t, RangeHeadTail, HeadTailProperties DEF CreateStep, Take
  <2>2. visited' = visited \cup {h} /\ queue' = Tail(queue) /\ cur' = h
    BY <1>7 DEF CreateStep, Take
  <2>3. CASE Applied("claim") /\ steps' = Append(steps, newRow)
    <3>1. newRow \in StepRow
      BY <1>7, <2>1 DEF TypeInv, TypeOK, StepRow, StepStatus
    <3>2. /\ DOMAIN steps' = 1..(Len(steps) + 1)
          /\ \A i \in 1..Len(steps) : steps'[i] = steps[i]
      BY <1>t, <2>3, <3>1, AppendRow
    <3>3. \A i \in DOMAIN steps : i \in DOMAIN steps' /\ steps'[i] = steps[i]
      BY <1>t, <3>2
    <3>4. \A n \in visited : Left(n) => Left(n)'
      BY <1>7, <2>1, <2>2, <3>3, LeftKept DEF CreateStep
    <3>5. /\ UNCHANGED <<flow, chosen, outcome>> /\ pc = "walk" /\ pc' = "claim"
          /\ Exists(flow, h) /\ flow.kind[h] \in {"condition", "agent"}
      BY <1>7, <2>3 DEF CreateStep, Take, Applied
    <3>6. visited \cup Range(queue) \subseteq (visited \cup Range(queue))'
      BY <2>1, <2>2
    <3>7. NoNode \notin visited
      BY DEF TypeInv, TypeOK
    <3> HIDE DEF h, newRow
    <3> QED
      BY <1>e, <2>2, <3>4, <3>5, <3>6, <3>7 DEF StepPCs, Exists
  <2>4. CASE Rejected("fail")
    BY <1>7, <2>4 DEF CreateStep, Take, Rejected, StepPCs
  <2> QED
    BY <1>7, <2>3, <2>4 DEF CreateStep
<1>8. ASSUME NEW s \in StepStatus, SetStep(s), pc \in StepPCs,
             UNCHANGED <<flow, local, outcome, attempt>>, pc' \in StepPCs \cup {"fail"}
      PROVE  WorklistInv'
  <2>1. /\ DOMAIN steps' = 1..Len(steps)
        /\ \A i \in 1..Len(steps) :
              /\ steps'[i].node = steps[i].node
              /\ steps'[i].attempt = steps[i].attempt
              /\ i # Len(steps) => steps'[i].status = steps[i].status
    BY <1>t, <1>8, SetStepRow
  <2>2. steps[Len(steps)].node = cur
    BY <1>8 DEF StepsInv
  <2>3. \A n \in visited \ {cur} : Left(n) => Left(n)'
    BY <1>t, <1>8, <2>1, <2>2, LeftKept
  <2> QED
    BY <1>e, <1>8, <2>3 DEF StepPCs, Exists
<1>9. ASSUME pc \in StepPCs, UNCHANGED <<flow, steps, queue, visited, cur, outcome, attempt>>,
             pc' \in StepPCs \cup {"fail"}, \A n \in Node \ {cur} : chosen'[n] = chosen[n]
      PROVE  WorklistInv'
  <2>1. visited \subseteq Node
    BY DEF TypeInv, TypeOK
  <2>2. \A n \in visited \ {cur} : Left(n) => Left(n)'
    BY <1>9, <2>1, LeftKept
  <2> QED
    BY <1>e, <1>9, <2>2 DEF StepPCs, Exists
<1>10. CASE ClaimStep
  BY <1>8, <1>9, <1>10 DEF ClaimStep, Applied, Rejected, StepPCs, StepStatus
<1>11. CASE FetchStep
  BY <1>9, <1>11 DEF FetchStep, Applied, Rejected, StepPCs
<1>12. CASE LoseStep
  BY <1>8, <1>9, <1>12 DEF LoseStep, Applied, Rejected, StepPCs, StepStatus
<1>13. CASE EmitRunning
  BY <1>9, <1>13 DEF EmitRunning, StepPCs
<1>14. CASE Work
  <2>1. \A n \in Node \ {cur} : chosen'[n] = chosen[n]
    BY <1>14 DEF Work, TypeInv, TypeOK
  <2> QED
    BY <1>9, <1>14, <2>1 DEF Work, StepPCs
<1>15. CASE CompleteStep
  BY <1>8, <1>9, <1>15 DEF CompleteStep, Applied, Rejected, StepPCs, StepStatus
<1>16. CASE LeaveStep
  <2> DEFINE next == IF flow.kind[cur] # "condition" THEN flow.out[cur]
                     ELSE IF chosen[cur] = NoNode THEN <<>> ELSE <<chosen[cur]>>
  <2>1. cur \in Node /\ chosen[cur] \in Node \cup {NoNode}
    BY <1>16, <1>t DEF LeaveStep, StepPCs, TypeInv, TypeOK
  <2>2. next \in Seq(Node) /\ Range(next) = Followed(cur)
    <3>1. CASE flow.kind[cur] # "condition"
      BY <1>t, <2>1, <3>1 DEF Flow, Followed
    <3>2. CASE flow.kind[cur] = "condition" /\ chosen[cur] = NoNode
      BY <3>2, EmptySeq DEF Followed, Range
    <3>3. CASE flow.kind[cur] = "condition" /\ chosen[cur] # NoNode
      BY <2>1, <3>3 DEF Followed, Range
    <3> QED
      BY <3>1, <3>2, <3>3
  <2>a. queue' = queue \o next
    BY <1>16 DEF LeaveStep
  <2> HIDE DEF next
  <2>3. Range(queue') = Range(queue) \cup Followed(cur)
    BY <1>t, <2>a, <2>2, RangeConcat
  <2>b. /\ UNCHANGED <<flow, attempt, steps, chosen, visited, outcome>>
        /\ cur' = NoNode /\ pc' = "walk" /\ pc = "emitDone"
    BY <1>16 DEF LeaveStep
  <2>4. \A n \in visited : Left(n) => Left(n)'
    BY <2>3, <2>b, LeftKept
  <2>5. /\ steps[Len(steps)].node = cur
        /\ steps[Len(steps)].attempt = attempt
        /\ steps[Len(steps)].status = "completed"
        /\ Len(steps) \in DOMAIN steps
    BY <1>16, <1>t DEF LeaveStep, StepsInv, StepPCs, Own
  <2>c. visited \cup Range(queue) \subseteq (visited \cup Range(queue))'
    BY <2>3, <2>b
  <2>d. NoNode \notin visited /\ pc \in StepPCs /\ Exists(flow, cur)
    BY <2>b DEF TypeInv, TypeOK, StepPCs
  <2>6. \A n : n = cur => Left(n)'
    <3> SUFFICES ASSUME NEW n, n = cur PROVE Left(n)'
      OBVIOUS
    <3>1. Followed(n)' = Followed(cur)
      BY <2>b DEF Followed
    <3>2. Exists(flow, n)'
      BY <2>b, <2>d DEF Exists
    <3> QED
      BY <2>3, <2>5, <2>b, <3>1, <3>2 DEF Left
  <2> QED
    BY <1>e, <2>c, <2>d, <2>4, <2>6, <2>b DEF StepPCs
<1>17. CASE FailStep
  BY <1>8, <1>9, <1>17 DEF FailStep, Applied, Rejected, StepPCs, StepStatus
<1>18. CASE EmitFailed
  BY <1>9, <1>18 DEF EmitFailed, StepPCs
<1>19. CASE CompleteRun
  <2>1. CASE Applied("idle") /\ outcome' = "resolved"
    <3>1. Range(queue) = {} /\ cur = NoNode /\ NoNode \notin visited
      BY <1>19 DEF CompleteRun, Range, TypeInv, TypeOK
    <3>2. Entry(flow) \in visited /\ \A n \in visited : Left(n)
      BY <1>19, <3>1 DEF CompleteRun
    <3>4. UNCHANGED <<flow, steps, local, attempt>> /\ pc' = "idle"
      BY <1>19, <2>1 DEF CompleteRun, Applied
    <3>5. ResolvedMeansExecuted'
      BY <1>e, <3>1, <3>2, <3>4 DEF ResolvedMeansExecuted, Left, Followed, Exists
    <3> QED
      BY <3>4, <3>5 DEF StepPCs
  <2>2. CASE Rejected("fail") /\ UNCHANGED <<run, outcome>>
    BY <1>19, <2>2 DEF CompleteRun, Rejected, StepPCs
  <2> QED
    BY <1>19, <2>1, <2>2 DEF CompleteRun
<1>20. CASE FailRun
  BY <1>20 DEF FailRun, Applied, Rejected, StepPCs
<1>21. CASE Crash
  BY <1>21 DEF Crash, StepPCs
<1>22. CASE Cancel \/ UNCHANGED vars
  <2>1. UNCHANGED <<flow, steps, pc, outcome, local, attempt>>
    BY <1>22 DEF Cancel, vars
  <2> QED
    BY <1>e, <2>1 DEF Left, ResolvedMeansExecuted, Followed, Exists
<1> QED
  BY <1>1, <1>2, <1>3, <1>4, <1>5, <1>6, <1>7, <1>10, <1>11, <1>12, <1>13, <1>14,
     <1>15, <1>16, <1>17, <1>18, <1>19, <1>20, <1>21, <1>22 DEF Next, Executor

-----------------------------------------------------------------------------
(* Events and rows. *)

(* An event is about the last row and comes after all others.               *)
LEMMA EmitEvent ==
  ASSUME events \in Seq(Event), NEW s, Emit(s)
  PROVE  /\ Len(events) \in Nat /\ DOMAIN events = 1..Len(events)
         /\ DOMAIN events' = 1..(Len(events) + 1)
         /\ \A i \in 1..Len(events) : events'[i] = events[i]
         /\ events'[Len(events) + 1] = [step |-> Len(steps), status |-> s]
  BY AppendProperties, LenProperties DEF Emit

(* What was announced of the last row, by where its execution is.           *)
EventsInv ==
  /\ EventsReflectRows
  /\ EventsInOrder
  /\ pc \in {"fetch", "emitRunning"} => steps[Len(steps)].status = "running"
  /\ pc = "emitFailed" => steps[Len(steps)].status = "failed"
  /\ pc \in {"claim", "fetch", "emitRunning", "writeLost"} =>
       \A i \in DOMAIN events : events[i].step # Len(steps)
  /\ pc \in {"work", "writeDone", "writeFailed", "emitDone", "emitFailed"} =>
       \A i \in DOMAIN events :
         events[i].step = Len(steps) => events[i].status = "running"

(* Reflecting rows, event by event.                                         *)
Reflected(es, rows) ==
  \A i \in DOMAIN es : /\ es[i].step \in DOMAIN rows
                       /\ rows[es[i].step].status \in Announces(es[i].status)

LEMMA ReflectedForm == /\ EventsReflectRows <=> Reflected(events, steps)
                       /\ EventsReflectRows' <=> Reflected(events', steps')
  BY DEF EventsReflectRows, Reflected, Range

LEMMA EventsInit == Init => EventsInv
  BY DEF Init, EventsInv, EventsReflectRows, EventsInOrder, Range

LEMMA EventsStep == TypeInv /\ StepsInv /\ EventsInv /\ [Next]_vars => EventsInv'
<1> SUFFICES ASSUME TypeInv, StepsInv, EventsInv, [Next]_vars PROVE EventsInv'
  OBVIOUS
<1>t. /\ steps \in Seq(StepRow) /\ DOMAIN steps = 1..Len(steps) /\ Len(steps) \in Nat
      /\ events \in Seq(Event) /\ DOMAIN events = 1..Len(events) /\ Len(events) \in Nat
  BY LenProperties DEF TypeInv, TypeOK
<1>r. \A i \in DOMAIN events : /\ events[i].step \in 1..Len(steps)
                               /\ steps[events[i].step].status \in Announces(events[i].status)
  BY <1>t DEF EventsInv, EventsReflectRows, Range
<1>q. \A i \in DOMAIN events : events[i].step \in Nat
  BY <1>t, <1>r
<1> USE DEF EventsInv, EventsInOrder, local, db
<1>1. ASSUME UNCHANGED <<steps, events>>,
             pc' \in {"idle", "begin", "load", "walk", "fail"}
      PROVE  EventsInv'
  BY <1>1 DEF EventsReflectRows, Range
<1>2. CASE CreateStep
  <2> DEFINE newRow == [node |-> Head(queue), status |-> "pending", attempt |-> attempt]
  <2>1. CASE Applied("claim") /\ steps' = Append(steps, newRow)
    <3>1. newRow \in StepRow
      BY <1>2, HeadTailProperties DEF CreateStep, Take, TypeInv, TypeOK, StepRow, StepStatus
    <3>2. /\ Len(steps') = Len(steps) + 1
          /\ DOMAIN steps' = 1..(Len(steps) + 1)
          /\ \A i \in 1..Len(steps) : steps'[i] = steps[i]
      BY <1>t, <2>1, <3>1, AppendRow
    <3>3. events' = events /\ pc' = "claim"
      BY <1>2, <2>1 DEF CreateStep, Applied
    <3>4. \A i \in DOMAIN events : events[i].step \in 1..(Len(steps) + 1)
                                    /\ events[i].step # Len(steps) + 1
      BY <1>t, <1>r
    <3>5. EventsReflectRows'
      BY <1>r, <3>2, <3>3, <3>4 DEF EventsReflectRows, Range, Announces
    <3> QED
      BY <3>2, <3>3, <3>4, <3>5
  <2>2. CASE Rejected("fail") /\ UNCHANGED steps
    BY <1>1, <1>2, <2>2 DEF CreateStep, Rejected
  <2> QED
    BY <1>2, <2>1, <2>2 DEF CreateStep
<1>3. ASSUME NEW s \in StepStatus, SetStep(s), UNCHANGED events, pc \in StepPCs,
             \/ pc \in {"claim", "writeLost"} /\ pc' \in {"fetch", "fail"}
             \/ pc \in {"writeDone", "writeFailed"} /\ pc' \in {"emitDone", "emitFailed"},
             pc' = "fetch" => s = "running", pc' = "emitFailed" => s = "failed",
             pc \in {"writeDone", "writeFailed"} => s \in {"completed", "failed"}
      PROVE  EventsInv'
  <2>1. /\ Len(steps') = Len(steps) /\ DOMAIN steps' = 1..Len(steps)
        /\ \A i \in 1..Len(steps) :
             steps'[i].status = IF i = Len(steps) THEN s ELSE steps[i].status
    BY <1>t, <1>3, SetStepRow
  <2>2. Len(steps) \in 1..Len(steps)
    BY <1>t, <1>3 DEF StepsInv
  <2>3. ASSUME NEW i \in DOMAIN events
        PROVE  steps'[events[i].step].status \in Announces(events[i].status)
    <3>1. CASE events[i].step # Len(steps)
      BY <1>r, <2>1, <3>1
    <3>2. CASE events[i].step = Len(steps)
      <4>1. events[i].status = "running" /\ s \in {"completed", "failed"}
        BY <1>3, <3>2
      <4> QED
        BY <2>1, <2>2, <3>2, <4>1 DEF Announces
    <3> QED
      BY <3>1, <3>2
  <2>4. EventsReflectRows'
    BY <1>3, <1>r, <1>t, <2>1, <2>3, ReflectedForm DEF Reflected
  <2> QED
    BY <1>3, <2>1, <2>2, <2>4
<1>4. ASSUME UNCHANGED <<steps, events>>, pc' \in StepPCs,
             \/ pc = "fetch" /\ pc' \in {"emitRunning", "writeLost"}
             \/ pc \in {"work", "writeDone"} /\ pc' \in {"writeDone", "writeFailed"}
      PROVE  EventsInv'
  BY <1>4 DEF EventsReflectRows, Range
<1>5. ASSUME NEW s, Emit(s), UNCHANGED steps, pc \in StepPCs,
             \/ pc = "emitRunning" /\ s = "running" /\ pc' = "work"
             \/ pc = "emitDone" /\ s = "completed" /\ pc' = "walk"
             \/ pc = "emitFailed" /\ s = "failed" /\ pc' = "fail"
      PROVE  EventsInv'
  <2> DEFINE n == Len(events) + 1
  <2>1. /\ DOMAIN events' = 1..n
        /\ \A i \in 1..Len(events) : events'[i] = events[i]
        /\ events'[n] = [step |-> Len(steps), status |-> s]
    BY <1>5, <1>t, EmitEvent
  <2>2. Len(steps) \in 1..Len(steps)
    BY <1>t, <1>5 DEF StepsInv
  <2>3. steps[Len(steps)].status \in Announces(s)
    BY <1>5, <2>2 DEF StepsInv, Announces
  <2>4. \A i \in 1..n : i \in 1..Len(events) \/ i = n
    BY <1>t
  <2>5. EventsReflectRows'
    <3>1. \A i \in 1..n : /\ events'[i].step \in 1..Len(steps)
                          /\ steps[events'[i].step].status \in Announces(events'[i].status)
      BY <1>t, <1>r, <2>1, <2>2, <2>3, <2>4
    <3> QED
      BY <1>5, <1>t, <2>1, <3>1, ReflectedForm DEF Reflected
  <2>6. \A i \in 1..Len(events) :
          \/ events[i].step < Len(steps)
          \/ /\ events[i].step = Len(steps) /\ events[i].status = "running"
             /\ s \in {"completed", "failed"}
    BY <1>5, <1>t, <1>r
  <2>7. EventsInOrder'
    <3> SUFFICES ASSUME NEW i \in 1..n, NEW j \in 1..n, i < j
                 PROVE  \/ events'[i].step < events'[j].step
                        \/ /\ events'[i].step = events'[j].step
                           /\ events'[i].status = "running"
                           /\ events'[j].status \in {"completed", "failed"}
      BY <2>1
    <3>1. i \in 1..Len(events)
      BY <1>t
    <3>2. CASE j = n
      BY <2>1, <2>6, <3>1, <3>2
    <3>3. CASE j \in 1..Len(events)
      <4>1. events'[i] = events[i] /\ events'[j] = events[j]
        BY <2>1, <3>1, <3>3
      <4>2. i \in DOMAIN events /\ j \in DOMAIN events
        BY <1>t, <3>1, <3>3
      <4> QED
        BY <4>1, <4>2
    <3> QED
      BY <2>4, <3>2, <3>3
  <2>8. ASSUME pc' = "work", NEW i \in 1..n, events'[i].step = Len(steps)
        PROVE  events'[i].status = "running"
    <3>1. s = "running" /\ \A k \in 1..Len(events) : events[k].step # Len(steps)
      BY <1>5, <1>t, <2>8
    <3> QED
      BY <2>1, <2>4, <2>8, <3>1
  <2> QED
    BY <1>5, <2>1, <2>5, <2>7, <2>8
<1>6. CASE ClaimStep
  BY <1>1, <1>3, <1>6 DEF ClaimStep, Applied, Rejected, StepPCs, StepStatus
<1>7. CASE FetchStep
  BY <1>4, <1>7 DEF FetchStep, Applied, Rejected, StepPCs
<1>8. CASE LoseStep
  BY <1>1, <1>3, <1>8 DEF LoseStep, Applied, Rejected, StepPCs, StepStatus
<1>9. CASE EmitRunning \/ LeaveStep \/ EmitFailed
  BY <1>5, <1>9 DEF EmitRunning, LeaveStep, EmitFailed, StepPCs
<1>10. CASE Work
  BY <1>4, <1>10 DEF Work, StepPCs
<1>11. CASE CompleteStep
  BY <1>3, <1>4, <1>11 DEF CompleteStep, Applied, Rejected, StepPCs, StepStatus
<1>12. CASE FailStep
  BY <1>1, <1>3, <1>12 DEF FailStep, Applied, Rejected, StepPCs, StepStatus
<1>13. CASE Invoke \/ BeginRun \/ LoadRun \/ SkipVisited \/ MissingNode \/ PassThrough
  BY <1>1, <1>13 DEF Invoke, BeginRun, LoadRun, SkipVisited, MissingNode, PassThrough, Take,
                     Applied, Rejected
<1>14. CASE CompleteRun \/ FailRun \/ Crash
  BY <1>1, <1>14 DEF CompleteRun, FailRun, Crash, Applied, Rejected
<1>15. CASE Cancel \/ UNCHANGED vars
  <2>1. UNCHANGED <<steps, events, pc>>
    BY <1>15 DEF Cancel, vars
  <2>2. EventsReflectRows'
    BY <2>1, ReflectedForm
  <2> QED
    BY <2>1, <2>2
<1> QED
  BY <1>2, <1>6, <1>7, <1>8, <1>9, <1>10, <1>11, <1>12, <1>13, <1>14, <1>15
     DEF Next, Executor

-----------------------------------------------------------------------------
(* How an execution ends. *)

(* Where the executor may give up, the rows of this execution are closed.   *)
Closed == \A i \in DOMAIN steps : Own(i) => steps[i].status \in {"completed", "failed"}

RejectedInv ==
  /\ outcome = "rejected" => pc = "idle"
  /\ pc = "writeLost" => spent["fault"] # 0
  /\ spent["fault"] = 0 /\ (pc = "fail" \/ outcome = "rejected") => Closed

LEMMA RejectedInit == Init => RejectedInv
  BY DEF Init, RejectedInv

LEMMA RejectedStep ==
  TypeInv /\ StepsInv /\ EventsInv /\ RejectedInv /\ [Next]_vars => RejectedInv'
<1> SUFFICES ASSUME TypeInv, StepsInv, EventsInv, RejectedInv, [Next]_vars
             PROVE  RejectedInv'
  OBVIOUS
<1>t. /\ steps \in Seq(StepRow) /\ DOMAIN steps = 1..Len(steps) /\ Len(steps) \in Nat
      /\ spent \in [Mishaps -> Nat]
  BY LenProperties DEF TypeInv, TypeOK
<1>f. ASSUME NEW p, Rejected(p) PROVE spent'["fault"] # 0 /\ pc' = p
  BY <1>f, <1>t DEF Rejected, Spend, Mishaps
<1>p. pc \in PCs
  BY DEF TypeInv, TypeOK
<1> USE DEF RejectedInv, local, db
<1>1. CASE Invoke
  BY <1>1 DEF Invoke
<1>2. CASE BeginRun
  BY <1>2, <1>f DEF BeginRun, Applied
<1>3. CASE LoadRun
  BY <1>3, <1>f DEF LoadRun, Applied, StepsInv, Closed, Own
<1>4. CASE SkipVisited \/ PassThrough
  BY <1>4 DEF SkipVisited, PassThrough, Take
<1>5. CASE MissingNode
  BY <1>5 DEF MissingNode, Take, StepsInv, Closed, Own
<1>6. CASE CreateStep
  BY <1>6, <1>f DEF CreateStep, Take, Applied
<1>7. CASE ClaimStep \/ FetchStep \/ CompleteStep \/ FailStep
  BY <1>7, <1>f DEF ClaimStep, FetchStep, CompleteStep, FailStep, Applied
<1>8. CASE LoseStep
  BY <1>8, <1>f DEF LoseStep, Applied
<1>9. CASE EmitRunning \/ Work \/ LeaveStep
  BY <1>9 DEF EmitRunning, Work, LeaveStep
<1>10. CASE EmitFailed
  BY <1>10, <1>t DEF EmitFailed, StepsInv, StepPCs, EventsInv, Closed, Own
<1>11. CASE CompleteRun
  BY <1>11, <1>f DEF CompleteRun, Applied
<1>12. CASE FailRun
  BY <1>12, <1>f DEF FailRun, Applied, Closed, Own
<1>13. CASE Cancel
  <2>1. spent'["fault"] = spent["fault"]
    BY <1>13, <1>t DEF Cancel, Spend, Mishaps
  <2> QED
    BY <1>13, <2>1 DEF Cancel, Closed, Own
<1>14. CASE Crash
  BY <1>14 DEF Crash
<1>15. CASE UNCHANGED vars
  BY <1>15 DEF vars, Closed, Own
<1> QED
  BY <1>1, <1>2, <1>3, <1>4, <1>5, <1>6, <1>7, <1>8, <1>9, <1>10, <1>11, <1>12,
     <1>13, <1>14, <1>15 DEF Next, Executor

-----------------------------------------------------------------------------
(* The status of a run that is executed once. *)

AdrInv ==
  attempt <= 1 /\ spent["cancel"] = 0 =>
    /\ attempt = 0 => run = "pending" /\ pc = "idle"
    /\ pc = "begin" => run = "pending"
    /\ pc \notin {"idle", "begin"} => run = "running"

LEMMA AdrInit == Init => AdrInv
  BY DEF Init, AdrInv

(* A mishap is never forgotten, nor an execution.                           *)
LEMMA CountsGrow ==
  TypeInv /\ Next =>
    /\ attempt \in Nat /\ attempt' \in {attempt, attempt + 1}
    /\ spent'["cancel"] = 0 => spent["cancel"] = 0 /\ ~Cancel
<1> SUFFICES ASSUME TypeInv, Next
             PROVE  /\ attempt \in Nat /\ attempt' \in {attempt, attempt + 1}
                    /\ spent'["cancel"] = 0 => spent["cancel"] = 0 /\ ~Cancel
  OBVIOUS
<1>t. attempt \in Nat /\ spent \in [Mishaps -> Nat]
  BY DEF TypeInv, TypeOK
<1>1. ASSUME NEW m \in Mishaps, Spend(m)
      PROVE  /\ spent'["cancel"] = 0 => spent["cancel"] = 0
             /\ m = "cancel" => spent'["cancel"] # 0
  BY <1>1, <1>t DEF Spend, Mishaps
<1>2. CASE Invoke
  BY <1>2, <1>t DEF Invoke, Cancel, Spend, Mishaps
<1>3. CASE Executor
  <2>1. attempt' = attempt /\ (UNCHANGED spent \/ Spend("fault"))
    BY <1>3 DEF Executor, BeginRun, LoadRun, SkipVisited, MissingNode, PassThrough,
       CreateStep, ClaimStep, FetchStep, LoseStep, EmitRunning, Work, CompleteStep,
       LeaveStep, FailStep, EmitFailed, CompleteRun, FailRun, Applied, Rejected
  <2>2. Cancel => spent'["cancel"] # 0
    BY <1>1 DEF Cancel, Mishaps
  <2> QED
    BY <1>1, <1>t, <2>1, <2>2 DEF Mishaps
<1>4. CASE Cancel \/ Crash
  <2>1. Cancel => spent'["cancel"] # 0
    BY <1>1 DEF Cancel, Mishaps
  <2> QED
    BY <1>1, <1>4, <1>t, <2>1 DEF Cancel, Crash, Mishaps
<1> QED
  BY <1>2, <1>3, <1>4 DEF Next

LEMMA AdrKept == TypeInv /\ AdrInv /\ [Next]_vars => AdrInv'
<1> SUFFICES ASSUME TypeInv, AdrInv, [Next]_vars, attempt' <= 1, spent'["cancel"] = 0
             PROVE  /\ attempt' = 0 => run' = "pending" /\ pc' = "idle"
                    /\ pc' = "begin" => run' = "pending"
                    /\ pc' \notin {"idle", "begin"} => run' = "running"
  BY DEF AdrInv
<1>1. CASE UNCHANGED vars
  BY <1>1 DEF vars, AdrInv
<1>2. CASE Next
  <2>1. /\ attempt \in Nat /\ attempt' \in {attempt, attempt + 1}
        /\ attempt <= 1 /\ spent["cancel"] = 0 /\ ~Cancel
    BY <1>2, CountsGrow
  <2>2. CASE Invoke
    BY <2>1, <2>2 DEF Invoke, AdrInv, db
  <2>3. CASE Executor \/ Crash
    BY <2>1, <2>3 DEF AdrInv, Executor, BeginRun, LoadRun, SkipVisited, MissingNode,
       PassThrough, Take, CreateStep, ClaimStep, FetchStep, LoseStep, EmitRunning, Work,
       CompleteStep, LeaveStep, FailStep, EmitFailed, CompleteRun, FailRun, Crash,
       Applied, Rejected, db, local
  <2> QED
    BY <1>2, <2>1, <2>2, <2>3 DEF Next
<1> QED
  BY <1>1, <1>2

LEMMA AdrSteps ==
  TypeInv /\ AdrInv /\ [Next]_vars =>
    [attempt' <= 1 /\ spent'["cancel"] = 0 /\ run' # run => AdrStep]_vars
<1> SUFFICES ASSUME TypeInv, AdrInv, Next,
                    attempt' <= 1, spent'["cancel"] = 0, run' # run
             PROVE  AdrStep
  OBVIOUS
<1>1. /\ attempt \in Nat /\ attempt' \in {attempt, attempt + 1}
      /\ attempt <= 1 /\ spent["cancel"] = 0 /\ ~Cancel
  BY CountsGrow
<1>2. BeginRun \/ CompleteRun \/ FailRun
  BY <1>1 DEF Next, Executor, Invoke, LoadRun, SkipVisited, MissingNode, PassThrough,
     CreateStep, ClaimStep, FetchStep, LoseStep, EmitRunning, Work, CompleteStep,
     LeaveStep, FailStep, EmitFailed, Crash, db
<1> QED
  BY <1>1, <1>2 DEF BeginRun, CompleteRun, FailRun, AdrInv, AdrStep, AdrTransitions

-----------------------------------------------------------------------------
(* The theorems. *)

LEMMA Invariants == Spec => [](TypeInv /\ StepsInv /\ WorklistInv)
  BY TypeInit, TypeStep, StepsInit, StepsStep, WorklistInit, WorklistStep, PTL DEF Spec

LEMMA MoreInvariants == Spec => [](EventsInv /\ RejectedInv)
  BY Invariants, EventsInit, EventsStep, RejectedInit, RejectedStep, PTL DEF Spec

(* No node gets two steps in one execution.                                 *)
THEOREM NodeExecutedOnce == Spec => []OneStepPerNode
  BY Invariants, PTL DEF StepsInv

(* Steps run one after the other and nothing follows one that failed.       *)
THEOREM StepsInSequence == Spec => []OnlyLastStepOpen
  BY Invariants, PTL DEF StepsInv

(* Rows are typed, each node has at most one of an execution, and they run  *)
(* one after the other: nothing follows one that failed.                    *)
THEOREM RowsAreSound == Spec => []StepRowsSound
<1>1. TypeInv /\ StepsInv => StepRowsSound
  BY DEF TypeInv, StepsInv, StepRowsSound
<1> QED
  BY <1>1, Invariants, PTL

(* An execution that resolves executed everything the flow led to.          *)
THEOREM ResolvedExecuted == Spec => []ResolvedMeansExecuted
<1>1. WorklistInv => ResolvedMeansExecuted
  BY DEF WorklistInv, ResolvedMeansExecuted
<1> QED
  BY <1>1, Invariants, PTL

(* What an execution answers is true of its rows: an execution that         *)
(* resolved executed everything the flow led to, and one that threw left no *)
(* row open, as long as the database took its writes.                       *)
THEOREM OutcomeIsTrue == Spec => []OutcomeTellsRows
<1>1. WorklistInv /\ RejectedInv => OutcomeTellsRows
  BY DEF WorklistInv, RejectedInv, Closed, Own, OutcomeTellsRows, ResolvedMeansExecuted,
         RejectedLeavesNoOpenStep
<1> QED
  BY <1>1, Invariants, MoreInvariants, PTL

(* What was announced of a step was written, in order and once.             *)
THEOREM EventsAreTrue == Spec => []EventsTellRows
<1>1. EventsInv => EventsTellRows
  BY DEF EventsInv, EventsTellRows
<1> QED
  BY <1>1, MoreInvariants, PTL

(* A run that is executed once and not cancelled follows the ADR, whatever  *)
(* is rejected and wherever the process dies.                               *)
THEOREM AdrFollowed == Spec => RunFollowsAdr
  BY Invariants, AdrInit, AdrKept, AdrSteps, PTL DEF Spec, RunFollowsAdr

-----------------------------------------------------------------------------
(* FlowRun implements FlowSearch: every execution of a flow by the executor *)
(* is a search that starts at the entry, drops no successor and reports     *)
(* success only when nothing is left to visit.                              *)

OnPCs == {"walk", "claim", "fetch", "emitRunning", "work", "writeDone", "emitDone"}

LEMMA SearchingPCs == Searching <=> pc \in OnPCs
  BY DEF Searching, StepPCs, OnPCs

(* The parameters of the search are a node and sets of nodes.               *)
LEMMA ParametersTyped ==
  ASSUME TypeInv
  PROVE  EntryOrAny \in Node /\ Choices \in [Node -> SUBSET SUBSET Node]
<1>1. flow \in Flows /\ flow \in Flow
  BY DEF TypeInv, TypeOK
<1>2. EntryOrAny \in Node
  BY <1>1, EntryNode DEF EntryOrAny
<1>3. ASSUME NEW n \in Node
      PROVE  Range(flow.out[n]) \subseteq Node
             /\ \A b \in BOOLEAN : flow.branch[n][b] \in Node \cup {NoNode}
  <2>1. flow.out[n] \in Seq(Node)
    BY <1>1 DEF Flow
  <2>2. \A i \in DOMAIN flow.out[n] : flow.out[n][i] \in Node
    BY <2>1, ElementOfSeq, LenProperties
  <2> QED
    BY <1>1, <2>2 DEF Flow, Range
<1> QED
  BY <1>2, <1>3 DEF Choices

(* Once a condition was evaluated, the branch noted is one of the flow's.   *)
BranchInv ==
  pc \in {"writeDone", "emitDone"} /\ flow.kind[cur] = "condition" =>
    \E b \in BOOLEAN : chosen[cur] = flow.branch[cur][b]

LEMMA BranchStep == TypeInv /\ BranchInv /\ [Next]_vars => BranchInv'
<1> SUFFICES ASSUME TypeInv, BranchInv, [Next]_vars PROVE BranchInv'
  OBVIOUS
<1> USE DEF BranchInv, local, db
<1>1. CASE Work
  <2>1. cur \in Node /\ chosen \in [Node -> Node \cup {NoNode}]
    BY <1>1 DEF Work, TypeInv, TypeOK, StepPCs
  <2> QED
    BY <1>1, <2>1 DEF Work
<1>2. CASE CompleteStep
  BY <1>2 DEF CompleteStep, Applied, Rejected
<1>3. CASE Cancel \/ UNCHANGED vars
  BY <1>3 DEF Cancel, vars
<1>4. CASE pc' \notin {"writeDone", "emitDone"}
  BY <1>4
<1>5. ASSUME Next, ~Work, ~CompleteStep, ~Cancel
      PROVE  pc' \notin {"writeDone", "emitDone"}
  BY <1>5 DEF Next, Executor, Invoke, BeginRun, LoadRun, SkipVisited, MissingNode, Take,
        PassThrough, CreateStep, ClaimStep, FetchStep, LoseStep, EmitRunning, LeaveStep,
        FailStep, EmitFailed, CompleteRun, FailRun, Crash, Applied, Rejected
<1> QED
  BY <1>1, <1>2, <1>3, <1>4, <1>5

LEMMA RefinementInit == Init => Search!Init
<1> SUFFICES ASSUME Init PROVE Search!Init
  OBVIOUS
<1>1. SearchPhase = "off"
  BY DEF Init, SearchPhase, Searching, StepPCs
<1> QED
  BY <1>1, TypeInit, ParametersTyped DEF Search!Init, SearchSeen, SearchTodo

LEMMA RefinementStep ==
  TypeInv /\ TypeInv' /\ WorklistInv /\ WorklistInv' /\ BranchInv /\ [Next]_vars
    => [Search!Next]_(Search!vars)
<1> SUFFICES ASSUME TypeInv, TypeInv', WorklistInv, WorklistInv', BranchInv, [Next]_vars
             PROVE  [Search!Next]_(Search!vars)
  OBVIOUS
<1> USE DEF local, db
<1>f. /\ flow' = flow
      /\ UNCHANGED <<EntryOrAny, Choices>>
  <2>1. flow' = flow
    BY DEF Next, Executor, vars, Invoke, BeginRun, LoadRun, SkipVisited, MissingNode,
           PassThrough, CreateStep, ClaimStep, FetchStep, LoseStep, EmitRunning, Work,
           CompleteStep, LeaveStep, FailStep, EmitFailed, CompleteRun, FailRun, Cancel, Crash
  <2> QED
    BY <2>1 DEF EntryOrAny, Choices, Entry
<1>o. pc \in OnPCs => SearchPhase = "on"
  BY SearchingPCs DEF SearchPhase
<1>p. pc' \in OnPCs => SearchPhase' = "on"
  BY SearchingPCs DEF SearchPhase, Searching, StepPCs, OnPCs
<1>q. pc \notin OnPCs /\ outcome # "resolved" => SearchPhase = "off"
  BY SearchingPCs DEF SearchPhase
<1>r. pc' \notin OnPCs /\ outcome' # "resolved" => SearchPhase' = "off"
  BY DEF SearchPhase, Searching, StepPCs, OnPCs
(* Outside a search the step is a stutter, leaving it is a Stop.            *)
<1>a. ASSUME SearchPhase' = "off" PROVE [Search!Next]_(Search!vars)
  <2>1. SearchSeen' = {} /\ SearchTodo' = {}
    BY <1>a DEF SearchSeen, SearchTodo
  <2>2. CASE SearchPhase = "off"
    BY <1>f, <1>a, <2>1, <2>2 DEF SearchSeen, SearchTodo, Search!vars
  <2>3. CASE SearchPhase # "off"
    BY <1>f, <1>a, <2>1, <2>3 DEF Search!Stop, Search!Next
  <2> QED
    BY <2>2, <2>3
<1>b. ASSUME pc \in OnPCs, pc' \in OnPCs, SearchSeen' = SearchSeen, SearchTodo' = SearchTodo
      PROVE  [Search!Next]_(Search!vars)
  BY <1>b, <1>f, <1>o, <1>p DEF Search!vars
(* The search goes on with the same nodes visited, known and in progress.   *)
<1>c. ASSUME pc \in OnPCs, pc' \in OnPCs, UNCHANGED <<queue, visited, cur>>
      PROVE  [Search!Next]_(Search!vars)
  BY <1>b, <1>c, <1>o, <1>p DEF SearchSeen, SearchTodo
(* One node becomes visited and what it leads to becomes known.             *)
<1>d. ASSUME NEW n \in Node, NEW S \in Choices[n], pc \in OnPCs, pc' \in OnPCs,
             n \in SearchTodo, SearchSeen' = SearchSeen \cup {n},
             SearchTodo' = (SearchTodo \cup S) \ SearchSeen'
      PROVE  [Search!Next]_(Search!vars)
  <2>1. Search!Visit
    BY <1>d, <1>f, <1>o, <1>p DEF Search!Visit
  <2> QED
    BY <2>1 DEF Search!Next
<1>n. NoNode \notin visited /\ NoNode \notin visited'
  BY DEF TypeInv, TypeOK
<1>w. pc = "walk" => cur = NoNode
  BY DEF WorklistInv
<1>x. outcome = "resolved" => pc = "idle"
  BY DEF WorklistInv
<1>1. CASE Invoke
  BY <1>1, <1>a, <1>r DEF Invoke, OnPCs
<1>2. CASE BeginRun
  BY <1>2, <1>a, <1>r, <1>x DEF BeginRun, Applied, Rejected, OnPCs
<1>3. CASE LoadRun
  <2>1. CASE flow.ids # <<>> /\ Applied("walk") /\ queue' = <<Entry(flow)>>
             /\ visited' = {} /\ cur' = NoNode
    <3>1. SearchPhase' = "on" /\ SearchPhase = "off"
      BY <1>3, <2>1, <1>p, <1>q, <1>x DEF LoadRun, Applied, OnPCs
    <3>2. SearchSeen' = {} /\ SearchTodo' = {Entry(flow)}
      BY <2>1, <3>1 DEF SearchSeen, SearchTodo, Range
    <3>3. EntryOrAny = Entry(flow)
      BY <2>1 DEF EntryOrAny
    <3> QED
      BY <1>f, <3>1, <3>2, <3>3 DEF Search!Start, Search!Next
  <2>2. CASE pc' = "fail" /\ UNCHANGED outcome
    BY <1>3, <2>2, <1>a, <1>r, <1>x DEF LoadRun, OnPCs
  <2> QED
    BY <1>3, <2>1, <2>2 DEF LoadRun, Applied, Rejected
<1>4. CASE SkipVisited
  <2>1. Range(queue) = {Head(queue)} \cup Range(queue')
    BY <1>4, RangeHeadTail DEF SkipVisited, TypeInv, TypeOK
  <2>2. UNCHANGED <<visited, cur, pc>> /\ pc \in OnPCs /\ cur = NoNode /\ Head(queue) \in visited
    BY <1>4, <1>w DEF SkipVisited, OnPCs
  <2>3. SearchSeen = visited /\ SearchSeen' = visited
    BY <1>n, <1>o, <1>p, <2>2 DEF SearchSeen
  <2>4. SearchTodo' = SearchTodo
    BY <1>o, <1>p, <2>1, <2>2, <2>3 DEF SearchTodo
  <2> QED
    BY <1>b, <2>2, <2>3, <2>4
<1>5. CASE MissingNode
  BY <1>5, <1>a, <1>r, <1>x DEF MissingNode, Take, OnPCs
<1>6. CASE PassThrough
  <2>0. PICK h \in Node : h = Head(queue)
    BY <1>6, HeadTailProperties DEF PassThrough, Take, TypeInv, TypeOK
  <2>1. Range(queue) = {h} \cup Range(Tail(queue)) /\ Tail(queue) \in Seq(Node)
    BY <1>6, <2>0, RangeHeadTail, HeadTailProperties DEF PassThrough, Take, TypeInv, TypeOK
  <2>2. flow.out[h] \in Seq(Node) /\ queue' = Tail(queue) \o flow.out[h]
    BY <1>6, <2>0 DEF PassThrough, TypeInv, TypeOK, Flow
  <2>3. \A t \in Seq(Node) : Range(Tail(queue) \o t) = Range(Tail(queue)) \cup Range(t)
    BY <2>1, RangeConcat
  <2>4. Range(queue') = Range(Tail(queue)) \cup Range(flow.out[h])
    BY <2>2, <2>3
  <2>5. /\ visited' = visited \cup {h} /\ h \notin visited
        /\ cur' = NoNode /\ cur = NoNode /\ pc \in OnPCs /\ pc' \in OnPCs
        /\ flow.kind[h] # "condition"
    BY <1>6, <1>w, <2>0 DEF PassThrough, Take, OnPCs
  <2>6. Range(flow.out[h]) \in Choices[h]
    BY <2>5 DEF Choices
  <2>7. SearchSeen = visited /\ SearchSeen' = visited \cup {h}
    BY <1>n, <1>o, <1>p, <2>5 DEF SearchSeen
  <2>8. /\ SearchTodo = Range(queue) \ visited
        /\ SearchTodo' = Range(queue') \ (visited \cup {h})
    BY <1>o, <1>p, <2>5, <2>7 DEF SearchTodo
  <2> QED
    BY <1>d, <2>1, <2>4, <2>5, <2>6, <2>7, <2>8
<1>7. CASE CreateStep
  <2>1. Range(queue) = {Head(queue)} \cup Range(Tail(queue)) /\ Head(queue) \in Node
    BY <1>7, RangeHeadTail, HeadTailProperties DEF CreateStep, Take, TypeInv, TypeOK
  <2>2. /\ queue' = Tail(queue) /\ visited' = visited \cup {Head(queue)}
        /\ cur' = Head(queue) /\ Head(queue) \notin visited /\ cur = NoNode
        /\ pc \in OnPCs /\ outcome' = outcome /\ pc = "walk"
    BY <1>7, <1>w DEF CreateStep, Take, OnPCs
  <2>3. CASE Applied("claim")
    <3>1. pc' \in OnPCs
      BY <2>3 DEF Applied, OnPCs
    <3>2. SearchSeen = visited /\ SearchSeen' = visited
      BY <1>n, <1>o, <1>p, <2>2, <3>1 DEF SearchSeen
    <3>3. SearchTodo' = SearchTodo
      BY <1>o, <1>p, <2>1, <2>2, <3>1, <3>2 DEF SearchTodo
    <3> QED
      BY <1>b, <2>2, <3>1, <3>2, <3>3
  <2>4. CASE Rejected("fail")
    BY <2>2, <2>4, <1>a, <1>r, <1>x DEF Rejected, OnPCs
  <2> QED
    BY <1>7, <2>3, <2>4 DEF CreateStep
<1>8. ASSUME pc \in StepPCs, UNCHANGED <<queue, visited, cur, outcome>>,
             pc \in OnPCs \/ pc' \notin OnPCs
      PROVE  [Search!Next]_(Search!vars)
  <2>1. outcome # "resolved"
    BY <1>8, <1>x DEF StepPCs
  <2> QED
    BY <1>8, <2>1, <1>a, <1>c, <1>r
<1>9. CASE ClaimStep \/ FetchStep \/ LoseStep \/ EmitRunning
  BY <1>8, <1>9 DEF ClaimStep, FetchStep, LoseStep, EmitRunning, Applied, Rejected,
                    StepPCs, OnPCs
<1>10. CASE Work \/ CompleteStep \/ FailStep \/ EmitFailed
  BY <1>8, <1>10 DEF Work, CompleteStep, FailStep, EmitFailed, Applied, Rejected,
                     StepPCs, OnPCs
<1>11. CASE LeaveStep
  <2>0. PICK n \in Node : n = cur
    BY <1>11 DEF LeaveStep, TypeInv, StepPCs
  <2> DEFINE next == IF flow.kind[n] # "condition" THEN flow.out[n]
                     ELSE IF chosen[n] = NoNode THEN <<>> ELSE <<chosen[n]>>
  <2>1. next \in Seq(Node) /\ Range(next) = Followed(n)
    <3>1. CASE flow.kind[n] # "condition"
      BY <3>1 DEF Flow, Followed, TypeInv, TypeOK
    <3>2. CASE flow.kind[n] = "condition" /\ chosen[n] = NoNode
      BY <3>2, EmptySeq DEF Followed, Range
    <3>3. CASE flow.kind[n] = "condition" /\ chosen[n] # NoNode
      BY <3>3 DEF Followed, Range, TypeInv, TypeOK
    <3> QED
      BY <3>1, <3>2, <3>3
  <2>2. queue' = queue \o next
    BY <1>11, <2>0 DEF LeaveStep
  <2> HIDE DEF next
  <2>3. Range(queue') = Range(queue) \cup Followed(n)
    BY <2>1, <2>2, RangeConcat DEF TypeInv, TypeOK
  <2>4. /\ visited' = visited /\ cur' = NoNode /\ pc = "emitDone"
        /\ pc \in OnPCs /\ pc' \in OnPCs /\ n \in visited
    BY <1>11, <2>0 DEF LeaveStep, OnPCs, WorklistInv, StepPCs
  <2>5. SearchSeen = visited \ {n} /\ SearchSeen' = visited
    BY <1>n, <1>o, <1>p, <2>0, <2>4 DEF SearchSeen
  <2>6. /\ SearchTodo = (Range(queue) \cup {n}) \ (visited \ {n})
        /\ SearchTodo' = Range(queue') \ visited
    BY <1>o, <1>p, <2>0, <2>4, <2>5 DEF SearchTodo
  <2>7. Followed(n) \in Choices[n]
    BY <2>0, <2>4 DEF BranchInv, Followed, Choices
  <2> QED
    BY <1>d, <2>3, <2>4, <2>5, <2>6, <2>7
<1>12. CASE CompleteRun
  <2>1. CASE Rejected("fail") /\ UNCHANGED outcome
    BY <1>12, <2>1, <1>a, <1>r, <1>x DEF CompleteRun, Rejected, OnPCs
  <2>2. CASE Applied("idle") /\ outcome' = "resolved"
    <3>1. SearchPhase = "on" /\ SearchPhase' = "done"
      BY <1>12, <2>2, <1>o DEF CompleteRun, Applied, OnPCs, SearchPhase, Searching, StepPCs
    <3>2. UNCHANGED <<queue, visited, cur>> /\ queue = <<>> /\ cur = NoNode
      BY <1>12, <1>w DEF CompleteRun
    <3>3. SearchTodo = {} /\ UNCHANGED <<SearchSeen, SearchTodo>>
      BY <3>1, <3>2 DEF SearchTodo, SearchSeen, Range
    <3> QED
      BY <1>f, <3>1, <3>3 DEF Search!Finish, Search!Next
  <2> QED
    BY <1>12, <2>1, <2>2 DEF CompleteRun
<1>13. CASE FailRun
  BY <1>13, <1>a, <1>r DEF FailRun, Applied, Rejected, OnPCs
<1>14. CASE Crash
  BY <1>14, <1>a, <1>r DEF Crash, OnPCs
<1>15. CASE Cancel \/ UNCHANGED vars
  <2>1. UNCHANGED <<pc, outcome, queue, visited, cur>>
    BY <1>15 DEF Cancel, vars
  <2> QED
    BY <1>f, <2>1 DEF Search!vars, SearchPhase, SearchSeen, SearchTodo, Searching
<1> QED
  BY <1>1, <1>2, <1>3, <1>4, <1>5, <1>6, <1>7, <1>9, <1>10, <1>11, <1>12, <1>13,
     <1>14, <1>15 DEF Next, Executor

(* Every behaviour of the executor is a behaviour of the abstract search.   *)
THEOREM Refinement == Spec => ImplementsSearch
<1>1. Spec => Search!Init /\ [][Search!Next]_(Search!vars)
  <2>1. Init => BranchInv
    BY DEF Init, BranchInv
  <2> QED
    BY <2>1, RefinementInit, RefinementStep, BranchStep, Invariants, PTL DEF Spec
<1> QED
  BY <1>1 DEF ImplementsSearch, Search!Spec

-----------------------------------------------------------------------------
(* The abstract search, with variables of its own: what FlowRun implements *)
(* drops nothing, for every set of nodes, root and choice of successors.   *)
VARIABLES s_root, s_may, s_phase, s_seen, s_todo

Abstract == INSTANCE FlowSearch WITH root <- s_root, may <- s_may, phase <- s_phase,
                                     seen <- s_seen, todo <- s_todo

(* The strengthening of Closed: while a search runs, its root is known and  *)
(* every node left behind led to nodes that are known.                      *)
SearchInv == /\ Abstract!TypeOK
             /\ s_phase # "off" => s_root \in s_seen \cup s_todo /\ Abstract!Progress
             /\ s_phase = "done" => s_todo = {}

(* Progress alone is enough for success to mean closure.                    *)
LEMMA SearchInvClosed == SearchInv => Abstract!Closed
  BY DEF SearchInv, Abstract!Closed, Abstract!Progress

LEMMA SearchInit == Abstract!Init => SearchInv
  BY DEF Abstract!Init, SearchInv, Abstract!TypeOK

LEMMA SearchStep == SearchInv /\ [Abstract!Next]_(Abstract!vars) => SearchInv'
<1> SUFFICES ASSUME SearchInv, [Abstract!Next]_(Abstract!vars) PROVE SearchInv'
  OBVIOUS
<1> USE DEF SearchInv, Abstract!TypeOK, Abstract!Progress
<1>1. CASE Abstract!Start
  BY <1>1 DEF Abstract!Start
<1>2. CASE Abstract!Visit
  <2>0. PICK n \in s_todo : \E S \in s_may[n] : /\ s_seen' = s_seen \cup {n}
                                             /\ s_todo' = (s_todo \cup S) \ s_seen'
    BY <1>2 DEF Abstract!Visit
  <2>1. PICK S \in s_may[n] : /\ s_seen' = s_seen \cup {n}
                             /\ s_todo' = (s_todo \cup S) \ s_seen'
    BY <2>0
  <2>2. UNCHANGED <<s_root, s_may, s_phase>> /\ s_phase = "on"
    BY <1>2 DEF Abstract!Visit
  <2>3. n \in Node /\ S \subseteq Node
    OBVIOUS
  <2>4. Abstract!TypeOK'
    BY <2>1, <2>2, <2>3
  <2>5. s_seen \cup s_todo \subseteq s_seen' \cup s_todo' /\ S \subseteq s_seen' \cup s_todo'
    BY <2>1
  <2>6. ASSUME NEW m \in s_seen'
        PROVE  \E T \in s_may'[m] : T \subseteq s_seen' \cup s_todo'
    <3>1. CASE m = n
      BY <3>1, <2>2, <2>5
    <3>2. CASE m \in s_seen
      BY <3>2, <2>2, <2>5
    <3> QED
      BY <3>1, <3>2, <2>1
  <2> QED
    BY <2>2, <2>4, <2>5, <2>6
<1>3. CASE Abstract!Finish
  BY <1>3 DEF Abstract!Finish
<1>4. CASE Abstract!Stop
  BY <1>4 DEF Abstract!Stop
<1>5. CASE UNCHANGED Abstract!vars
  BY <1>5 DEF Abstract!vars
<1> QED
  BY <1>1, <1>2, <1>3, <1>4, <1>5 DEF Abstract!Next

(* A successful search has visited its root and, from every node it visited, *)
(* a complete set of successors: what _traverseGraph implements loses none.  *)
THEOREM SearchClosed == Abstract!Spec => []Abstract!Closed
<1>1. Abstract!Spec => []SearchInv
  BY SearchInit, SearchStep, PTL DEF Abstract!Spec
<1> QED
  BY <1>1, SearchInvClosed, PTL

-----------------------------------------------------------------------------
(***************************************************************************)
(* The execution of a run through the queue of the API.                    *)
(***************************************************************************)
USE QueueAssumption

MetaStatus == {"queued", "processing", "completed", "failed"}
SlotPC == {"idle", "read", "save", "last", "end"}

-----------------------------------------------------------------------------
(* The inductive invariant. *)

(* The queue has at most one of its jobs of the run processed at a time, and *)
(* a job that waits or runs has an attempt left.                            *)
JobInv ==
  /\ mode = "redis" => /\ \A a \in Slot : stage[a] # "idle" => job = "active"
                       /\ \A a, b \in Slot : stage[a] # "idle" /\ stage[b] # "idle" => a = b
  /\ job = "none" => tries = 0
  /\ job \in {"waiting", "active"} => tries < Attempts

(* A run that does not exist never will.                                    *)
RowInv == /\ row \in been
          /\ row = "absent" => executor = "idle" /\ disk = "none"

(* What a slot has read was true of the row, and why it ends.               *)
SnapInv == \A a \in Slot :
  /\ stage[a] \in {"save", "end"} => snap[a] \in been
  /\ stage[a] = "save" => row # "absent"
  /\ stage[a] = "last" => gaveUp \/ row = "absent"
  /\ stage[a] = "end" => gaveUp \/ snap[a] \in Terminal \cup {"absent"}

(* While the checkpoint is of a run that is not over, the slot that wrote   *)
(* it, or one that wrote the same later, will write another.                *)
DiskInv == ~troubled => \/ disk \in {"none"} \cup Terminal
                        \/ \E a \in Slot : stage[a] \in {"read", "save"}

(* What one tracked job may say, of a run that was in these statuses.       *)
MayTell(m, was, gave, trouble) ==
  /\ m = "completed" => "completed" \in was \/ "cancelled" \in was \/ gave
  /\ m = "failed" => "failed" \in was \/ "absent" \in was \/ trouble

MetasInv == \A i \in 1..Len(metas) : MayTell(metas[i], been, gaveUp, troubled)

StreamInv ==
  /\ closedBy = "completed" => "completed" \in been \/ "cancelled" \in been \/ gaveUp
  /\ closedBy = "failed" => "failed" \in been \/ "absent" \in been

QueueTypeInv == QueueTypeOK /\ JobInv
ProgressInv == RowInv /\ DiskInv
OutcomeInv == SnapInv /\ MetasInv /\ StreamInv
IInv == QueueTypeInv /\ ProgressInv /\ OutcomeInv

-----------------------------------------------------------------------------
(* Lemmas on the operators. *)

(* _trackJob adds a job at the end.                                         *)
LEMMA AppendMeta ==
  ASSUME QueueTypeOK, metas' = Append(metas, "queued")
  PROVE  /\ metas' \in Seq(MetaStatus)
         /\ Len(metas) \in Nat /\ Len(metas') = Len(metas) + 1
         /\ MetasInv /\ UNCHANGED <<been, gaveUp, troubled>> => MetasInv'
<1>1. metas \in Seq(MetaStatus)
  BY DEF QueueTypeOK, MetaStatus
<1>2. /\ metas' \in Seq(MetaStatus) /\ Len(metas) \in Nat /\ Len(metas') = Len(metas) + 1
      /\ \A i \in 1..Len(metas) : metas'[i] = metas[i]
      /\ metas'[Len(metas) + 1] = "queued"
  BY <1>1, AppendProperties, LenProperties DEF MetaStatus
<1>3. ASSUME MetasInv, UNCHANGED <<been, gaveUp, troubled>>, NEW i \in 1..Len(metas')
      PROVE  MayTell(metas'[i], been', gaveUp', troubled')
  <2>1. CASE i \in 1..Len(metas)
    BY <1>2, <1>3, <2>1 DEF MetasInv, MayTell
  <2>2. CASE i = Len(metas) + 1
    BY <1>2, <2>2 DEF MayTell
  <2> QED
    BY <1>2, <2>1, <2>2
<1> QED
  BY <1>2, <1>3 DEF MetasInv

(* Setting the status of one job changes no other.                          *)
LEMMA SetMeta ==
  ASSUME QueueTypeOK, NEW i \in 0..Len(metas), NEW status \in MetaStatus,
         metas' = IF i = 0 THEN metas ELSE [metas EXCEPT ![i] = status]
  PROVE  /\ metas' \in Seq(MetaStatus)
         /\ Len(metas) \in Nat /\ Len(metas') = Len(metas)
         /\ \A j \in 1..Len(metas) : metas'[j] = metas[j] \/ metas'[j] = status
<1>1. metas \in Seq(MetaStatus) /\ Len(metas) \in Nat
  BY LenProperties DEF QueueTypeOK, MetaStatus
<1>2. CASE i = 0
  BY <1>1, <1>2
<1>3. CASE i # 0
  <2>1. i \in 1..Len(metas)
    BY <1>1, <1>3
  <2> QED
    BY <1>1, <1>3, <2>1, ExceptSeq
<1> QED
  BY <1>2, <1>3

(* What was true of the outcome stays true.                                 *)
LEMMA OutcomeGrows ==
  ASSUME MetasInv, been \subseteq been', gaveUp => gaveUp', troubled => troubled',
         Len(metas') = Len(metas),
         \A i \in 1..Len(metas) : 
            metas'[i] = metas[i] \/ MayTell(metas'[i], been', gaveUp', troubled')
  PROVE  MetasInv'
  BY DEF MetasInv, MayTell

-----------------------------------------------------------------------------
(* Types, and the attempts of the queue's job. *)

LEMMA QueueTypeInit == QueueInit => QueueTypeInv
<1> SUFFICES ASSUME QueueInit PROVE QueueTypeInv
  OBVIOUS
<1> USE DEF QueueInit
<1>1. metas \in Seq(MetaStatus) /\ Len(metas) = 0
  BY EmptySeq
<1>2. "absent" \in RowStatus
  BY DEF RowStatus
<1>3. /\ stage \in [Slot -> SlotPC] /\ handle \in [Slot -> 0..Len(metas)]
      /\ snap \in [Slot -> RowStatus]
      /\ polls \in [Slot -> 0..Polls]
  BY <1>1, <1>2 DEF SlotPC
<1>4. row \in RowStatus /\ been \subseteq RowStatus /\ disk \in {"none"} \cup RowStatus
  BY DEF RowStatus
<1>5. /\ tries \in 0..Attempts /\ ticks \in Nat /\ requests \in 0..MaxRequests
      /\ adding \in 0..requests /\ tracked \in 0..Len(metas) /\ faults \in 0..MaxFaults
      /\ restarts \in 0..MaxRestarts
  BY <1>1
<1>6. QueueTypeOK
  BY <1>1, <1>3, <1>4, <1>5 DEF QueueTypeOK, MetaStatus, SlotPC
<1> QED
  BY <1>6 DEF QueueTypeInv, JobInv

(* A slot whose job is over keeps the types.                                *)
LEMMA LeaveType ==
  ASSUME QueueTypeOK, NEW a \in Slot, Leave(a), Len(metas') = Len(metas)
  PROVE  /\ stage' \in [Slot -> SlotPC]
         /\ handle' \in [Slot -> 0..Len(metas')]
         /\ snap' \in [Slot -> RowStatus]
         /\ polls' \in [Slot -> 0..Polls]
<1>1. "absent" \in RowStatus
  BY DEF RowStatus
<1>2. Len(metas) \in Nat
  BY LenProperties DEF QueueTypeOK
<1> QED
  BY <1>1, <1>2 DEF Leave, QueueTypeOK, SlotPC

LEMMA QueueTypeStep == QueueTypeInv /\ [QueueNext]_queueVars => QueueTypeInv'
<1> SUFFICES ASSUME QueueTypeInv, [QueueNext]_queueVars PROVE QueueTypeInv'
  OBVIOUS
<1> USE DEF rowVars, jobVars, metaVars, reqVars, slotVars, streamVars, histVars
<1>t. QueueTypeOK /\ JobInv
  BY DEF QueueTypeInv
<1>l. Len(metas) \in Nat /\ metas \in Seq(MetaStatus)
  BY <1>t, LenProperties DEF QueueTypeOK, MetaStatus
<1>1. CASE Add
  BY <1>1, <1>t DEF Add, QueueTypeInv, QueueTypeOK, JobInv
<1>2. CASE Track
  <2> USE <1>2, <1>t DEF Track
  <2>1. metas' \in Seq(MetaStatus) /\ Len(metas') = Len(metas) + 1
    BY AppendMeta
  <2>2. tracked' \in 0..Len(metas') /\ handle' \in [Slot -> 0..Len(metas')]
    BY <1>l, <2>1 DEF QueueTypeOK
  <2> QED
    BY <2>1, <2>2 DEF QueueTypeInv, QueueTypeOK, JobInv, MetaStatus
<1>3. CASE EnqueueLocal
  <2> USE <1>3, <1>t DEF EnqueueLocal
  <2>1. metas' \in Seq(MetaStatus) /\ Len(metas') = Len(metas) + 1
    BY AppendMeta
  <2>2. tracked' \in 0..Len(metas') /\ handle' \in [Slot -> 0..Len(metas')]
    BY <1>l, <2>1 DEF QueueTypeOK
  <2> QED
    BY <2>1, <2>2 DEF QueueTypeInv, QueueTypeOK, JobInv, MetaStatus
<1>4. ASSUME NEW a \in Slot, Begin(a) PROVE QueueTypeInv'
  <2> USE <1>4, <1>t DEF Begin
  <2>1. tracked \in 0..Len(metas) /\ "processing" \in MetaStatus
    BY DEF QueueTypeOK, MetaStatus
  <2>2. metas' \in Seq(MetaStatus) /\ Len(metas') = Len(metas)
    BY <2>1, SetMeta
  <2>3. handle' \in [Slot -> 0..Len(metas')] /\ stage' \in [Slot -> SlotPC]
    BY <2>1, <2>2 DEF QueueTypeOK, SlotPC
  <2>4. QueueTypeOK'
    BY <2>2, <2>3, SMTT(30) DEF QueueTypeOK, MetaStatus, SlotPC
  <2>5. JobInv'
    BY DEF JobInv, QueueTypeOK
  <2> QED
    BY <2>4, <2>5 DEF QueueTypeInv
<1>5. ASSUME NEW a \in Slot, Read(a) PROVE QueueTypeInv'
  <2> USE <1>5, <1>t DEF Read
  <2>2. snap' \in [Slot -> RowStatus] /\ polls' \in [Slot -> 0..Polls]
    BY DEF QueueTypeOK
  <2>3. stage' \in [Slot -> SlotPC]
    BY DEF QueueTypeOK, SlotPC
  <2>4. QueueTypeOK'
    BY <2>2, <2>3, SMTT(30) DEF QueueTypeOK, SlotPC
  <2>5. JobInv'
    BY DEF JobInv, QueueTypeOK
  <2> QED
    BY <2>4, <2>5 DEF QueueTypeInv
<1>6. ASSUME NEW a \in Slot, Save(a) PROVE QueueTypeInv'
  <2> USE <1>6, <1>t DEF Save
  <2>1. disk' \in {"none"} \cup RowStatus
    BY DEF QueueTypeOK
  <2>a. stage' \in [Slot -> SlotPC]
    BY DEF QueueTypeOK, SlotPC
  <2>2. QueueTypeOK'
    BY <2>1, <2>a, SMTT(30) DEF QueueTypeOK, SlotPC
  <2>3. JobInv'
    BY DEF JobInv, QueueTypeOK
  <2> QED
    BY <2>2, <2>3 DEF QueueTypeInv
<1>7. ASSUME NEW a \in Slot, GiveUp(a) PROVE QueueTypeInv'
  <2> USE <1>7, <1>t DEF GiveUp
  <2>a. stage' \in [Slot -> SlotPC]
    BY DEF QueueTypeOK, SlotPC
  <2>1. QueueTypeOK'
    BY <2>a, SMTT(30) DEF QueueTypeOK, SlotPC
  <2>2. JobInv'
    BY DEF JobInv, QueueTypeOK
  <2> QED
    BY <2>1, <2>2 DEF QueueTypeInv
<1>8. ASSUME NEW a \in Slot, ReadLast(a) PROVE QueueTypeInv'
  <2> USE <1>8, <1>t DEF ReadLast
  <2>b. snap' \in [Slot -> RowStatus] /\ stage' \in [Slot -> SlotPC]
    BY DEF QueueTypeOK, SlotPC
  <2>2. QueueTypeOK'
    BY <2>b, SMTT(30) DEF QueueTypeOK, SlotPC
  <2>3. JobInv'
    BY DEF JobInv, QueueTypeOK
  <2> QED
    BY <2>2, <2>3 DEF QueueTypeInv
<1>9. ASSUME NEW a \in Slot, End(a) PROVE QueueTypeInv'
  <2> USE <1>9, <1>t DEF End
  <2>1. handle[a] \in 0..Len(metas) /\ Outcome(snap[a]) \in MetaStatus
        /\ Outcome(snap[a]) \in {"completed", "failed"}
    BY DEF QueueTypeOK, MetaStatus, Outcome
  <2>2. metas' \in Seq(MetaStatus) /\ Len(metas') = Len(metas)
    BY <2>1, SetMeta DEF Mark
  <2>3. stream' \in {"none", "open", "closed"} /\ closedBy' \in {"none", "completed", "failed"}
    BY <2>1 DEF QueueTypeOK, Tell
  <2>4. QueueTypeOK'
    BY <2>2, <2>3, LeaveType, SMTT(30) DEF QueueTypeOK, MetaStatus, SlotPC
  <2>5. JobInv'
    BY DEF JobInv, QueueTypeOK, Leave
  <2> QED
    BY <2>4, <2>5 DEF QueueTypeInv
<1>10. ASSUME NEW a \in Slot, Throw(a) PROVE QueueTypeInv'
  <2> USE <1>10, <1>t DEF Throw
  <2>1. handle[a] \in 0..Len(metas) /\ "failed" \in MetaStatus
    BY DEF QueueTypeOK, MetaStatus
  <2>2. metas' \in Seq(MetaStatus) /\ Len(metas') = Len(metas)
    BY <2>1, SetMeta DEF Mark
  <2>3. mode = "redis" => job = "active" /\ tries < Attempts
    BY DEF JobInv
  <2>4. faults' \in 0..MaxFaults /\ tries' \in 0..Attempts
        /\ job' \in {"none", "waiting", "active", "completed", "failed"}
    BY <2>3 DEF QueueTypeOK
  <2>5. QueueTypeOK'
    BY <2>2, <2>4, LeaveType, SMTT(30) DEF QueueTypeOK, MetaStatus, SlotPC
  <2>6. JobInv'
    BY <2>3 DEF JobInv, QueueTypeOK, Leave
  <2> QED
    BY <2>5, <2>6 DEF QueueTypeInv
<1>11. CASE Forget
  BY <1>11, <1>t DEF Forget, QueueTypeInv, QueueTypeOK, JobInv
<1>12. CASE Subscribe
  BY <1>12, <1>t DEF Subscribe, QueueTypeInv, QueueTypeOK, JobInv
<1>13. CASE Restart
  <2> USE <1>13, <1>t DEF Restart
  <2>1. metas' \in Seq(MetaStatus) /\ Len(metas') = 0 /\ "absent" \in RowStatus
    BY EmptySeq DEF RowStatus
  <2>2. /\ stage' \in [Slot -> SlotPC] /\ handle' \in [Slot -> 0..Len(metas')]
        /\ snap' \in [Slot -> RowStatus]
        /\ polls' \in [Slot -> 0..Polls]
    BY <2>1 DEF SlotPC
  <2>3. troubled' \in BOOLEAN
    BY DEF QueueTypeOK
  <2>4. /\ job' \in {"none", "waiting", "active", "completed", "failed"}
        /\ stream' \in {"none", "open", "closed"} /\ restarts' \in 0..MaxRestarts
        /\ tracked' \in 0..Len(metas') /\ adding' \in 0..requests'
    BY <2>1 DEF QueueTypeOK
  <2>5. QueueTypeOK'
    BY <2>1, <2>2, <2>3, <2>4, SMTT(30) DEF QueueTypeOK, MetaStatus, SlotPC
  <2>6. JobInv'
    BY DEF JobInv
  <2> QED
    BY <2>5, <2>6 DEF QueueTypeInv
<1>14. CASE Execute
  <2> USE <1>14, <1>t DEF Execute, Write
  <2>1. row' \in RowStatus /\ been' \subseteq RowStatus
    BY DEF QueueTypeOK, RowStatus, Terminal
  <2>2. executor' \in {"idle", "busy", "over"}
    BY DEF QueueTypeOK
  <2> QED
    BY <2>1, <2>2 DEF QueueTypeInv, QueueTypeOK, JobInv
<1>15. CASE CancelElsewhere
  <2> USE <1>15, <1>t DEF CancelElsewhere, Write
  <2>1. row' \in RowStatus /\ been' \subseteq RowStatus
    BY DEF QueueTypeOK, RowStatus, Terminal
  <2> QED
    BY <2>1 DEF QueueTypeInv, QueueTypeOK, JobInv
<1>16. CASE UNCHANGED queueVars
  BY <1>16, <1>t DEF queueVars, QueueTypeInv, QueueTypeOK, JobInv
<1> QED
  BY <1>1, <1>2, <1>3, <1>4, <1>5, <1>6, <1>7, <1>8, <1>9, <1>10, <1>11, <1>12, <1>13,
     <1>14, <1>15, <1>16 DEF QueueNext, Enqueue, Process

-----------------------------------------------------------------------------
(* What the checkpoint is left with. *)

LEMMA ProgressInit == QueueInit => ProgressInv
  BY DEF QueueInit, ProgressInv, RowInv, DiskInv

LEMMA ProgressStep ==
  QueueTypeInv /\ ProgressInv /\ SnapInv /\ [QueueNext]_queueVars => ProgressInv'
<1> SUFFICES ASSUME QueueTypeInv, ProgressInv, SnapInv, [QueueNext]_queueVars
             PROVE  ProgressInv'
  OBVIOUS
<1> USE DEF rowVars, jobVars, metaVars, reqVars, slotVars, streamVars, histVars
<1>t. QueueTypeOK /\ RowInv /\ DiskInv
  BY DEF QueueTypeInv, ProgressInv
<1>1. CASE Add \/ Track \/ EnqueueLocal \/ Forget \/ Subscribe
  BY <1>1, <1>t DEF Add, Track, EnqueueLocal, Forget, Subscribe, ProgressInv, RowInv,
                    DiskInv
<1>2. ASSUME NEW a \in Slot, Begin(a) PROVE ProgressInv'
  <2>1. RowInv'
    BY <1>2, <1>t DEF Begin, RowInv
  <2>2. DiskInv'
    BY <1>2, <1>t DEF Begin, DiskInv, QueueTypeOK
  <2> QED
    BY <2>1, <2>2 DEF ProgressInv
<1>3. ASSUME NEW a \in Slot, Read(a) PROVE ProgressInv'
  <2> USE <1>3, <1>t DEF Read
  <2>1. RowInv'
    BY DEF RowInv
  <2>3. DiskInv'
    BY DEF DiskInv, RowInv, QueueTypeOK
  <2> QED
    BY <2>1, <2>3 DEF ProgressInv
<1>4. ASSUME NEW a \in Slot, Save(a) PROVE ProgressInv'
  <2> USE <1>4, <1>t DEF Save
  <2>1. RowInv'
    BY DEF RowInv, SnapInv
  <2>3. DiskInv'
    BY DEF DiskInv, QueueTypeOK
  <2> QED
    BY <2>1, <2>3 DEF ProgressInv
<1>5. ASSUME NEW a \in Slot, GiveUp(a) PROVE ProgressInv'
  BY <1>5, <1>t DEF GiveUp, ProgressInv, RowInv, DiskInv
<1>6. ASSUME NEW a \in Slot, ReadLast(a) PROVE ProgressInv'
  <2> USE <1>6, <1>t DEF ReadLast
  <2>1. RowInv'
    BY DEF RowInv
  <2>4. DiskInv'
    BY DEF DiskInv, QueueTypeOK
  <2> QED
    BY <2>1, <2>4 DEF ProgressInv
<1>7. ASSUME NEW a \in Slot, End(a) PROVE ProgressInv'
  <2> USE <1>7, <1>t DEF End
  <2>1. RowInv'
    BY DEF RowInv
  <2>2. DiskInv'
    BY DEF DiskInv, Leave, QueueTypeOK
  <2> QED
    BY <2>1, <2>2 DEF ProgressInv
<1>8. ASSUME NEW a \in Slot, Throw(a) PROVE ProgressInv'
  <2> USE <1>8, <1>t DEF Throw
  <2>1. RowInv' /\ DiskInv'
    BY DEF RowInv, DiskInv
  <2> QED
    BY <2>1 DEF ProgressInv
<1>9. CASE Restart
  <2> USE <1>9, <1>t DEF Restart
  <2>1. RowInv'
    BY DEF RowInv
  <2>2. DiskInv'
    BY DEF DiskInv, Busy
  <2> QED
    BY <2>1, <2>2 DEF ProgressInv
<1>10. CASE Execute
  <2> USE <1>10, <1>t DEF Execute, Write
  <2>1. row # "absent"
    BY DEF RowInv
  <2>2. RowInv'
    BY <2>1 DEF RowInv
  <2>4. DiskInv'
    BY DEF DiskInv
  <2> QED
    BY <2>2, <2>4 DEF ProgressInv
<1>11. CASE CancelElsewhere
  BY <1>11, <1>t DEF CancelElsewhere, Write, ProgressInv, RowInv, DiskInv
<1>12. CASE UNCHANGED queueVars
  BY <1>12, <1>t DEF queueVars, ProgressInv, RowInv, DiskInv
<1> QED
  BY <1>1, <1>2, <1>3, <1>4, <1>5, <1>6, <1>7, <1>8, <1>9, <1>10, <1>11, <1>12
     DEF QueueNext, Enqueue, Process

-----------------------------------------------------------------------------
(* The outcome: what the tracked jobs and the stream say of it. *)

LEMMA OutcomeInit == QueueInit => OutcomeInv
<1> SUFFICES ASSUME QueueInit PROVE OutcomeInv
  OBVIOUS
<1>1. Len(metas) = 0
  BY EmptySeq DEF QueueInit
<1> QED
  BY <1>1 DEF QueueInit, OutcomeInv, SnapInv, MetasInv, StreamInv

(* Where no job is marked, and the history only grows.                      *)
LEMMA UnmarkedKeeps ==
  ASSUME MetasInv, StreamInv, UNCHANGED <<metas, closedBy>>,
         been \subseteq been', gaveUp => gaveUp', troubled => troubled'
  PROVE  MetasInv' /\ StreamInv'
  BY DEF MetasInv, MayTell, StreamInv

LEMMA OutcomeStep ==
  QueueTypeInv /\ RowInv /\ OutcomeInv /\ [QueueNext]_queueVars => OutcomeInv'
<1> SUFFICES ASSUME QueueTypeInv, RowInv, OutcomeInv, [QueueNext]_queueVars
             PROVE  OutcomeInv'
  OBVIOUS
<1> USE DEF rowVars, jobVars, metaVars, reqVars, slotVars, streamVars, histVars
<1>t. QueueTypeOK /\ SnapInv /\ MetasInv /\ StreamInv
  BY DEF QueueTypeInv, OutcomeInv
<1>1. CASE Add \/ Forget
  BY <1>1, <1>t DEF Add, Forget, OutcomeInv, SnapInv, MetasInv, StreamInv
<1>2. CASE Track \/ EnqueueLocal
  <2>1. MetasInv'
    BY <1>2, <1>t, AppendMeta DEF Track, EnqueueLocal
  <2> QED
    BY <1>2, <1>t, <2>1 DEF Track, EnqueueLocal, OutcomeInv, SnapInv, StreamInv
<1>3. CASE Subscribe
  BY <1>3, <1>t DEF Subscribe, OutcomeInv, SnapInv, MetasInv, StreamInv
<1>4. ASSUME NEW a \in Slot, Begin(a) PROVE OutcomeInv'
  <2> USE <1>4, <1>t DEF Begin
  <2>1. tracked \in 0..Len(metas) /\ "processing" \in MetaStatus
    BY DEF QueueTypeOK, MetaStatus
  <2>2. /\ Len(metas') = Len(metas)
        /\ \A i \in 1..Len(metas) : metas'[i] = metas[i] \/ metas'[i] = "processing"
    BY <2>1, SetMeta
  <2>3. MetasInv'
    BY <2>2, OutcomeGrows DEF MayTell
  <2>4. SnapInv' /\ StreamInv'
    BY DEF SnapInv, StreamInv, QueueTypeOK
  <2> QED
    BY <2>3, <2>4 DEF OutcomeInv
<1>5. ASSUME NEW a \in Slot, Read(a) PROVE OutcomeInv'
  <2> USE <1>5, <1>t DEF Read
  <2>1. SnapInv'
    BY DEF SnapInv, QueueTypeOK, RowInv
  <2> QED
    BY <2>1, UnmarkedKeeps DEF OutcomeInv
<1>6. ASSUME NEW a \in Slot, Save(a) PROVE OutcomeInv'
  <2> USE <1>6, <1>t DEF Save
  <2>1. SnapInv'
    BY DEF SnapInv, QueueTypeOK
  <2> QED
    BY <2>1, UnmarkedKeeps DEF OutcomeInv
<1>7. ASSUME NEW a \in Slot, GiveUp(a) PROVE OutcomeInv'
  <2> USE <1>7, <1>t DEF GiveUp
  <2>1. SnapInv'
    BY DEF SnapInv, QueueTypeOK
  <2> QED
    BY <2>1, UnmarkedKeeps DEF OutcomeInv
<1>8. ASSUME NEW a \in Slot, ReadLast(a) PROVE OutcomeInv'
  <2> USE <1>8, <1>t DEF ReadLast
  <2>1. /\ snap'[a] = row
        /\ \A b \in Slot : b # a => snap'[b] = snap[b] /\ stage'[b] = stage[b]
        /\ stage'[a] = "end"
    BY DEF QueueTypeOK
  <2>2. SnapInv'
    BY <2>1 DEF SnapInv, RowInv
  <2> QED
    BY <2>2, UnmarkedKeeps DEF OutcomeInv
<1>9. ASSUME NEW a \in Slot, End(a) PROVE OutcomeInv'
  <2> USE <1>9, <1>t DEF End
  <2> DEFINE s == Outcome(snap[a])
  <2>1. /\ s \in {"completed", "failed"}
        /\ s = "completed" => "completed" \in been \/ "cancelled" \in been \/ gaveUp
        /\ s = "failed" => "failed" \in been \/ "absent" \in been
    BY DEF SnapInv, Outcome, Terminal
  <2> HIDE DEF s
  <2>2. handle[a] \in 0..Len(metas) /\ s \in MetaStatus
    BY <2>1 DEF QueueTypeOK, MetaStatus
  <2>3. metas' = IF handle[a] = 0 THEN metas ELSE [metas EXCEPT ![handle[a]] = s]
    BY DEF Mark, s
  <2>4. /\ Len(metas') = Len(metas)
        /\ \A i \in 1..Len(metas) : metas'[i] = metas[i] \/ metas'[i] = s
    BY <2>2, <2>3, SetMeta
  <2>5. MetasInv'
    BY <2>1, <2>4, OutcomeGrows DEF MayTell
  <2>6. closedBy' = closedBy \/ closedBy' = s
    BY DEF Tell, s
  <2>7. StreamInv'
    BY <2>1, <2>6 DEF StreamInv
  <2>8. SnapInv'
    BY DEF SnapInv, Leave, QueueTypeOK
  <2> QED
    BY <2>5, <2>7, <2>8 DEF OutcomeInv
<1>10. ASSUME NEW a \in Slot, Throw(a) PROVE OutcomeInv'
  <2> USE <1>10, <1>t DEF Throw
  <2>1. handle[a] \in 0..Len(metas) /\ "failed" \in MetaStatus
    BY DEF QueueTypeOK, MetaStatus
  <2>2. /\ Len(metas') = Len(metas)
        /\ \A i \in 1..Len(metas) : metas'[i] = metas[i] \/ metas'[i] = "failed"
    BY <2>1, SetMeta DEF Mark
  <2>3. MetasInv'
    BY <2>2, OutcomeGrows DEF MayTell
  <2>4. SnapInv' /\ StreamInv'
    BY DEF SnapInv, StreamInv, Leave, QueueTypeOK
  <2> QED
    BY <2>3, <2>4 DEF OutcomeInv
<1>11. CASE Restart
  <2>1. Len(metas') = 0
    BY <1>11, EmptySeq DEF Restart
  <2> QED
    BY <1>11, <1>t, <2>1 DEF Restart, OutcomeInv, SnapInv, MetasInv, StreamInv
<1>12. CASE Execute
  <2> USE <1>12, <1>t DEF Execute, Write
  <2>1. been \subseteq been' /\ row # "absent"
    BY DEF RowInv
  <2>2. SnapInv'
    BY <2>1 DEF SnapInv
  <2> QED
    BY <2>1, <2>2, UnmarkedKeeps DEF OutcomeInv
<1>13. CASE CancelElsewhere
  <2> USE <1>13, <1>t DEF CancelElsewhere, Write
  <2>1. been \subseteq been'
    OBVIOUS
  <2>2. SnapInv'
    BY <2>1 DEF SnapInv
  <2> QED
    BY <2>1, <2>2, UnmarkedKeeps DEF OutcomeInv
<1>14. CASE UNCHANGED queueVars
  BY <1>14, <1>t DEF queueVars, OutcomeInv, SnapInv, MetasInv, StreamInv
<1> QED
  BY <1>1, <1>2, <1>3, <1>4, <1>5, <1>6, <1>7, <1>8, <1>9, <1>10, <1>11, <1>12, <1>13, <1>14
     DEF QueueNext, Enqueue, Process

-----------------------------------------------------------------------------
LEMMA Invariance == QueueSpec => []IInv
<1>1. QueueInit => IInv
  BY QueueTypeInit, ProgressInit, OutcomeInit DEF IInv
<1>2. IInv /\ [QueueNext]_queueVars => IInv'
  BY QueueTypeStep, ProgressStep, OutcomeStep DEF IInv, ProgressInv, OutcomeInv
<1> QED
  BY <1>1, <1>2, PTL DEF QueueSpec

(* Whatever a tracked job or a stream says of the outcome was true of the   *)
(* row at some time, but for what a lost poll, a poll that gave up or a     *)
(* restart makes of it.                                                     *)
THEOREM OutcomesTrue == QueueSpec => []OutcomesAreTrue
<1>1. IInv => OutcomesAreTrue
  <2> SUFFICES ASSUME IInv PROVE OutcomesAreTrue
    OBVIOUS
  <2>1. DOMAIN metas = 1..Len(metas)
    BY LenProperties DEF IInv, QueueTypeInv, QueueTypeOK
  <2> QED
    BY <2>1 DEF IInv, OutcomeInv, MetasInv, StreamInv, MayTell, OutcomesAreTrue
<1> QED
  BY <1>1, Invariance, PTL

(* Once the work on a run is done, and nothing failed, the checkpoint that  *)
(* is left is of a run that is over.                                        *)
THEOREM CheckpointIsLast == QueueSpec => []CheckpointSound
<1>1. IInv => CheckpointSound
  BY DEF IInv, QueueTypeInv, ProgressInv, DiskInv, CheckpointIsFinal, Busy,
         CheckpointSound
<1> QED
  BY <1>1, Invariance, PTL
=============================================================================
