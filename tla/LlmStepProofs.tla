----------------------------- MODULE LlmStepProofs -----------------------------
(***************************************************************************)
(* What holds of an agent step for any models, chains, limits and rounds:  *)
(* a budget that was spent when the step began lets no model be called,    *)
(* costs are counted once, every tool call is answered in its place before *)
(* the next model call, and the chain is tried to its end.  The invariant  *)
(* says where the walk over the levels is relative to the spent budgets,   *)
(* and how the rounds, the responses and the messages go together.         *)
(***************************************************************************)
EXTENDS LlmStep, SequenceTheorems, TLAPS

USE ChainsAssumption, NoneAssumption, BoundsAssumption

Early == {"idle", "walk", "guard"}

(* A budget in kept stays spent, and the walk has not passed it.           *)
WalkInv ==
  /\ \A l \in kept : policy[l] # None /\ Spent(policy[l])
  /\ phase = "idle" => level = 1
  /\ phase \in {"walk", "guard"} => \A l \in kept : level <= l
  /\ phase = "guard" /\ level \in kept => found = policy[level]
  /\ SpentBudgetStops

CostInv == /\ CountedOnce
           /\ phase \in Early => used = 0

(* Rounds are counted by the responses that called tools.                  *)
RoundInv ==
  /\ phase \in Early => /\ round = 0 /\ messages = << >> /\ ~hit
                        /\ trying = 0 /\ refused = {} /\ left = {}
  /\ phase = "chat" => /\ used = round
                       /\ messages = << >> <=> round = 0
                       /\ hit <=> round = MaxRounds
  /\ phase = "tools" => /\ used = round + 1 /\ round < MaxRounds /\ ~hit
                        /\ trying = 0
                        /\ messages # << >>
                        /\ messages[Len(messages)].role = "assistant"
                        /\ messages[Len(messages)].round = round
                        /\ messages[Len(messages)].calls \in 1..MaxCalls
  /\ HitMaxRounds

(* What failed since the last answer: the models before the one called.    *)
Before == IF trying = 0 THEN {} ELSE {active} \cup {chain[i] : i \in 1..(trying - 1)}

ModelInv == /\ phase = "chat" => Before \subseteq refused
            /\ ReplacedStaysAway

(* The calls among the first k messages, and their answers.                *)
Complete(m, k) ==
  \A i \in 1..k :
    /\ m[i].role = "assistant" =>
         \A j \in 1..m[i].calls :
           /\ i + j \in 1..k
           /\ m[i + j] = [role |-> "tool", round |-> m[i].round, call |-> j]
    /\ m[i].role = "tool" =>
         /\ i > m[i].call
         /\ m[i - m[i].call].role = "assistant"
         /\ m[i - m[i].call].calls >= m[i].call

AnswerInv ==
  /\ phase = "chat" => Complete(messages, Len(messages))
  /\ phase = "tools" => Complete(messages, Len(messages) - 1)

IInv == TypeOK /\ WalkInv /\ CostInv /\ RoundInv /\ ModelInv /\ AnswerInv

-----------------------------------------------------------------------------
LEMMA InitInv == Init => IInv
<1> SUFFICES ASSUME Init PROVE IInv
  OBVIOUS
<1>1. TypeOK
  <2>1. << >> \in Seq(Message) /\ Len(<< >>) = 0 /\ 0 \in 0..0
    OBVIOUS
  <2>2. /\ policy \in [Level -> Policy \cup {None}]
        /\ spent \in [Period -> Nat]
        /\ {due, used, paid} \subseteq Nat
        /\ others \in 0..MaxOther /\ steps \in 0..MaxSteps
    BY PoliciesAssumption DEF Init, Policy, Level
  <2>3. /\ level \in Level \cup {5} /\ found \in Policy \cup {None}
        /\ chain \in Chains \cup {<< >>} /\ trying \in 0..Len(chain)
        /\ messages \in Seq(Message) /\ round \in 0..MaxRounds
    BY <2>1 DEF Init, Level
  <2>4. /\ active \in Model \cup {None} /\ hit \in BOOLEAN
        /\ refused \subseteq Model \cup {None} /\ left \subseteq Model \cup {None}
        /\ done \subseteq 1..MaxCalls /\ kept \subseteq Level
        /\ phase = "idle"
    BY Zenon DEF Init
  <2> QED
    BY <2>2, <2>3, <2>4 DEF TypeOK
<1>2. WalkInv /\ CostInv
  BY DEF Init, WalkInv, CostInv, CountedOnce, SpentBudgetStops
<1>3. RoundInv /\ ModelInv /\ AnswerInv
  BY DEF Init, RoundInv, ModelInv, AnswerInv, HitMaxRounds, ReplacedStaysAway, Early
<1> QED
  BY <1>1, <1>2, <1>3 DEF IInv

(* What the assumptions give of the arithmetic.                            *)
LEMMA Numbers ==
  ASSUME TypeOK
  PROVE  /\ spent \in [Period -> Nat] /\ due \in Nat /\ used \in Nat /\ paid \in Nat
         /\ round \in Nat /\ MaxRounds \in Nat /\ Len(chain) \in Nat
         /\ level \in 1..5 /\ chain \in Seq(Model)
         /\ Len(messages) \in Nat
<1>1. chain \in Seq(Model)
  <2>1. chain \in Chains \/ chain = << >>
    BY DEF TypeOK
  <2>2. << >> \in Seq(Model)
    OBVIOUS
  <2> QED
    BY <2>1, <2>2
<1>2. messages \in Seq(Message) /\ level \in 1..5
  BY DEF TypeOK, Level
<1>3. MaxRounds \in Nat /\ round \in 0..MaxRounds
  BY DEF TypeOK
<1>4. spent \in [Period -> Nat] /\ due \in Nat /\ used \in Nat /\ paid \in Nat
  BY DEF TypeOK
<1> QED
  BY <1>1, <1>2, <1>3, <1>4

LEMMA TypeInductive == ASSUME IInv, [Next]_vars PROVE TypeOK'
<1>t. TypeOK /\ RoundInv /\ WalkInv
  BY DEF IInv
<1>n. /\ spent \in [Period -> Nat] /\ due \in Nat /\ used \in Nat /\ paid \in Nat
      /\ round \in Nat /\ Len(chain) \in Nat /\ chain \in Seq(Model)
  BY <1>t, Numbers
<1>1. CASE ExecuteDirect
  BY <1>t, <1>1 DEF TypeOK, ExecuteDirect, SpentLevels, loop
<1>2. CASE AgentMissing \/ ExecuteTool
  <2>1. /\ steps < MaxSteps /\ steps' = steps + 1 /\ phase' \in {"failed", "thrown"}
        /\ UNCHANGED <<policy, spent, others, due, paid, walk, loop>>
    BY <1>2 DEF AgentMissing, ExecuteTool
  <2> QED
    BY <1>t, <2>1 DEF TypeOK, walk, loop
<1>3. CASE ResolveBudget
  <2>1. level' \in Level \cup {5} /\ found' \in Policy \cup {None}
    BY <1>t, <1>3 DEF TypeOK, ResolveBudget, Level
  <2> QED
    BY <1>t, <1>3, <2>1 DEF TypeOK, ResolveBudget, budget, loop
<1>4. CASE BudgetGuard
  <2>1. /\ chain' \in Chains \cup {<< >>} /\ active' \in Model \cup {None}
        /\ phase' \in {"thrown", "chat"}
    BY <1>t, <1>4 DEF TypeOK, BudgetGuard, SelectModel
  <2>2. trying' \in 0..Len(chain')
    <3>1. trying' = 0
      BY <1>t, <1>4 DEF RoundInv, Early, BudgetGuard
    <3>2. Len(chain') \in Nat
      BY <2>1
    <3> QED
      BY <3>1, <3>2
  <2> QED
    BY <1>t, <1>4, <2>1, <2>2 DEF TypeOK, BudgetGuard, budget, walk
<1>a. ASSUME Answered, phase = "chat"
      PROVE  /\ active' \in Model \cup {None} /\ left' \subseteq Model \cup {None}
             /\ refused' \subseteq Model \cup {None}
             /\ trying' \in 0..Len(chain) /\ used' \in Nat /\ paid' \in Nat
  <2>1. Called \in Model \cup {None}
    BY <1>t, <1>n DEF Called, TypeOK
  <2> QED
    BY <1>t, <1>n, <1>a, <2>1 DEF Answered, TypeOK
<1>5. CASE FinalAnswer
  BY <1>t, <1>a, <1>5 DEF TypeOK, FinalAnswer, walk
<1>6. ASSUME NEW n \in 1..MaxCalls, CallTools(n) PROVE TypeOK'
  <2>1. [role |-> "assistant", round |-> round, calls |-> n] \in Message
    BY <1>t, <1>6 DEF TypeOK, Message, CallTools
  <2>2. messages' \in Seq(Message)
    BY <1>t, <1>6, <2>1 DEF TypeOK, CallTools
  <2> QED
    BY <1>t, <1>a, <1>6, <2>2 DEF TypeOK, CallTools, walk
<1>7. CASE ChatFails
  <2>1. Called \in Model \cup {None}
    BY <1>t, <1>n DEF Called, TypeOK
  <2> QED
    BY <1>t, <1>n, <1>7, <2>1 DEF TypeOK, ChatFails, budget, walk
<1>8. CASE RoundsOver \/ InvokeThrows \/ QueryFails
  BY <1>t, <1>8 DEF TypeOK, RoundsOver, InvokeThrows, QueryFails, budget, walk, loop
<1>9. ASSUME NEW i \in 1..MaxCalls, InvokeEnds(i) PROVE TypeOK'
  BY <1>t, <1>9 DEF TypeOK, InvokeEnds, budget, walk
<1>10. CASE JoinTools
  <2>1. /\ Last(messages).calls \in 1..MaxCalls /\ round \in 0..(MaxRounds - 1)
        /\ round + 1 \in 0..MaxRounds
    BY <1>t, <1>n, <1>10 DEF RoundInv, JoinTools, Last
  <2>2. \A i \in Calls : Result(i) \in Message
    BY <2>1 DEF Calls, Result, Message
  <2>3. [i \in Calls |-> Result(i)] \in Seq(Message)
    BY <2>1, <2>2 DEF Calls
  <2>4. messages' \in Seq(Message)
    BY <1>t, <1>10, <2>3 DEF TypeOK, JoinTools
  <2> QED
    BY <1>t, <1>10, <2>1, <2>4 DEF TypeOK, JoinTools, budget, walk
<1>11. CASE GoOn \/ EndRun \/ CancelRun
  <2>1. /\ phase' = "idle" /\ level' = 1 /\ found' = None /\ kept' = {}
        /\ chain' = << >> /\ trying' = 0 /\ active' = None
        /\ round' = 0 /\ used' = 0 /\ messages' = << >> /\ done' = {}
        /\ hit' = FALSE /\ refused' = {} /\ left' = {}
        /\ UNCHANGED <<policy, others, steps, paid>>
    BY <1>11 DEF GoOn, EndRun, CancelRun, Return
  <2>2. spent' \in [Period -> Nat] /\ due' \in Nat
    BY <1>n, <1>11 DEF GoOn, EndRun, CancelRun, Cost, SpendIn
  <2>3. << >> \in Seq(Message) /\ 0 \in 0..Len(<< >>)
    OBVIOUS
  <2>4. /\ messages' \in Seq(Message) /\ trying' \in 0..Len(chain')
        /\ level' \in Level \cup {5} /\ round' \in 0..MaxRounds
    BY <2>1, <2>3 DEF Level
  <2>5. /\ policy' \in [Level -> Policy \cup {None}]
        /\ others' \in 0..MaxOther /\ steps' \in 0..MaxSteps
        /\ spent' \in [Period -> Nat] /\ {due', used', paid'} \subseteq Nat
    BY <1>t, <1>n, <2>1, <2>2 DEF TypeOK
  <2>6. /\ found' \in Policy \cup {None} /\ chain' \in Chains \cup {<< >>}
        /\ active' \in Model \cup {None}
        /\ refused' \subseteq Model \cup {None} /\ left' \subseteq Model \cup {None}
        /\ done' \subseteq 1..MaxCalls /\ kept' \subseteq Level /\ hit' \in BOOLEAN
    BY <2>1, Zenon
  <2> QED
    BY <2>1, <2>4, <2>5, <2>6 DEF TypeOK
<1>12. CASE OtherRunEnds
  BY <1>t, <1>n, <1>12 DEF TypeOK, OtherRunEnds, SpendIn, walk, loop
<1>13. ASSUME NEW l \in Level, NEW p \in Policies[l] \cup {None}, EditPolicy(l, p)
       PROVE  TypeOK'
  <2>1. p \in Policy \cup {None}
    BY PoliciesAssumption DEF Policy, Level
  <2>2. policy' \in [Level -> Policy \cup {None}]
    BY <1>t, <1>13, <2>1 DEF TypeOK, EditPolicy
  <2> QED
    BY <1>t, <1>13, <2>2 DEF TypeOK, EditPolicy, loop
<1>15. ASSUME NEW d \in Period, NEW n \in 0..(spent[d] - 1), WindowMoves(d, n)
       PROVE  TypeOK'
  <2>1. spent' \in [Period -> Nat] /\ kept' \subseteq Level
    BY <1>t, <1>n, <1>15 DEF TypeOK, WindowMoves
  <2> QED
    BY <1>t, <1>15, <2>1 DEF TypeOK, WindowMoves, loop
<1>14. CASE UNCHANGED vars
  BY <1>t, <1>14 DEF TypeOK, vars, budget, walk, loop
<1> QED
  BY <1>1, <1>2, <1>3, <1>4, <1>5, <1>6, <1>7, <1>8, <1>9, <1>10, <1>11, <1>12,
     <1>13, <1>14, <1>15 DEF Next, Proceed

-----------------------------------------------------------------------------
(* The walk, and what it may pass.                                         *)
LEMMA WalkInductive == ASSUME IInv, [Next]_vars PROVE WalkInv'
<1>t. /\ TypeOK /\ WalkInv /\ level \in 1..5 /\ spent \in [Period -> Nat]
      /\ due \in Nat /\ used \in Nat
  BY Numbers DEF IInv
<1>p. \A l \in kept : /\ l \in 1..4 /\ policy[l] \in Policy
                      /\ policy[l].limitUsd \in Nat /\ policy[l].periodDays \in Period
  BY <1>t DEF TypeOK, WalkInv, Level, Policy
<1>s. ASSUME policy' = policy, \A d \in Period : spent'[d] \in Nat /\ spent'[d] >= spent[d]
      PROVE  \A l \in kept : policy'[l] # None /\ Spent(policy[l])'
  <2> SUFFICES ASSUME NEW l \in kept PROVE policy[l] # None /\ Spent(policy[l])'
    BY <1>s
  <2>1. spent[policy[l].periodDays] >= policy[l].limitUsd /\ policy[l] # None
    BY <1>t DEF WalkInv, Spent
  <2>2. spent'[policy[l].periodDays] >= policy[l].limitUsd
    BY <1>t, <1>p, <1>s, <2>1
  <2> QED
    BY <1>s, <2>1, <2>2 DEF Spent
<1>c. ASSUME NEW w, NEW c \in Nat, SpendIn(w, c)
      PROVE  \A d \in Period : spent'[d] \in Nat /\ spent'[d] >= spent[d]
  BY <1>t, <1>c DEF SpendIn
<1>1. CASE ExecuteDirect
  <2>1. \A l \in kept' : l \in 1..4 /\ policy[l] # None /\ Spent(policy[l])
    BY <1>1 DEF ExecuteDirect, SpentLevels, Level
  <2>2. level' = 1 /\ phase' = "walk" /\ policy' = policy /\ spent' = spent
    BY <1>t, <1>1 DEF ExecuteDirect, WalkInv
  <2> QED
    BY <2>1, <2>2 DEF WalkInv, SpentBudgetStops, Spent
<1>2. CASE AgentMissing \/ ExecuteTool
  BY <1>t, <1>2 DEF WalkInv, SpentBudgetStops, Spent, AgentMissing, ExecuteTool, walk
<1>3. CASE ResolveBudget
  <2>1. /\ policy' = policy /\ spent' = spent /\ kept' = kept /\ phase = "walk"
    BY <1>3 DEF ResolveBudget, budget
  <2>2. CASE level <= 4 /\ policy[level] = None
    <3>1. level' = level + 1 /\ phase' = "walk"
      BY <1>3, <2>2 DEF ResolveBudget
    <3>2. \A l \in kept : level <= l /\ l # level
      BY <1>t, <2>1, <2>2 DEF WalkInv
    <3>3. \A l \in kept : level' <= l
      BY <1>t, <1>p, <3>1, <3>2
    <3> QED
      BY <1>t, <2>1, <3>1, <3>3 DEF WalkInv, SpentBudgetStops, Spent
  <2>3. CASE ~(level <= 4 /\ policy[level] = None)
    <3>1. /\ phase' = "guard" /\ level' = level
          /\ found' = IF level <= 4 THEN policy[level] ELSE None
      BY <1>3, <2>3 DEF ResolveBudget
    <3>2. level \in kept => found' = policy[level]
      BY <1>p, <3>1
    <3> QED
      BY <1>t, <2>1, <3>1, <3>2 DEF WalkInv, SpentBudgetStops, Spent
  <2> QED
    BY <2>2, <2>3
<1>4. CASE BudgetGuard
  <2>1. /\ policy' = policy /\ spent' = spent /\ kept' = kept /\ level' = level
        /\ phase = "guard"
        /\ phase' = "thrown" \/ (phase' = "chat" /\ ~Exceeded)
    BY <1>4 DEF BudgetGuard, budget, walk, SelectModel
  <2>2. ~Exceeded => level \notin kept
    BY <1>t, <1>p, <2>1 DEF WalkInv, Exceeded
  <2>3. ~Exceeded => \A l \in kept : level < l
    BY <1>t, <1>p, <2>1, <2>2 DEF WalkInv
  <2> QED
    BY <1>t, <2>1, <2>3 DEF WalkInv, SpentBudgetStops, Spent
<1>5. CASE \/ FinalAnswer \/ (\E n \in 1..MaxCalls : CallTools(n)) \/ ChatFails
           \/ RoundsOver \/ (\E i \in 1..MaxCalls : InvokeEnds(i))
           \/ InvokeThrows \/ JoinTools
  <2>1. /\ policy' = policy /\ spent' = spent /\ kept' = kept /\ level' = level
        /\ phase \in {"chat", "tools"}
        /\ phase' \in {"chat", "tools", "completed", "thrown"}
    BY <1>5 DEF FinalAnswer, CallTools, ChatFails, RoundsOver, InvokeEnds,
                InvokeThrows, JoinTools, budget, walk
  <2> QED
    BY <1>t, <2>1 DEF WalkInv, SpentBudgetStops, Spent
<1>6. CASE GoOn \/ EndRun \/ CancelRun
  BY <1>6 DEF WalkInv, SpentBudgetStops, GoOn, EndRun, CancelRun, Return
<1>7. CASE OtherRunEnds
  <2>1. /\ policy' = policy /\ kept' = kept /\ level' = level /\ phase' = phase
        /\ found' = found
    BY <1>7 DEF OtherRunEnds, walk
  <2>2. \A l \in kept : policy'[l] # None /\ Spent(policy[l])'
    BY <1>7, <1>c, <1>s DEF OtherRunEnds
  <2> QED
    BY <1>t, <2>1, <2>2 DEF WalkInv, SpentBudgetStops, Spent
<1>8. ASSUME NEW l \in Level, NEW p \in Policies[l] \cup {None}, EditPolicy(l, p)
      PROVE  WalkInv'
  <2>1. /\ kept' = kept \ {l} /\ phase' = phase /\ level' = level
        /\ found' = found /\ spent' = spent
        /\ \A k \in kept' : policy'[k] = policy[k]
    BY <1>t, <1>8 DEF TypeOK, EditPolicy
  <2> QED
    BY <1>t, <2>1 DEF WalkInv, SpentBudgetStops, Spent
<1>10. ASSUME NEW d \in Period, NEW n \in 0..(spent[d] - 1), WindowMoves(d, n)
       PROVE  WalkInv'
  <2>1. /\ kept' \subseteq kept /\ policy' = policy /\ phase' = phase
        /\ level' = level /\ found' = found
        /\ \A l \in kept' : spent'[policy[l].periodDays] >= policy[l].limitUsd
    BY <1>10 DEF WindowMoves
  <2> QED
    BY <1>t, <2>1 DEF WalkInv, SpentBudgetStops, Spent
<1>9. CASE UNCHANGED vars
  BY <1>t, <1>9 DEF WalkInv, SpentBudgetStops, Spent, vars, budget, walk
<1>11. CASE QueryFails
  BY <1>t, <1>11 DEF WalkInv, SpentBudgetStops, Spent, QueryFails, budget, walk
<1> QED
  BY <1>1, <1>2, <1>3, <1>4, <1>5, <1>6, <1>7, <1>8, <1>9, <1>10, <1>11
     DEF Next, Proceed

(* The cost.                                                               *)
LEMMA CostInductive == ASSUME IInv, [Next]_vars PROVE CostInv'
<1>t. /\ CostInv
      /\ phase \in Early => used = 0
      /\ spent \in [Period -> Nat] /\ due \in Nat /\ used \in Nat /\ paid \in Nat
  BY Numbers DEF IInv, CostInv
<1> USE DEF CostInv, CountedOnce, Early
<1>1. CASE ExecuteDirect \/ AgentMissing \/ ExecuteTool
  BY <1>t, <1>1 DEF ExecuteDirect, AgentMissing, ExecuteTool, loop
<1>2. CASE ResolveBudget \/ BudgetGuard \/ QueryFails
  BY <1>t, <1>2 DEF ResolveBudget, BudgetGuard, QueryFails, SelectModel, budget, loop
<1>3. CASE FinalAnswer \/ \E n \in 1..MaxCalls : CallTools(n)
  <2>1. /\ phase = "chat" /\ phase' \in {"tools", "completed"}
        /\ used' = used + 1 /\ paid' = paid + 1 /\ spent' = spent /\ due' = due
    BY <1>3 DEF FinalAnswer, CallTools, Answered
  <2>2. \A d \in Period : spent[d] \in Nat /\ spent[d] + due + used <= paid
    BY <1>t, <2>1
  <2>3. \A d \in Period : spent'[d] + due' + used' <= paid'
    BY <1>t, <2>1, <2>2
  <2> QED
    BY <2>1, <2>3
<1>4. CASE \/ ChatFails \/ RoundsOver \/ (\E i \in 1..MaxCalls : InvokeEnds(i))
           \/ InvokeThrows \/ JoinTools
  <2>1. /\ spent' = spent /\ due' = due /\ used' = used /\ paid' = paid
        /\ phase \in {"chat", "tools"}
        /\ phase' \in {"chat", "tools", "completed", "thrown"}
    BY <1>4 DEF ChatFails, RoundsOver, InvokeEnds, InvokeThrows, JoinTools,
                budget, loop
  <2>2. \A d \in Period : /\ spent[d] \in Nat
                          /\ spent[d] + due + used <= paid /\ spent[d] + due + 0 <= paid
    BY <1>t, <2>1
  <2> QED
    BY <2>1, <2>2
<1>5. CASE GoOn \/ EndRun \/ CancelRun
  <2>1. /\ phase' = "idle" /\ used' = 0 /\ paid' = paid /\ StepOver
        /\ Cost \in Nat /\ due' \in {0, Cost}
    BY <1>t, <1>5 DEF GoOn, EndRun, CancelRun, Return, Cost, StepOver
  <2>2. \A d \in Period : spent[d] \in Nat /\ spent[d] + Cost <= paid
    BY <1>t, <2>1 DEF Cost, StepOver
  <2>3. \A d \in Period : \/ due' = Cost /\ spent'[d] = spent[d]
                          \/ due' = 0 /\ spent'[d] \in {spent[d], spent[d] + Cost}
    BY <1>t, <1>5 DEF GoOn, EndRun, CancelRun, SpendIn
  <2>4. ASSUME NEW d \in Period PROVE spent'[d] + due' + 0 <= paid'
    <3> DEFINE x == spent[d]
               y == spent'[d]
    <3>1. x \in Nat /\ x + Cost <= paid /\ Cost \in Nat
      BY <2>1, <2>2
    <3>2. \/ due' = Cost /\ y = x
          \/ due' = 0 /\ y \in {x, x + Cost}
      BY <2>3
    <3> HIDE DEF x, y
    <3>3. y + due' + 0 <= paid
      BY <1>t, <3>1, <3>2
    <3> QED
      BY <2>1, <3>3 DEF y
  <2> QED
    BY <2>1, <2>4
<1>6. CASE OtherRunEnds
  <2>1. \A d \in Period : spent[d] \in Nat /\ spent'[d] \in {spent[d], spent[d] + 1}
    BY <1>t, <1>6 DEF OtherRunEnds, SpendIn
  <2>2. /\ paid' = paid + 1 /\ due' = due /\ used' = used /\ phase' = phase
    BY <1>6 DEF OtherRunEnds, loop
  <2> QED
    BY <1>t, <2>1, <2>2
<1>7. CASE \/ UNCHANGED vars
           \/ \E l \in Level : \E p \in Policies[l] \cup {None} : EditPolicy(l, p)
  BY <1>t, <1>7 DEF EditPolicy, vars, budget, loop
<1>8. ASSUME NEW d \in Period, NEW n \in 0..(spent[d] - 1), WindowMoves(d, n)
      PROVE  CostInv'
  <2>1. \A e \in Period : spent[e] \in Nat /\ spent'[e] \in Nat /\ spent'[e] <= spent[e]
    BY <1>t, <1>8 DEF WindowMoves
  <2>2. /\ paid' = paid /\ due' = due /\ used' = used /\ phase' = phase
    BY <1>8 DEF WindowMoves, loop
  <2> QED
    BY <1>t, <2>1, <2>2
<1> QED
  BY <1>1, <1>2, <1>3, <1>4, <1>5, <1>6, <1>7, <1>8 DEF Next, Proceed

(* What happens outside the step leaves its loop alone.                    *)
Meanwhile == \/ OtherRunEnds \/ UNCHANGED vars
             \/ \E l \in Level : \E p \in Policies[l] \cup {None} : EditPolicy(l, p)
             \/ \E d \in Period : \E n \in 0..(spent[d] - 1) : WindowMoves(d, n)

LEMMA MeanwhileKeeps ==
  ASSUME Meanwhile PROVE phase' = phase /\ loop' = loop
BY DEF Meanwhile, OtherRunEnds, EditPolicy, WindowMoves, vars, budget

(* The rounds.                                                             *)
LEMMA RoundInductive == ASSUME IInv, [Next]_vars PROVE RoundInv'
<1>t. /\ RoundInv /\ CostInv /\ messages \in Seq(Message)
      /\ used \in Nat /\ round \in 0..MaxRounds /\ MaxRounds \in Nat \ {0}
  BY Numbers DEF IInv, TypeOK
<1> USE DEF HitMaxRounds, Early
<1>1. CASE ExecuteDirect \/ AgentMissing \/ ExecuteTool
  BY <1>t, <1>1 DEF RoundInv, ExecuteDirect, AgentMissing, ExecuteTool, loop
<1>2. CASE ResolveBudget
  BY <1>t, <1>2 DEF RoundInv, ResolveBudget, loop
<1>3. CASE BudgetGuard
  BY <1>t, <1>3 DEF RoundInv, CostInv, BudgetGuard, SelectModel, budget
<1>4. CASE FinalAnswer
  BY <1>t, <1>4 DEF RoundInv, FinalAnswer, Answered
<1>5. ASSUME NEW n \in 1..MaxCalls, CallTools(n) PROVE RoundInv'
  <2> DEFINE m == [role |-> "assistant", round |-> round, calls |-> n]
  <2>1. /\ messages' = Append(messages, m) /\ phase' = "tools" /\ used' = used + 1
        /\ phase = "chat" /\ round < MaxRounds /\ round' = round /\ hit' = hit
        /\ trying' = 0
    BY <1>5 DEF CallTools, Answered
  <2>2. messages' # << >> /\ messages'[Len(messages')] = m
    BY <1>t, <2>1
  <2>3. m.role = "assistant" /\ m.round = round /\ m.calls = n
    OBVIOUS
  <2> HIDE DEF m
  <2> QED
    BY <1>t, <2>1, <2>2, <2>3 DEF RoundInv
<1>6. CASE ChatFails \/ RoundsOver \/ InvokeThrows \/ QueryFails
  BY <1>t, <1>6 DEF RoundInv, ChatFails, RoundsOver, InvokeThrows, QueryFails, budget, loop
<1>7. ASSUME NEW i \in 1..MaxCalls, InvokeEnds(i) PROVE RoundInv'
  BY <1>t, <1>7 DEF RoundInv, InvokeEnds, budget
<1>8. CASE JoinTools
  <2>1. /\ phase = "tools" /\ phase' = "chat" /\ round' = round + 1 /\ used' = used
        /\ hit' = (round = MaxRounds - 1)
        /\ messages' = messages \o [i \in Calls |-> Result(i)]
    BY <1>8 DEF JoinTools, budget
  <2>2. Calls = 1..messages[Len(messages)].calls /\ messages[Len(messages)].calls \in Nat
    BY <1>t, <2>1 DEF RoundInv, Calls, Last
  <2>3. messages' # << >>
    <3> DEFINE r == [i \in Calls |-> Result(i)]
    <3>1. r \in Seq({Result(i) : i \in Calls})
      BY <2>2
    <3>2. Len(messages \o r) = Len(messages) + Len(r) /\ Len(r) \in Nat
      BY <1>t, <3>1, ConcatProperties
    <3>3. Len(messages) > 0
      BY <1>t, <2>1 DEF RoundInv
    <3> QED
      BY <1>t, <2>1, <3>2, <3>3
  <2>4. /\ used' = round' /\ round' # 0
        /\ hit' <=> round' = MaxRounds
    <3>1. used' = round' /\ round' # 0
      BY <1>t, <2>1 DEF RoundInv
    <3>2. (round = MaxRounds - 1) <=> (round' = MaxRounds)
      BY <1>t, <2>1
    <3> QED
      BY <2>1, <3>1, <3>2, Zenon
  <2> QED
    BY <1>t, <2>1, <2>3, <2>4, Zenon DEF RoundInv
<1>9. CASE GoOn \/ EndRun \/ CancelRun
  BY <1>9 DEF RoundInv, GoOn, EndRun, CancelRun, Return
<1>10. CASE Meanwhile
  BY <1>t, <1>10, MeanwhileKeeps DEF RoundInv, loop
<1> QED
  BY <1>1, <1>2, <1>3, <1>4, <1>5, <1>6, <1>7, <1>8, <1>9, <1>10
     DEF Next, Proceed, Meanwhile

(* Which models have failed, and which were replaced.                      *)
LEMMA ModelInductive == ASSUME IInv, [Next]_vars PROVE ModelInv'
<1>t. /\ ModelInv /\ RoundInv /\ chain \in Seq(Model) /\ trying \in 0..Len(chain)
      /\ Len(chain) \in Nat
  BY Numbers DEF IInv, TypeOK
<1>e. ToSet(chain) = {chain[i] : i \in 1..Len(chain)}
  BY <1>t DEF ToSet
<1> USE DEF ModelInv, ReplacedStaysAway
<1>1. CASE Answered /\ chain' = chain /\ phase' # "chat"
  <2>1. CASE trying = 0
    BY <1>t, <1>1, <2>1 DEF Answered, Called
  <2>2. CASE trying # 0
    <3>1. active' = chain[trying] /\ trying \in 1..Len(chain)
      BY <1>t, <1>1, <2>2 DEF Answered, Called
    <3> QED
      BY <1>e, <1>1, <3>1
  <2> QED
    BY <2>1, <2>2
<1>2. CASE FinalAnswer \/ \E n \in 1..MaxCalls : CallTools(n)
  BY <1>1, <1>2 DEF FinalAnswer, CallTools
<1>3. CASE ChatFails
  <2>1. /\ refused' = refused \cup {Called} /\ active' = active /\ chain' = chain
        /\ left' = left /\ phase = "chat"
        /\ phase' = "chat" => trying' = trying + 1
    BY <1>3 DEF ChatFails
  <2>2. phase' = "chat" => Before' = Before \cup {Called}
    <3> SUFFICES ASSUME phase' = "chat" PROVE Before' = Before \cup {Called}
      OBVIOUS
    <3>1. trying' = trying + 1 /\ trying' # 0 /\ trying' - 1 = trying
      BY <1>t, <2>1
    <3>2. Before' = {active} \cup {chain[i] : i \in 1..trying}
      BY <2>1, <3>1 DEF Before
    <3>3. CASE trying = 0
      <4>1. {chain[i] : i \in 1..trying} = {}
        BY <3>3
      <4> QED
        BY <3>2, <3>3, <4>1 DEF Before, Called
    <3>4. CASE trying # 0
      <4>1. 1..trying = 1..(trying - 1) \cup {trying}
        BY <1>t, <3>4
      <4> QED
        BY <3>2, <3>4, <4>1 DEF Before, Called
    <3> QED
      BY <3>3, <3>4
  <2> QED
    BY <1>t, <2>1, <2>2
<1>4. CASE BudgetGuard
  BY <1>t, <1>4 DEF BudgetGuard, RoundInv, Early, Before
<1>5. CASE JoinTools
  <2>1. /\ refused' = refused /\ active' = active /\ chain' = chain /\ left' = left
        /\ trying' = trying /\ trying = 0
    BY <1>t, <1>5 DEF JoinTools, RoundInv
  <2> QED
    BY <1>t, <2>1 DEF Before
<1>6. CASE \/ ExecuteDirect \/ AgentMissing \/ ExecuteTool \/ ResolveBudget \/ RoundsOver
           \/ (\E i \in 1..MaxCalls : InvokeEnds(i)) \/ InvokeThrows \/ QueryFails
  <2>1. /\ phase' # "chat" /\ active' = active /\ chain' = chain /\ left' = left
    BY <1>6 DEF ExecuteDirect, AgentMissing, ExecuteTool, ResolveBudget, RoundsOver,
                InvokeEnds, InvokeThrows, QueryFails, loop
  <2> QED
    BY <1>t, <2>1
<1>7. CASE GoOn \/ EndRun \/ CancelRun
  BY <1>7 DEF GoOn, EndRun, CancelRun, Return
<1>8. CASE Meanwhile
  BY <1>t, <1>8, MeanwhileKeeps DEF loop, Before
<1> QED
  BY <1>2, <1>3, <1>4, <1>5, <1>6, <1>7, <1>8 DEF Next, Proceed, Meanwhile

-----------------------------------------------------------------------------
(* The conversation.  ConcatProperties, for use where more is in scope.    *)
LEMMA Concatenation ==
  ASSUME NEW S, NEW s \in Seq(S), NEW t \in Seq(S)
  PROVE  /\ Len(s \o t) = Len(s) + Len(t)
         /\ \A i \in 1..(Len(s) + Len(t)) :
              (s \o t)[i] = IF i <= Len(s) THEN s[i] ELSE t[i - Len(s)]
BY ConcatProperties

(* A round appends a message with calls and then one answer for each.      *)
LEMMA RoundCompletes ==
  ASSUME NEW m \in Seq(Message), m # << >>, Complete(m, Len(m) - 1),
         NEW n \in 1..MaxCalls, m[Len(m)].role = "assistant", m[Len(m)].calls = n,
         NEW a \in Seq(Message), Len(a) = n,
         \A j \in 1..n : a[j] = [role |-> "tool", round |-> m[Len(m)].round, call |-> j]
  PROVE  Complete(m \o a, Len(m \o a))
<1> DEFINE k == Len(m)
           c == m \o a
<1>1. /\ k \in Nat \ {0} /\ n \in Nat \ {0}
      /\ Len(c) = k + n
      /\ \A i \in 1..k : c[i] = m[i]
      /\ \A j \in 1..n : c[k + j] = a[j]
  <2>1. k \in Nat \ {0} /\ n \in Nat \ {0}
    BY EmptySeq
  <2>2. /\ Len(c) = k + n
        /\ \A i \in 1..(k + n) : c[i] = IF i <= k THEN m[i] ELSE a[i - k]
    <3> HIDE DEF k, c
    <3>1. /\ Len(m \o a) = Len(m) + Len(a)
          /\ \A i \in 1..(Len(m) + Len(a)) :
               (m \o a)[i] = IF i <= Len(m) THEN m[i] ELSE a[i - Len(m)]
      BY Concatenation
    <3>2. k = Len(m) /\ c = m \o a /\ n = Len(a)
      BY DEF k, c
    <3> QED
      BY <3>1, <3>2, Zenon
  <2> HIDE DEF c, k
  <2>3. ASSUME NEW j \in 1..n PROVE c[k + j] = a[j]
    <3>1. k + j \in 1..(k + n) /\ ~(k + j <= k) /\ (k + j) - k = j
      BY <2>1
    <3> QED
      BY <2>2, <3>1
  <2> QED
    BY <2>1, <2>2, <2>3
<1>2. c[k].role = "assistant" /\ c[k].calls = n /\ c[k].round = m[k].round
  BY <1>1
<1> HIDE DEF c, k
<1>3. \A j \in 1..n : c[k + j] = [role |-> "tool", round |-> c[k].round, call |-> j]
  BY <1>1, <1>2 DEF k
<1>4. \A i \in 1..(k - 1) :
        /\ m[i].role = "assistant" =>
             \A j \in 1..m[i].calls :
               /\ i + j \in 1..(k - 1)
               /\ m[i + j] = [role |-> "tool", round |-> m[i].round, call |-> j]
        /\ m[i].role = "tool" =>
             /\ i > m[i].call
             /\ m[i - m[i].call].role = "assistant"
             /\ m[i - m[i].call].calls >= m[i].call
  BY DEF Complete, k
<1>5. \A i \in 1..k : m[i].role = "tool" => m[i].call \in 1..MaxCalls
  BY DEF k, Message
<1>6. ASSUME NEW i \in 1..(k + n), c[i].role = "assistant"
      PROVE  \A j \in 1..c[i].calls :
               /\ i + j \in 1..(k + n)
               /\ c[i + j] = [role |-> "tool", round |-> c[i].round, call |-> j]
  <2>1. CASE i \in 1..(k - 1)
    <3>1. c[i] = m[i]
      BY <1>1, <2>1
    <3> SUFFICES ASSUME NEW j \in 1..m[i].calls
                 PROVE  /\ i + j \in 1..(k + n)
                        /\ c[i + j] = [role |-> "tool", round |-> m[i].round, call |-> j]
      BY <3>1
    <3>2. i + j \in 1..(k - 1) /\ m[i + j] = [role |-> "tool", round |-> m[i].round, call |-> j]
      BY <1>4, <1>6, <2>1, <3>1
    <3>3. i + j \in 1..k /\ i + j \in 1..(k + n)
      BY <1>1, <3>2
    <3> QED
      BY <1>1, <3>2, <3>3
  <2>2. CASE i = k
    BY <1>1, <1>2, <1>3, <2>2
  <2>3. CASE i \in (k + 1)..(k + n)
    <3>1. i - k \in 1..n /\ k + (i - k) = i
      BY <1>1, <2>3
    <3>2. c[i].role = "tool"
      <4> DEFINE j == i - k
      <4>1. c[k + j] = [role |-> "tool", round |-> c[k].round, call |-> j]
        BY <1>3, <3>1
      <4> QED
        BY <3>1, <4>1
    <3> QED
      BY <1>6, <3>2
  <2> QED
    BY <1>1, <2>1, <2>2, <2>3
<1>7. ASSUME NEW i \in 1..(k + n), c[i].role = "tool"
      PROVE  /\ i > c[i].call
             /\ c[i - c[i].call].role = "assistant"
             /\ c[i - c[i].call].calls >= c[i].call
  <2>1. CASE i \in 1..(k - 1)
    <3>1. c[i] = m[i] /\ m[i].call \in Nat \ {0}
      BY <1>1, <1>5, <1>7, <2>1
    <3>2. /\ i > m[i].call
          /\ m[i - m[i].call].role = "assistant"
          /\ m[i - m[i].call].calls >= m[i].call
      BY <1>4, <1>7, <2>1, <3>1
    <3>3. c[i - m[i].call] = m[i - m[i].call]
      BY <1>1, <2>1, <3>1, <3>2
    <3> QED
      BY <3>1, <3>2, <3>3
  <2>2. CASE i = k
    BY <1>2, <1>7, <2>2
  <2>3. CASE i \in (k + 1)..(k + n)
    <3>1. i - k \in 1..n /\ k + (i - k) = i
      BY <1>1, <2>3
    <3>2. c[i].call = i - k
      <4> DEFINE j == i - k
      <4>1. c[k + j] = [role |-> "tool", round |-> c[k].round, call |-> j]
        BY <1>3, <3>1
      <4> QED
        BY <3>1, <4>1
    <3> QED
      BY <1>1, <1>2, <3>1, <3>2
  <2> QED
    BY <1>1, <2>1, <2>2, <2>3
<1> QED
  BY <1>1, <1>6, <1>7 DEF Complete, c

(* Only the first k messages count.                                        *)
LEMMA SameCompletes ==
  ASSUME NEW m \in Seq(Message), NEW c, NEW k \in 0..Len(m), Complete(m, k),
         \A i \in 1..k : c[i] = m[i]
  PROVE  Complete(c, k)
<1>1. ASSUME NEW i \in 1..k, c[i].role = "assistant", NEW j \in 1..c[i].calls
      PROVE  /\ i + j \in 1..k
             /\ c[i + j] = [role |-> "tool", round |-> c[i].round, call |-> j]
  <2>1. /\ i + j \in 1..k
        /\ m[i + j] = [role |-> "tool", round |-> m[i].round, call |-> j]
    BY <1>1 DEF Complete
  <2> QED
    BY <1>1, <2>1
<1>2. ASSUME NEW i \in 1..k, c[i].role = "tool"
      PROVE  /\ i > c[i].call
             /\ c[i - c[i].call].role = "assistant"
             /\ c[i - c[i].call].calls >= c[i].call
  <2>1. c[i] = m[i] /\ m[i] \in Message
    BY <1>2
  <2>2. m[i].call \in Nat \ {0}
    BY <1>2, <2>1 DEF Message
  <2>3. /\ i > m[i].call
        /\ m[i - m[i].call].role = "assistant"
        /\ m[i - m[i].call].calls >= m[i].call
    BY <1>2, <2>1 DEF Complete
  <2>4. i - m[i].call \in 1..k
    BY <2>2, <2>3
  <2> QED
    BY <1>2, <2>1, <2>3, <2>4
<1> QED
  BY <1>1, <1>2 DEF Complete

LEMMA AnswerInductive == ASSUME IInv, [Next]_vars PROVE AnswerInv'
<1>t. AnswerInv /\ RoundInv /\ messages \in Seq(Message) /\ Len(messages) \in Nat
  BY Numbers DEF IInv, TypeOK
<1>1. CASE messages' = messages /\ phase' = phase
  BY <1>t, <1>1 DEF AnswerInv, Complete
<1>2. CASE phase' \notin {"chat", "tools"}
  BY <1>2 DEF AnswerInv
<1>3. CASE BudgetGuard
  <2>1. messages' = << >> /\ phase' \in {"chat", "thrown"}
    BY <1>t, <1>3 DEF RoundInv, Early, BudgetGuard, SelectModel
  <2> QED
    BY <2>1 DEF AnswerInv, Complete
<1>4. ASSUME NEW n \in 1..MaxCalls, CallTools(n) PROVE AnswerInv'
  <2> DEFINE m == [role |-> "assistant", round |-> round, calls |-> n]
  <2>1. /\ phase = "chat" /\ phase' = "tools"
        /\ messages' = Append(messages, m)
    BY <1>4 DEF CallTools
  <2>2. /\ Len(messages') - 1 = Len(messages)
        /\ \A i \in 1..Len(messages) : messages'[i] = messages[i]
    BY <1>t, <2>1
  <2>3. Complete(messages, Len(messages))
    BY <1>t, <2>1 DEF AnswerInv
  <2>5. Complete(messages', Len(messages))
    BY <1>t, <2>2, <2>3, SameCompletes
  <2> QED
    BY <2>1, <2>2, <2>5 DEF AnswerInv
<1>5. CASE JoinTools
  <2> DEFINE a == [i \in Calls |-> Result(i)]
             n == messages[Len(messages)].calls
  <2>1. /\ phase = "tools" /\ phase' = "chat" /\ messages' = messages \o a
    BY <1>5 DEF JoinTools
  <2>2. /\ messages # << >> /\ n \in 1..MaxCalls
        /\ messages[Len(messages)].role = "assistant"
        /\ messages[Len(messages)].round = round
        /\ round \in 0..(MaxRounds - 1)
    BY <1>t, <2>1 DEF RoundInv, IInv, TypeOK
  <2>3. Calls = 1..n /\ n \in Nat
    BY <2>2 DEF Calls, Last
  <2>4. \A i \in Calls : Result(i) \in Message
    BY <2>2, <2>3 DEF Result, Message
  <2>5. /\ a \in Seq(Message) /\ Len(a) = n
        /\ \A j \in 1..n : a[j] = [role |-> "tool", round |-> messages[Len(messages)].round,
                                  call |-> j]
    BY <2>2, <2>3, <2>4 DEF Result
  <2>6. Complete(messages, Len(messages) - 1)
    BY <1>t, <2>1 DEF AnswerInv
  <2> HIDE DEF a, n
  <2>7. n = messages[Len(messages)].calls
    BY DEF n
  <2>8. Complete(messages \o a, Len(messages \o a))
    BY <1>t, <2>2, <2>5, <2>6, <2>7, RoundCompletes
  <2> QED
    BY <2>1, <2>8 DEF AnswerInv
<1>6. CASE ChatFails
  BY <1>1, <1>2, <1>6 DEF ChatFails
<1>7. ASSUME NEW i \in 1..MaxCalls, InvokeEnds(i) PROVE AnswerInv'
  BY <1>1, <1>7 DEF InvokeEnds
<1>8. CASE ResolveBudget
  BY <1>2, <1>8 DEF ResolveBudget
<1>9. CASE \/ ExecuteDirect \/ AgentMissing \/ ExecuteTool \/ FinalAnswer \/ QueryFails
           \/ RoundsOver \/ InvokeThrows \/ GoOn \/ EndRun \/ CancelRun
  BY <1>2, <1>9 DEF ExecuteDirect, AgentMissing, ExecuteTool, FinalAnswer, QueryFails,
                    RoundsOver, InvokeThrows, GoOn, EndRun, CancelRun, Return
<1>10. CASE Meanwhile
  BY <1>1, <1>10, MeanwhileKeeps DEF loop
<1> QED
  BY <1>3, <1>4, <1>5, <1>6, <1>7, <1>8, <1>9, <1>10 DEF Next, Proceed, Meanwhile

LEMMA Invariance == Spec => []IInv
<1>1. IInv /\ [Next]_vars => IInv'
  BY TypeInductive, WalkInductive, CostInductive, RoundInductive, ModelInductive,
     AnswerInductive
     DEF IInv
<1> QED
  BY <1>1, InitInv, PTL DEF Spec

-----------------------------------------------------------------------------
(* A budget that was spent when a step began, and that nobody edited since,*)
(* lets it call no model, unless a more specific policy replaces it; and   *)
(* what the budgets count was paid for, once.                              *)
THEOREM BudgetIsKept == Spec => []BudgetKept
<1>1. IInv => BudgetKept
  BY DEF IInv, WalkInv, CostInv, BudgetKept
<1> QED
  BY <1>1, Invariance, PTL

(* Whenever the model is called, each tool call has its answer, in order;  *)
(* hitMaxRounds says whether the last answer still called tools.           *)
THEOREM RoundsAreComplete == Spec => []RoundsComplete
<1>1. IInv => RoundsComplete
  <2> SUFFICES ASSUME IInv PROVE CallsAnswered /\ HitMaxRounds
    BY DEF RoundsComplete
  <2>1. HitMaxRounds
    BY DEF IInv, RoundInv
  <2>2. DOMAIN messages = 1..Len(messages)
    BY DEF IInv, TypeOK
  <2>3. CallsAnswered
    BY <2>2 DEF IInv, AnswerInv, Complete, CallsAnswered
  <2> QED
    BY <2>1, <2>3
<1> QED
  BY <1>1, Invariance, PTL

(* A step gives up only after every model it may call failed since the     *)
(* last answer, and a model another one took over from is not called first *)
(* again, unless its chain names it.                                       *)
THEOREM FallbackInOrder == Spec => FallbackOrder
<1>1. IInv => ReplacedStaysAway
  BY DEF IInv, ModelInv
<1>2. IInv /\ [Next]_vars =>
        [phase = "chat" /\ phase' = "thrown" =>
           {active} \cup ToSet(chain) \subseteq refused']_vars
  <2> SUFFICES ASSUME IInv, Next, phase = "chat", phase' = "thrown"
               PROVE  {active} \cup ToSet(chain) \subseteq refused'
    OBVIOUS
  <2>1. ChatFails
    BY DEF Next, Proceed, ExecuteDirect, AgentMissing, ExecuteTool, ResolveBudget,
           BudgetGuard, QueryFails, FinalAnswer, CallTools, RoundsOver, InvokeEnds,
           InvokeThrows, JoinTools, GoOn, EndRun, CancelRun, Return, OtherRunEnds,
           EditPolicy, WindowMoves
  <2>2. /\ ~(trying < Len(chain)) /\ refused' = refused \cup {Called}
        /\ Before \subseteq refused
    BY <2>1 DEF ChatFails, IInv, ModelInv
  <2>3. trying = Len(chain) /\ Len(chain) \in Nat /\ chain \in Seq(Model)
    BY <2>2, Numbers DEF IInv, TypeOK
  <2>4. {active} \cup {chain[i] : i \in 1..Len(chain)} \subseteq Before \cup {Called}
    <3>1. CASE trying = 0
      BY <2>3, <3>1 DEF Called
    <3>2. CASE trying # 0
      <4>1. 1..trying = 1..(trying - 1) \cup {trying}
        BY <2>3, <3>2
      <4> QED
        BY <2>3, <3>2, <4>1 DEF Before, Called
    <3> QED
      BY <3>1, <3>2
  <2>5. ToSet(chain) = {chain[i] : i \in 1..Len(chain)}
    BY <2>3 DEF ToSet
  <2> QED
    BY <2>2, <2>4, <2>5
<1> QED
  BY <1>1, <1>2, Invariance, PTL DEF Spec, FallbackOrder, GivesUpLast
=============================================================================
