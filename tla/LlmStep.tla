-------------------------------- MODULE LlmStep --------------------------------
(***************************************************************************)
(* One agent node of a run: LlmStepExecutor (run-engine/llm-step-executor) *)
(* walks the levels for the budget policy that applies, checks what the    *)
(* workspace has spent, and calls the language model in rounds, with       *)
(* fallback models when a call fails and tools that run in parallel.  The  *)
(* steps of a run follow one another; the other runs of the workspace act  *)
(* on it only through what they spend, and an administrator edits the      *)
(* policies meanwhile.                                                     *)
(***************************************************************************)
EXTENDS Integers, Sequences, SequencesExt

CONSTANTS Model,       \* language models
          Chains,      \* fallback chains a model policy may hold
          Period,      \* periodDays a budget policy may hold
          Policies,    \* the budget policies a level may have
          None,        \* no policy, no model
          MaxRounds,   \* maxToolRounds
          MaxCalls,    \* bound: tool calls in one response
          MaxSteps,    \* bound: agent steps
          MaxOther     \* bound: responses other runs pay for

ASSUME ChainsAssumption == Chains \subseteq Seq(Model)
ASSUME PoliciesAssumption ==
         /\ Period \subseteq Nat
         /\ Policies \in [1..4 -> SUBSET [limitUsd : Nat, periodDays : Period]]
ASSUME NoneAssumption ==
         None \notin Model /\ None \notin [limitUsd : Nat, periodDays : Period]
ASSUME BoundsAssumption == /\ MaxRounds \in Nat \ {0} /\ MaxCalls \in Nat
                           /\ MaxSteps \in Nat /\ MaxOther \in Nat

VARIABLES policy,     \* BudgetPolicy by level
          spent,      \* costUsd of the ended runs of the workspace that
                      \* began in the last so many days
          others,     \* of which other runs
          due,        \* costUsd of the completed steps of this run
          steps,      \* steps begun
          phase,      \* where executeDirect is
          level,      \* the level resolveBudget reads next
          found,      \* the policy it found
          chain,      \* fallbackChain
          trying,     \* models of the chain that failed in this round
          active,     \* activeModel
          round,
          used,       \* totalInput and totalOutput, in responses
          messages,   \* after the system and the user message
          done,       \* tool calls of the round that have finished
          hit,        \* hitMaxRounds
          refused,    \* history: models that failed since one answered
          left,       \* history: active models another took over from
          paid,       \* history: responses got, by all runs
          kept        \* history: levels whose budget was spent when the
                      \* walk began and ever since, and was not edited

budget == <<policy, spent, others, due, steps, paid>>
walk == <<level, found, kept>>
loop == <<chain, trying, active, round, used, messages, done, hit, refused, left>>
vars == <<budget, phase, walk, loop>>

(* agent, workspace, department, agency.                                   *)
Level == 1..4
Policy == [limitUsd : Nat, periodDays : Period]
Message == [role : {"assistant"}, round : 0..(MaxRounds - 1), calls : 1..MaxCalls]
           \cup [role : {"tool"}, round : 0..(MaxRounds - 1), call : 1..MaxCalls]

TypeOK == /\ policy \in [Level -> Policy \cup {None}]
          /\ spent \in [Period -> Nat]
          /\ {due, used, paid} \subseteq Nat
          /\ others \in 0..MaxOther
          /\ steps \in 0..MaxSteps
          /\ phase \in {"idle", "walk", "guard", "chat", "tools", "thrown",
                        "failed", "completed"}
          /\ level \in Level \cup {5}
          /\ found \in Policy \cup {None}
          /\ chain \in Chains \cup {<< >>}
          /\ trying \in 0..Len(chain)
          /\ active \in Model \cup {None}
          /\ round \in 0..MaxRounds
          /\ messages \in Seq(Message)
          /\ done \subseteq 1..MaxCalls
          /\ hit \in BOOLEAN
          /\ refused \subseteq Model \cup {None}
          /\ left \subseteq Model \cup {None}
          /\ kept \subseteq Level

Init == /\ policy \in [Level -> UNION {Policies[l] : l \in Level} \cup {None}]
        /\ \A l \in Level : policy[l] \in Policies[l] \cup {None}
        /\ spent = [d \in Period |-> 0]
        /\ due = 0 /\ paid = 0
        /\ others = 0
        /\ steps = 0
        /\ phase = "idle"
        /\ level = 1
        /\ found = None
        /\ kept = {}
        /\ chain = << >>
        /\ trying = 0
        /\ active = None
        /\ round = 0
        /\ used = 0
        /\ messages = << >>
        /\ done = {}
        /\ hit = FALSE
        /\ refused = {}
        /\ left = {}

-----------------------------------------------------------------------------
(* The costs of the window of a policy are not below its limit.            *)
Spent(p) == spent[p.periodDays] >= p.limitUsd

SpentLevels == {l \in Level : policy[l] # None /\ Spent(policy[l])}

(* executeDirect: the budget policy is resolved first.                     *)
ExecuteDirect == /\ phase = "idle"
                 /\ steps < MaxSteps
                 /\ steps' = steps + 1
                 /\ phase' = "walk"
                 /\ kept' = SpentLevels
                 /\ UNCHANGED <<policy, spent, others, due, paid, level, found,
                                loop>>

(* There is no such agent: the result says failed, and nothing was read.   *)
AgentMissing == /\ phase = "idle"
                /\ steps < MaxSteps
                /\ steps' = steps + 1
                /\ phase' = "failed"
                /\ UNCHANGED <<policy, spent, others, due, paid, walk, loop>>

(* executeTool: what invoke returns has no field ok, so that the result of *)
(* a tool node says failed also when its skill was there; without the      *)
(* skill, or for an inline webhook, it throws.                             *)
ExecuteTool == /\ phase = "idle"
               /\ steps < MaxSteps
               /\ steps' = steps + 1
               /\ phase' \in {"failed", "thrown"}
               /\ UNCHANGED <<policy, spent, others, due, paid, walk, loop>>

(* Seeded fault: a level is passed over.                                   *)
SkipWorkspace ==
  /\ phase = "walk"
  /\ IF level <= 4 /\ policy[level] = None
     THEN level' = (IF level = 1 THEN 3 ELSE level + 1) /\ UNCHANGED <<found, phase>>
     ELSE /\ found' = IF level <= 4 THEN policy[level] ELSE None
          /\ phase' = "guard"
          /\ UNCHANGED level
  /\ UNCHANGED <<budget, kept, loop>>

(* resolveBudget: one query for each level, from the agent to the agency,  *)
(* until one has a policy.                                                 *)
ResolveBudget ==
  /\ phase = "walk"
  /\ IF level <= 4 /\ policy[level] = None
     THEN level' = level + 1 /\ UNCHANGED <<found, phase>>
     ELSE /\ found' = IF level <= 4 THEN policy[level] ELSE None
          /\ phase' = "guard"
          /\ UNCHANGED level
  /\ UNCHANGED <<budget, kept, loop>>

Exceeded == found # None /\ Spent(found)

(* The model policy, or the node or the agent, names the models.           *)
SelectModel == /\ phase' = "chat"
               /\ chain' \in Chains
               /\ active' \in Model

(* The budget guard: BudgetExceededError, or on to the first model call.   *)
BudgetGuard ==
  /\ phase = "guard"
  /\ \/ Exceeded /\ phase' = "thrown" /\ UNCHANGED <<chain, active>>
     \/ ~Exceeded /\ SelectModel
  /\ UNCHANGED <<budget, walk, trying, round, used, messages, done, hit,
                 refused, left>>

(* The database does not answer while the agent, a policy or the costs are *)
(* read.                                                                   *)
QueryFails == /\ phase \in {"walk", "guard"}
              /\ phase' = "thrown"
              /\ UNCHANGED <<budget, walk, loop>>

-----------------------------------------------------------------------------
(* The active model is called first, then the chain in its order.          *)
Called == IF trying = 0 THEN active ELSE chain[trying]

(* A model answers: it is the active one from now on.                      *)
Answered == /\ active' = Called
            /\ left' = IF trying = 0 THEN left ELSE left \cup {active}
            /\ refused' = {}
            /\ trying' = 0
            /\ used' = used + 1
            /\ paid' = paid + 1

(* Without tool calls the loop is over.                                    *)
FinalAnswer == /\ phase = "chat" /\ round < MaxRounds
               /\ Answered
               /\ phase' = "completed"
               /\ UNCHANGED <<policy, spent, others, due, steps, walk, chain,
                              round, messages, done, hit>>

(* With calls it takes them up, all at once.                               *)
CallTools(n) ==
  /\ phase = "chat" /\ round < MaxRounds
  /\ Answered
  /\ messages' = Append(messages, [role |-> "assistant", round |-> round,
                                   calls |-> n])
  /\ phase' = "tools"
  /\ UNCHANGED <<policy, spent, others, due, steps, walk, chain, round, done,
                 hit>>

(* Seeded fault: the last of the chain is never called.                    *)
ChatFailsEarly ==
  /\ phase = "chat" /\ round < MaxRounds
  /\ IF trying + 1 < Len(chain) THEN trying' = trying + 1 /\ UNCHANGED phase
                                ELSE phase' = "thrown" /\ UNCHANGED trying
  /\ refused' = refused \cup {Called}
  /\ UNCHANGED <<budget, walk, chain, active, round, used, messages, done, hit,
                 left>>

(* The call fails: the next of the chain, or the error is thrown.          *)
ChatFails ==
  /\ phase = "chat" /\ round < MaxRounds
  /\ IF trying < Len(chain) THEN trying' = trying + 1 /\ UNCHANGED phase
                            ELSE phase' = "thrown" /\ UNCHANGED trying
  /\ refused' = refused \cup {Called}
  /\ UNCHANGED <<budget, walk, chain, active, round, used, messages, done, hit,
                 left>>

(* The rounds are over.                                                    *)
RoundsOver == /\ phase = "chat" /\ round = MaxRounds
              /\ phase' = "completed"
              /\ UNCHANGED <<budget, walk, loop>>

-----------------------------------------------------------------------------
Calls == 1..Last(messages).calls
Result(i) == [role |-> "tool", round |-> round, call |-> i]

(* SkillInvoker.invoke: one of the calls finishes, in any order.           *)
InvokeEnds(i) == /\ phase = "tools"
                 /\ i \in Calls \ done
                 /\ done' = done \cup {i}
                 /\ UNCHANGED <<budget, phase, walk, chain, trying, active,
                                round, used, messages, hit,
                                refused, left>>

(* There is no skill of that name: Promise.all rejects at once.            *)
InvokeThrows == /\ phase = "tools"
                /\ Calls \ done # {}
                /\ phase' = "thrown"
                /\ UNCHANGED <<budget, walk, loop>>

(* Seeded fault: the first result ends the round.                          *)
JoinFirst == /\ phase = "tools"
             /\ done # {}
             /\ messages' = Append(messages, Result(CHOOSE i \in done : TRUE))
             /\ hit' = (round = MaxRounds - 1)
             /\ round' = round + 1
             /\ done' = {}
             /\ phase' = "chat"
             /\ UNCHANGED <<budget, walk, chain, trying, active, used,
                            refused, left>>

(* Seeded fault: the round waits for as many results as there may be.      *)
JoinAll == /\ phase = "tools"
           /\ done = 1..MaxCalls
           /\ messages' = messages \o [i \in Calls |-> Result(i)]
           /\ hit' = (round = MaxRounds - 1)
           /\ round' = round + 1
           /\ done' = {}
           /\ phase' = "chat"
           /\ UNCHANGED <<budget, walk, chain, trying, active, used,
                            refused, left>>

(* All have finished: the results, in the order of the calls.              *)
JoinTools == /\ phase = "tools"
             /\ done = Calls
             /\ messages' = messages \o [i \in Calls |-> Result(i)]
             /\ hit' = (round = MaxRounds - 1)
             /\ round' = round + 1
             /\ done' = {}
             /\ phase' = "chat"
             /\ UNCHANGED <<budget, walk, chain, trying, active, used,
                            refused, left>>

-----------------------------------------------------------------------------
(* The caller writes the step's row: completed, with the cost, when a      *)
(* result came back, also one that says failed (it has no cost); and the   *)
(* run goes on with another step or ends.  When the step threw, its row    *)
(* and the run fail.  The cost of a run counts for the budgets once it has *)
(* completed or failed, in the windows it began in.                        *)
StepOver == phase \in {"thrown", "failed", "completed"}
Cost == IF phase = "completed" THEN due + used ELSE due
Windows == {{d \in Period : d >= e} : e \in Period} \cup {{}}
SpendIn(w, c) == spent' = [d \in Period |-> IF d \in w THEN spent[d] + c ELSE spent[d]]

Return == /\ phase' = "idle"
          /\ level' = 1 /\ found' = None /\ kept' = {}
          /\ chain' = << >> /\ trying' = 0 /\ active' = None
          /\ round' = 0 /\ used' = 0 /\ messages' = << >> /\ done' = {}
          /\ hit' = FALSE /\ refused' = {} /\ left' = {}
          /\ UNCHANGED <<policy, others, steps, paid>>

GoOn == /\ phase \in {"failed", "completed"}
        /\ due' = Cost
        /\ UNCHANGED spent
        /\ Return

EndRun == /\ StepOver
          /\ \E w \in Windows : SpendIn(w, Cost)
          /\ due' = 0
          /\ Return

(* A cancelled run never counts.                                           *)
CancelRun == /\ StepOver
             /\ due' = 0
             /\ UNCHANGED spent
             /\ Return

(* Another run of the workspace ends, with a response to pay for.          *)
OtherRunEnds == /\ others < MaxOther
                /\ others' = others + 1
                /\ \E w \in Windows : SpendIn(w, 1)
                /\ paid' = paid + 1
                /\ UNCHANGED <<policy, due, steps, phase, walk, loop>>

(* The longest windows still hold what leaves a shorter one.               *)
WindowMoves(d, n) ==
  /\ n < spent[d]
  /\ \A e \in Period : e < d => spent[e] <= n
  /\ spent' = [spent EXCEPT ![d] = n]
  /\ kept' = {l \in kept : spent'[policy[l].periodDays] >= policy[l].limitUsd}
  /\ UNCHANGED <<policy, others, due, steps, paid, phase, level, found, loop>>

(* A policy is written, changed or deleted.                                *)
EditPolicy(l, p) == /\ policy[l] # p
                    /\ policy' = [policy EXCEPT ![l] = p]
                    /\ kept' = kept \ {l}
                    /\ UNCHANGED <<spent, others, due, steps, paid, phase,
                                   level, found, loop>>

-----------------------------------------------------------------------------
Proceed == \/ ResolveBudget \/ BudgetGuard \/ QueryFails
           \/ FinalAnswer \/ (\E n \in 1..MaxCalls : CallTools(n)) \/ ChatFails
           \/ RoundsOver
           \/ (\E i \in 1..MaxCalls : InvokeEnds(i)) \/ InvokeThrows \/ JoinTools
           \/ GoOn \/ EndRun \/ CancelRun

Next == \/ ExecuteDirect \/ AgentMissing \/ ExecuteTool \/ Proceed \/ OtherRunEnds
        \/ \E l \in Level : \E p \in Policies[l] \cup {None} : EditPolicy(l, p)
        \/ \E d \in Period : \E n \in 0..(spent[d] - 1) : WindowMoves(d, n)

Spec == Init /\ [][Next]_vars

(* The database, the models and the skills answer or fail.                 *)
FairSpec == Spec /\ WF_vars(Proceed)

-----------------------------------------------------------------------------
(* A budget that was spent when the step began and ever since, and that    *)
(* nobody edited, lets no model be called, unless a more specific policy   *)
(* was found before it.                                                    *)
SpentBudgetStops == phase \in {"chat", "tools"} => \A l \in kept : level < l

(* Whenever the model is called, each of its tool calls has one answer,    *)
(* right after it and in the order of the calls, however they finished.    *)
CallsAnswered ==
  phase = "chat" =>
    /\ \A i \in DOMAIN messages : messages[i].role = "assistant" =>
         \A j \in 1..messages[i].calls :
            /\ i + j \in DOMAIN messages
            /\ messages[i + j] = [role |-> "tool", round |-> messages[i].round,
                                  call |-> j]
    /\ \A i \in DOMAIN messages : messages[i].role = "tool" =>
         /\ i > messages[i].call
         /\ messages[i - messages[i].call].role = "assistant"
         /\ messages[i - messages[i].call].calls >= messages[i].call

(* hitMaxRounds: the result says so just when the last answer still called *)
(* tools, so that its text is no final answer.                             *)
HitMaxRounds ==
  phase = "completed" => (hit <=> messages # << >> /\ used = round)

(* A model another one took over from is not called first again, unless    *)
(* the chain itself names it.                                              *)
ReplacedStaysAway == active \in left => active \in ToSet(chain)

(* A step that is calling models gives up only after all it may call have  *)
(* failed since the last answer: the active one and those of the chain.    *)
GivesUpLast == [][phase = "chat" /\ phase' = "thrown" =>
                    {active} \cup ToSet(chain) \subseteq refused']_vars

(* What the budgets count was paid for, and each counts it once.           *)
CountedOnce ==
  \A d \in Period :
    spent[d] + due + (IF phase \in {"idle", "thrown"} THEN 0 ELSE used) <= paid

(* A spent budget stops the steps that begin after it, and its spending is *)
(* counted once.                                                           *)
BudgetKept == TypeOK /\ SpentBudgetStops /\ CountedOnce

(* What the model reads, and what the caller is told of the rounds, is     *)
(* complete.                                                               *)
RoundsComplete == CallsAnswered /\ HitMaxRounds

(* Every model a step may call is tried before it gives up, and the one    *)
(* that answered is kept for the rounds to come.                           *)
FallbackOrder == []ReplacedStaysAway /\ GivesUpLast

(* A step comes to its end.                                                *)
StepEnds == phase # "idle" ~> phase = "idle"
=============================================================================
