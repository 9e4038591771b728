# Verification of the Agent VisualStudio runtime

TLA+ models of the parts of Agent VisualStudio that execute runs, call models,
orchestrate hierarchies of agents, keep conversations, channels and tokens, with
TLC configurations that check them on small instances and TLAPS proofs that hold
for every instance. Paths below are relative to `src/`. `PROJECT.json` maps every definition to the lines
it stands for.

1. [The system](#1-the-system)
2. [Modules](#2-modules)
3. [Executing runs: FlowRun, FlowSearch](#3-executing-runs-flowrun-flowsearch)
4. [Agent steps: LlmStep](#4-agent-steps-llmstep)
5. [Hierarchies: Orchestrator, Delegation](#5-hierarchies-orchestrator-delegation)
6. [The queue: RunQueue](#6-the-queue-runqueue)
7. [The gateway: SessionManager, AgentResolver, MessageDispatcher](#7-the-gateway-sessionmanager-agentresolver-messagedispatcher)
8. [Channels: ChannelLifecycle, WhatsAppAdapter](#8-channels-channellifecycle-whatsappadapter)
9. [Tokens: OAuthRefresh](#9-tokens-oauthrefresh)
10. [Runs, bounds and fairness](#10-runs-bounds-and-fairness)
11. [Proofs](#11-proofs)
12. [What the models showed about the code](#12-what-the-models-showed-about-the-code)
13. [What is not modelled](#13-what-is-not-modelled)
14. [Plan](#14-plan)

## 1. The system

A workspace holds agents in a hierarchy (agency, department, workspace, agent,
subagent) and flows, graphs whose nodes are agents and conditions. A *run* is one
execution of a flow or of a task given to a hierarchy; a *step* is one node or
subtask of it. Runs start from the HTTP API, from the run queue, or from a message
that a user sends over a channel (WhatsApp, web chat, Discord, ...).

| Component | State | Operations | Interacts with |
|---|---|---|---|
| FlowExecutor, `packages/run-engine/src/flow-executor.ts` | worklist and visited set of a traversal, in memory; Run and RunStep rows | startRun, executeRun | AgentExecutor (awaits it per node), database, callers who do not wait |
| AgentExecutor (step life cycle), `packages/run-engine/src/agent-executor.service.ts`, `events/` | RunStep rows; events emitted | execute | LLM step, event emitter, database |
| HierarchyOrchestrator, `packages/hierarchy/src/hierarchy-orchestrator.ts` | subtasks and their attempts, in memory; Run, RunStep, Approval rows | orchestrate, isBlocked | supervisor and agents (callbacks), RunRepository, an orchestrator of its own class below it |
| RunRepository, `packages/run-engine/src/run-repository.ts` | the rows | unguarded updates, queries, waitForApproval (polls) | both executors, the API |
| RunsService, `apps/api/src/modules/runs` | none | start, replay, cancel, approveStep, rejectStep | FlowExecutor, Approval rows |
| Run queue, `apps/api/src/modules/runtime` | jobs (BullMQ, or in the process), tracked jobs, checkpoints | enqueueRun, process, retry, poll | FlowExecutor, event stream |
| Gateway, `apps/gateway/src/gateway.service.ts` | channel configurations, cached without an end | activateChannel, deactivateChannel, dispatch, recordReply | adapter, SessionManager, AgentResolver, agent runner |
| SessionManager, `apps/gateway/src/session` | GatewaySession and ConversationMessage rows; a copy of each session in memory | receiveUserMessage, recordAssistantReply, findSession, clearSessionHistory, invalidateCache | gateway, database |
| AgentResolver, MessageDispatcher, rate limiter, `apps/gateway/src` | bindings cached for five minutes; attempts; buckets per user | resolve, dispatch, check | gateway, database, agents |
| WhatsApp adapter and backoff, `apps/gateway/src/channels` | socket, connection state, timers | connect, dispose, logout, send, socket events | Baileys sockets, credentials in the database |
| Channel life cycle, `apps/api/src/modules/channels`, `apps/api/src/channels` | isActive and botStatus rows; status in memory | provision, start, stop, restart, transitionStatus | gateway over HTTP |
| OAuthService, `apps/api/src/services` | token rows; a map of refreshes under way | getAccessToken, refreshToken, revokeToken | OAuth provider |
| LLM step, policies, budget, tools, `packages/run-engine/src` | rounds, messages and fallbacks of one step, in memory; sums over RunStep rows | executeAgent, tool loop, resolveBudget | providers, skills, policies |
| Hierarchy status, status stream | none; subscriptions | derive a tree, forward events | rows, events |
| The rest: CRUD modules, profile text, importers, registries, frontend | rows and files | create, read, update, delete | |

What is hard here, and which property of which component it threatens:

* *Interleaving.* Everything is one event loop per process, but every `await` lets
  other handlers in. Run rows are written by executors, cancellation, approvals and
  the queue without a look at the status they replace; sessions of one user are
  handled by several webhooks at once. A correct executor executes each node once
  and reports what the rows say; a correct session shows the conversation in order.
* *Crash and repetition.* Traversals, waits for approval, tracked jobs and caches
  live in memory. A correct runtime does not lose or repeat the work of a run.
* *Timeouts and retries.* An agent call that timed out still runs. A correct
  orchestrator lets its late answer change nothing, and gives up only after the
  retries it promises.
* *Partial failure.* Any database call may be refused between two others. A correct
  component's rows, results and events then still agree.
* *Termination.* Flows may be cyclic, hierarchies recursive, reviewers and agents
  silent. Every execution and orchestration must still settle.

The hazards are listed with their lines in `PROJECT.json`, each with the properties
that would catch it or the reason why none does.

## 2. Modules

| Module | Is | Proofs |
|---|---|---|
| `FlowSearch` | what one execution of a flow promises: an abstract graph search | `FlowRunProofs` |
| `FlowRun` | FlowExecutor and AgentExecutor on one run; instantiates `FlowSearch` | `FlowRunProofs` |
| `LlmStep` | one agent step: budget, models, rounds of tools | `LlmStepProofs` |
| `Orchestrator` | one `orchestrate` call with its subtasks, gates and retries | `OrchestratorProofs` |
| `Delegation` | the recursion of orchestrations down a hierarchy | `DelegationProofs` |
| `RunQueue` | one run enqueued, processed, polled and announced by the API | `FlowRunProofs` |
| `SessionManager` | one user's session on one channel | `SessionManagerProofs` |
| `AgentResolver` | the agent for a message of one channel, and the cache of bindings | `DispatchProofs` |
| `MessageDispatcher` | the rate limit, and one message with its timeout and retries | `DispatchProofs` |
| `ChannelLifecycle` | one channel between the API and the gateway | `ChannelProofs` |
| `WhatsAppAdapter` | the connection of one WhatsApp channel with its backoff | `ChannelProofs` |
| `OAuthRefresh` | the token of one provider | `OAuthRefreshProofs` |
| `MC*` | small instances for TLC | |

How they fit together. `FlowRun` takes the answer of a step as a choice; `LlmStep` is
what makes that choice. `Orchestrator` and `Delegation` look at one class from two
sides: one level with everything that happens to its subtasks, and all levels with the
subtasks of each taken as one step that gives any result that `Orchestrator` can
give. `RunQueue` contains the run only as the row that `FlowRun` or `Orchestrator`
writes: started, extended by steps, ended, or cancelled in between. `AgentResolver` has the writes of the API as its
environment, and `SessionManager` what `dispatch` calls and in which order.
`ChannelLifecycle` composes two processes, the API's service and the gateway's routes and
cache, and the requests between them.

Each module gives the operations of the code one action each, named after what they
do, in the order of the code; an awaited call is a point where others act. Variables
marked *history* do not exist in the code: they remember what a property needs, or that
something happened that excuses it. No guard reads them, but for two that keep an idle
repetition out: a second `dispose` in `WhatsAppAdapter`, a second cancellation in `RunQueue`.

The component modules also hold *seeded faults*: operators that are an action or helper
as it would be with a plausible bug (a lost `visited.add`, an event sent before its
row is written, a join that waits for the first result). No action uses them.
Put in the place of the definition that follows them, each makes TLC find a violation of
the property named in `PROJECT.json` "mutants", so the properties are known to be able
to fail.

A property that a run checks is a conjunction of named parts with one theme; each module's
type invariant (`TypeOK`, `QueueTypeOK`, ...) is a part of one of them. The sections below name the parts.

## 3. Executing runs: FlowRun, FlowSearch

One run, its rows, and the executor as a process that waits at a `pc` before each
awaited call.

| Code | Model |
|---|---|
| `Run.status`, RunStep rows, `StatusChangeEvent`s | `run`, `steps`, `events` |
| `queue`, `visited` and the node at hand in `_traverseGraph` | `queue`, `visited`, `cur` |
| the branch a condition returned | `chosen` |
| `executeRun` up to the traversal | `Invoke`, `BeginRun`, `LoadRun` |
| the loop of `_traverseGraph` | `SkipVisited`, `MissingNode`, `PassThrough`, `CreateStep`, `LeaveStep` |
| `AgentExecutor.execute` | `ClaimStep`, `FetchStep`, `LoseStep`, `EmitRunning`, `Work`, `CompleteStep`, `FailStep`, `EmitFailed` |
| end and catch of `executeRun` | `CompleteRun`, `FailRun` |
| `cancelRun`; death of the process | `Cancel`, `Crash` |

Every database call may be refused (`Rejected`), and control then goes where the
exception goes. A flow is a record of its node list, kinds, entry, edges and branches;
agents, prompts and outputs are not represented, since control does not depend on
them. A flow of no nodes stands for a run without a flow as well: `startRun` writes
`flowId` null, and the traversal throws the same way. Production code builds
FlowExecutor at three places without the `executeAgent` dependency; the module models the
class with the dependency the tests inject, and `RunQueue` what the omission means there.

* `StepRowsSound` (`OneStepPerNode`, `OnlyLastStepOpen`): cycles, joins, dangling edges
  and failures repeat no node, and nothing follows a step that failed.
* `OutcomeTellsRows` (`ResolvedMeansExecuted`, `RejectedLeavesNoOpenStep`): an execution
  that succeeded lost no node that was reachable through the branches taken; one that
  failed left no step open, as long as the database took every write.
* `EventsTellRows` (`EventsReflectRows`, `EventsInOrder`): no event runs ahead of its row,
  repeats, or follows the one that ends its step.
* `RunFollowsAdr`: a run that is executed once and not cancelled changes its status along
  the transitions of ADR-003. Section 12 says why nothing more holds.
* `ImplementsSearch`: with the mapping that forgets the rows, takes the worklist as a
  set and counts the node being executed as not yet seen, every behaviour is one
  of `FlowSearch`, where success requires that nothing known is unvisited
  (`FlowSearch!Closed`).
* `ExecutionEnds` (`AttemptSettles`, `RunningRunSettles`): every execution ends, and a run
  seen running becomes terminal unless the process dies or the database fails.

## 4. Agent steps: LlmStep

`executeDirect` for one step after the other, in a workspace where others spend too. Costs
are counted in responses, since every property only compares sums. A budget looks at the
runs that began in the last `periodDays`: `spent` has the sum for each length of window a
policy may name, a run counts in all windows from some length on (`Windows`), and time takes
costs out of the shorter windows first (`WindowMoves`).

| Code | Model |
|---|---|
| `resolveBudget`: one query for each level | `ResolveBudget`, `level`, `found` |
| the budget guard and the choice of models | `BudgetGuard`, `Exceeded`, `Spent`, `SelectModel` |
| a query of these that fails | `QueryFails` |
| one call of a model; `fallbackChain` | `FinalAnswer`, `CallTools`, `ChatFails`; `trying`, `active` |
| `Promise.all` over the tool calls | `InvokeEnds`, `InvokeThrows`, `JoinTools` |
| the limit on rounds | `RoundsOver`, `hit` |
| cost of the row; how the run goes on | `Cost`, `GoOn`, `EndRun`, `CancelRun` |
| a missing agent; a tool node | `AgentMissing`, `ExecuteTool` |

A missing agent and a tool node end in a *result* whose status is failed, and do not throw.
The caller (`agent-executor.service.ts:96`) does not look at that status: it writes the row
as completed, and the run goes on (`GoOn`), as it does after an answer.

* `BudgetKept` (`SpentBudgetStops`, `CountedOnce`): a budget that was spent when the step
  began and ever since, and that nobody edited, lets no model be called unless a more
  specific policy was found before it; what the budget counts was paid for, and once.
* `RoundsComplete` (`CallsAnswered`, `HitMaxRounds`): whenever a model is called, each
  tool call has one answer, in order, however the tools finished; and `hitMaxRounds` is true
  exactly when the last answer still called tools.
* `FallbackOrder` (`ReplacedStaysAway`, `GivesUpLast`): over all rounds of a step, a model
  that another took over from is not the first one called again, unless the chain names
  it; and a step that calls models gives up only after every model it may call, the active
  one and each of the chain, has failed since the last answer.
* `StepEnds`.

## 5. Hierarchies: Orchestrator, Delegation

`Orchestrator` is one call of `orchestrate` with `Tasks` subtasks that share the row of
their run.

| Code | Model |
|---|---|
| `opts.parallel`, `requiresApproval` of the nodes | `parallel`, `gated`, any value from the start |
| Run, RunStep, Approval rows | `run`, `row`, `approval` |
| where `orchestrate` and each `executeWithRetry` await | `main`, `pc` |
| attempts; calls that lost the race with their timer | `tries`, `abandoned` |
| `subtaskTimeoutMs` is above zero; a supervisor is configured | `timed`, `supervised`, any value from the start |
| `SubtaskResult.status`, what `orchestrate` returned | `result`, `outcome` |
| `approveStep`, `rejectStep` | `Decide`, in time or late |
| `waitForApproval` granted, refused, expired | `WaitForApproval`, `ResumeRun`, `SkipStep` |
| `Promise.race` with the subtask timer | `Answer`, `AgentThrows`, `TimeOut`, `LateAnswer` |

`asWritten` chooses between two repositories, since the class was written against
another interface than `run-repository.ts` has. With the repository of the source,
`completeStep` and `failStep` get an object where they take an id and are refused, and
`waitForApproval` answers an object that never equals `'approved'`. With the double of
the tests they work. Both are checked; the properties hold of both.

* `ApprovalsHold` (`GateHolds`, `PausedWhileWaiting`): no agent of a gated subtask is
  called unless a reviewer approved it, and the run is paused meanwhile, where
  no other gated subtask waits in parallel.
* `RetryDiscipline` (`GivesUpOnlyAfterRetries`, `CallDiscipline`): without refused calls,
  failed means that all attempts were made, and an agent is called only in its turn.
* `StatusIsTrue` (`ReportedStatusWritten`, `StatusMatchesRows`): what is returned, the run
  row and the step rows agree, whatever the subtasks did to the run in between.
* `FinalRowsStay`: a late answer or a late review touches no final row.
* `OrchestrationSettles`, `ApprovedRunResumes`: with a limit on subtasks the call returns
  though agents and reviewers stay silent; without one (`subtaskTimeoutMs` = 0), or while the
  supervisor decomposes or consolidates, for which no timer runs, it may wait for ever, and
  only for those. A run with an approved subtask does not stay paused.

In `Delegation` nodes are paths in a tree; `Trees` are the hierarchies considered. `frames`
is the stack of orchestrations, each with its root, its run, its delegation step and its
result. `Agents` is `collectAgentNodes`, `Assignable` what decomposition may choose,
`Delegated` what `routeTask` decides, `Open` to `CloseDelegation` the code of
`orchestrate` and `delegateTask`.

The repository says in two places what this recursion does: the comment on `RouteDecision`
(`packages/hierarchy/src/hierarchy-orchestrator.ts:196-198`, no level can be skipped, each
delegation becomes a RunStep) and `packages/hierarchy/src/__tests__/e2e/hierarchy-e2e.test.ts:185-227`
(four levels make four steps, delegations that complete). The code contradicts both, and the
run `delegation_levels` shows it as a violation of `NoLevelSkipped`: decomposition gives tasks only
to agents without children and routing delegates only to nodes with children, so the task goes
from the agency straight to the agent. What is left of delegation, a hierarchy
without any agent, is proved: it goes to the same node again (`DelegatesToItself`) and never
succeeds (`NoDelegationSucceeds`).

## 6. The queue: RunQueue

One run in `apps/api/src/modules/runtime`, with Redis or without (`mode`).

| Code | Model |
|---|---|
| BullMQ job, its attempts; `setImmediate` without Redis | `job`, `tries`; `ticks` |
| `RunJobMeta` objects, the one in the map | `metas`, `tracked` |
| `_processJob` and `executeRun` in each slot | `stage`, `handle`, `snap`, `polls` |
| the checkpoint file; a subscriber | `disk`; `stream`, `closedBy` |
| `enqueueRun` | `Add`, `Track`, `EnqueueLocal` |
| the poll | `Begin`, `Read`, `Save`, `GiveUp`, `ReadLast`, `End`, `Throw` |
| other executors and the API; restart | `Execute`, `CancelElsewhere`; `Restart` |

The FlowExecutor that this service makes has no `executeAgent` and throws before it writes,
so the row moves only as others move it. BullMQ is external: it keeps one job of an id, retries
it, and hands an active one out again after a restart. The announcements of single steps change
nothing else, and nothing sound can be said of them (section 12): they are left out.

* `OutcomesAreTrue`: an outcome told to a tracked job or a subscriber was true of the row
  at some time, or the poll gave up or threw.
* `CheckpointSound` (`CheckpointIsFinal`): when the work is over, undisturbed, the checkpoint
  that is left is of a run that is over, though two jobs may write it in any order.
* `WaitingEnds` (`JobSettles`, `StreamEnds`): who waits comes to know, with the
  exceptions that `StreamEnds` names: there the code announces only an error.

## 7. The gateway: SessionManager, AgentResolver, MessageDispatcher

`SessionManager` is one user on one channel. `Op` are operations under way at once. A turn
is a number in the order of `createdAt` (two turns with the same timestamp are not
considered). `session` and `turns` are the rows, `cache` the copy, `loaded` the history an
operation is about to cache. `FindExisting` to `Store` is `receiveUserMessage`,
`CreateReply` to `Push` is `recordAssistantReply`, `DeleteTurns` and `ClearCopy` are
`clearSessionHistory`; `dispatch` calls the first two in that order, and then `Send`.
Webhooks answer before they dispatch, so nothing serialises them. The database is the
one the tests supply: the schema names the key of a session `externalId` where the code says
`externalUserId`.

* `CopyAgreesWithRows`: at rest, the copy is what a query would answer, unless the
  variable `diverged` records a reason (operations that overlapped, a call that failed
  between a row and its copy, a cold session) and nothing repaired it since.
* `HistorySound` (`OwnTurnSeen`): whatever overlaps, the history given to the agent shows
  the message it is to answer, unless a reset or a whole window of later turns took it away.

`AgentResolver` is `resolve` with its two loads, the cache of bindings, and the rows as the API
changes them. Ages stand for times and are cut off where they stop to matter, so no clock
needs a bound; `Latency` bounds how long a query takes. `Bind`, `Unbind` and `Rebind` are create,
remove and update of `channel-binding.service.ts`, `Switch` the activation of a channel.

* `StaleForBoundedTime` (`FreshWithinTTL`, `DeactivatedStops`): an answer rests on
  bindings as they were at most one cache time and one query ago, and a channel that was
  switched off gets none after one query more, also when an older load ends last.
* `RightAgent` (`SessionKeepsAgent`, `HighestScopeWins`): with bindings that nobody changes a
  conversation keeps its agent while it has a binding; else, and after a load of them that
  failed, the one highest binding wins, and among several nobody does. The tests of the
  resolver say otherwise of bindings with `isDefault`, a field that is no longer read
  (section 12).
* `ResolveEnds`.

`MessageDispatcher` is one user whose messages pass `checkUserRateLimit` and are run with
`Promise.race`, `classifyError` and `sleep`. `loose` counts runs that timed out and go on.
`recent` is the history of the rate limit: the ages of the latest messages that passed, as many
as twice the limit and one more, cut off at the window.

* `RateKept` (`RateBounded`, `RefusalJustified`): at most twice the limit passes in any
  window, and a message is refused only when the limit was used in the window before it.
* `AnswersOnTime` (`LateRunOnlyAfterTimeout`, `AnswerInTime`): no message is worked on by
  two runs, but for one that was given up by a timeout, which the answer says; and the answer
  comes within the sum of the timeouts and delays.
* `DispatchEnds`.

## 8. Channels: ChannelLifecycle, WhatsAppAdapter

`ChannelLifecycle` follows a call through both processes: `Begin` to `Post` is the API's
service (`read`, `found`), `Route` to `SaveRow` the gateway's route, its cache and its
adapter, `Answer` to `Undo` the API again. A message being dispatched may fill the cache
(`DispatchLoads`, `DispatchFills`), the configuration may be edited, answers get lost,
either process restarts. A call that is over may leave a request behind that the gateway still
serves, as what it was sent: the slot keeps its `kind` until then (`Leave`). The gateway's own
write of the row may fail after its adapter was set up or torn down (`RowFails`), and the report at the
end of a stop may, which ends a restart half way (`ReportFails`).

* `CallsTakeEffect` (`StartedMeansRunning`, `StoppedMeansSilent`, `RestartAppliesConfig`): a
  call that returned and that nothing disturbed took effect on the adapter, the row
  and the status; a restart of an active channel applies the configuration it found.
* `RecordsAgree` (`StatusAgrees`): at rest the status in memory and the row agree, unless
  an overlap, a lost answer, a restart or a failed write is the reason (`excused`).
* `StatusSettles`: no channel starts or stops for ever.

`WhatsAppAdapter` has the adapter's state, its sockets with events in flight, the timers of
the backoff and of the code to be scanned, and whether credentials are stored. Sockets are
those of Baileys, external: one that ended emits nothing more. `armed` counts timers that
will fire, `timer` says that one can still be cleared. Nobody awaits `saveCreds` or the
`clearSessionInDb` of a permanent close: `saves` and `clears` count those under way, which
land in any order, or fail (`SaveLands`, `SaveFails`, `Clear`, `ClearFails`).

* `OneConnection` (`SocketIsCurrent`, `OneReconnection`, `QrTimerHasQr`): a living socket is
  the one held, at most one connection is made, alive or due, and a code expires
  only on a socket that shows it.
* `DisposedIsDown`, `ForgetsSession`: after dispose nothing is alive or due; after a session
  ended for good, nothing is alive, due or being made until someone sends, and
  credentials are left only while a clear is under way, or if one failed or a save landed
  after it (`outlived`).
* `NeverWaitsInVain`: an adapter that is neither idle nor closed has a socket, a timer or a
  connection being made that will move it on; except (`stuck`) after a connection that
  failed before it had a socket: then it stays in connecting (section 12).

All are restricted by `spoilt`: a `dispose` or `logout` that meets a connection being made does
leave a socket behind in the code, and what is shown is that nothing else does.

## 9. Tokens: OAuthRefresh

One provider's row, the lock in memory, calls of `getAccessToken` (`Asker`) and of
`refreshToken`, `exchangeCode` and `revokeToken` (`Admin`). The same refresh runs under the lock
(`record` to `answer`) or, called explicitly, without it (`Record` to `Store`). The
provider is external: a refresh token is spent by its use; a lost answer may have spent it.
The last read under the lock (`Reread`) and the answer it gives (`Answer`) are two steps, and
others may join between them; reads may fail (`ReadFails`).

* `RefreshedOnce` (`LockIsHeld`, `SpentOnce`): refreshes under the lock exclude each other and
  send no refresh token twice, though the caller read the record before it had the lock.
  `excused` names what voids it: a lost answer, a failed write, and whatever met a
  refresh without asking for the lock.
* `AnswerWasCurrent`: the access token returned was in the row during the call, also for
  those who share the promise of an earlier one. The exception is `overtaken`: after the
  refresh had read its answer another token was stored, and was near its expiry at once, so
  that its reader joined.
* `RevokedStaysGone`: only a refresh that had read the record may bring a revoked row back,
  or a new code.
* `CallsEnd`.

## 10. Runs, bounds and fairness

| Run | Instance | Distinct states |
|---|---|---|
| `flow_run` | four flows, two executions, one cancellation, one crash, one refused call | 23 044 |
| `llm_step` | two steps, three models, two of them in the chain, two rounds of up to two calls, a budget of seven days on the workspace, one of thirty on the department, one foreign response | 273 956 |
| `orchestrator` | two subtasks, one retry, one cancellation, one crash, one refused call; all gates, both modes, both repositories, with and without a limit on subtasks and a supervisor | 274 320 |
| `orchestrator_answer` | the same, a violation (section 12) | |
| `delegation_levels` | the four levels of the end to end test, a violation (section 12) | |
| `run_queue` | two requests, two slots, two attempts, two polls, two calls that throw, one restart; both modes | 258 122 |
| `session` | two operations at once, three messages, a window of two, one failure | 1 862 106 |
| `resolver` | two calls, two bindings that compete and one above them, two agents, a cache of two ticks and queries of one, one write, one failure | 631 182 |
| `dispatcher` | three messages, a limit of two in three ticks, two attempts of two ticks, a delay of one | 119 737 |
| `channel_lifecycle` | two calls, one edit, one fault | 788 064 |
| `whatsapp` | two sockets, two retries, two connections being made, two timers, two saves and two clears under way | 2 265 271 |
| `oauth` | two callers and one administrator, three tokens, one fault | 425 879 |

Why these bounds. `flow_run`: the flows have a join reached by two paths, an edge
without a target, a cycle through a condition, a branch to a node that does not exist, a
condition with one branch, and no nodes; two executions are the least that tell what
survives one. `llm_step`: two rounds are the least with one that is not the last, two calls
the least that finish out of order, the second step meets the spending of the
first, and two lengths of window let a cost leave the one and stay in the other. `orchestrator`: two
subtasks are the least that share a run, one retry the least with an attempt left and none left.
`run_queue`: two jobs of one run are possible only without Redis, where each request makes one;
two polls let the first be early and the last be late. `session`: two operations and a third
message, with a window that two turns fill, give every order of load, store and push
and a window that drops turns. `resolver`: three bindings give a tie, a winner and a
session whose agent is not the winner. `dispatcher`: three messages are one more than the
limit. `channel_lifecycle`: one edit makes an old and a new configuration. `whatsapp`: the
second socket is the one that might leak; two saves and two clears let an old write and a
new one be under way at once. `oauth`: one caller refreshes, one waits or comes
late, one interferes; three tokens let a refreshed one be refreshed again.
All bounds are constants and appear in the guards by name; theorems hold for all
their values.

Deadlock is checked but for `flow_run`, `orchestrator`, `run_queue`, `session` and the two
violations, where the system stops when the bounded requests are used up and
the work is done.

Fairness is weak fairness of what the event loop does by itself:

* `FlowRun`, `LlmStep`, `Orchestrator`, `RunQueue`, `AgentResolver`, `OAuthRefresh`,
  `ChannelLifecycle`: continuations that are due run, the database answers or refuses, a
  provider answers or fails; each call, slot or subtask on its own. In `Orchestrator`
  the timers of the approval, and of the subtask where there is a limit, bound the waits; the
  supervisor, and an agent without a limit, need not ever answer. In `FlowRun` an agent that never answers is excluded:
  `executeAgent` has no timeout there, nor has a model or tool call in `LlmStep`.
* `MessageDispatcher`: time passes and timers fire; nothing of the agent.

Nothing is assumed of reviewers, users, cancellation, crashes, restarts, edits, or late
answers. `Delegation`, `SessionManager` and `WhatsAppAdapter` have safety properties only.

## 11. Proofs

| Theorem | Module | States |
|---|---|---|
| `RowsAreSound`, `OutcomeIsTrue`, `EventsAreTrue`, `AdrFollowed` | `FlowRunProofs` | `StepRowsSound`, `OutcomeTellsRows`, `EventsTellRows`, `RunFollowsAdr` |
| `SearchClosed` | `FlowRunProofs` | `FlowSearch!Closed` |
| `Refinement` | `FlowRunProofs` | `Spec => ImplementsSearch` |
| `OutcomesTrue`, `CheckpointIsLast` | `FlowRunProofs` | `OutcomesAreTrue`, `CheckpointSound` of `RunQueue` |
| `BudgetIsKept`, `RoundsAreComplete`, `FallbackInOrder` | `LlmStepProofs` | `BudgetKept`, `RoundsComplete`, `FallbackOrder` |
| `ApprovalsAreHeld`, `StatusTold`, `RetriesInOrder`, `RowsStay` | `OrchestratorProofs` | `ApprovalsHold`, `StatusIsTrue`, `RetryDiscipline`, `FinalRowsStay` |
| `NeverDescends`, `DelegationFails` | `DelegationProofs` | `DelegatesToItself`, `NoDelegationSucceeds` (no run checks these) |
| `CopyIsCurrent`, `HistoryIsSound` | `SessionManagerProofs` | `CopyAgreesWithRows`, `HistorySound` |
| `SentOnce`, `AnswersAreCurrent`, `RevocationHolds` | `OAuthRefreshProofs` | `RefreshedOnce`, `AnswerWasCurrent`, `RevokedStaysGone` |
| `StalenessIsBounded`, `AgentIsRight` | `DispatchProofs` | `StaleForBoundedTime`, `RightAgent` of `AgentResolver` |
| `RateIsKept`, `AnswersComeOnTime` | `DispatchProofs` | `RateKept`, `AnswersOnTime` of `MessageDispatcher` |
| `RecordsDoAgree`, `CallsDoTakeEffect` | `ChannelProofs` | `RecordsAgree`, `CallsTakeEffect` of `ChannelLifecycle` |
| `ConnectionIsOne`, `DisposedStaysDown`, `SessionIsForgotten`, `AdapterIsBusy` | `ChannelProofs` | `OneConnection`, `DisposedIsDown`, `ForgetsSession`, `NeverWaitsInVain` of `WhatsAppAdapter` |

So every safety property that a passing run checks, invariant or action property, is proved for all
values of the constants. Theorems for single parts (`TypeCorrect`, `NodeExecutedOnce`,
`GateIsKept`, ...) are listed in `PROJECT.json`.

Two components that belong together may share a proof module, which extends both (`FlowRun` and
`RunQueue`, `AgentResolver` and `MessageDispatcher`, `WhatsAppAdapter` and `ChannelLifecycle`); the
second of each names its initial state, next-state relation and specification after itself (`QueueInit`,
`DispatchNext`, `ChannelSpec`). Their theorems are about the one or the other: nothing
ties the two. `FlowSearch` is taken as the instance `Abstract`, with variables of its own.

The proofs rest only on the named assumptions of the modules: `NoNode` is not a node and flows
are well-formed records; counts and bounds are naturals, some not zero; trees are
prefix-closed; chains are sequences of models; a channel has finitely many bindings, each of an
agent and a scope; `None`, `NoBucket` and `NoCopy` differ from
what they stand beside.

* **FlowRun.** `StepsInv` says that an execution has no rows before its traversal, that
  between two nodes all its rows are completed, that inside a step all but the last are
  and the last is that of `cur`, and that the nodes of all of them are visited; this
  is what makes a new row the only one of its node. `WorklistInv` adds that what each
  visited node led to is visited or in the worklist, and that it has its completed row,
  except for the node at hand; with an empty worklist this is `ResolvedMeansExecuted`.
  `RejectedInv` says that where the executor gives up, with no write refused, its rows
  are closed, and `EventsInv` what was announced of the last row at each `pc`. The refinement uses the first two, and `BranchInv`: the
  branch noted for a condition is one that the flow gives it.
* **LlmStep.** `WalkInv`: the walk has not passed a level in `kept`, whose budgets are spent.
  `CostInv` is `CountedOnce` with nothing used before the first call. `ModelInv`: the models
  before the one being tried have failed, and a replaced one is not active again. `RoundInv`: rounds are counted by the responses that called
  tools. `AnswerInv`: the transcript is complete up to its end when a model is called, and up
  to its last message while tools run; that appending a round's results in order
  keeps it complete is a lemma on sequences of its own.
* **Orchestrator.** `IInv` is `TypeOK`, one invariant per subtask, one for
  `orchestrate` and one for the sequential mode. The first says what is known at each
  `pc`: how many attempts were made (`AttemptInv`), that past an open gate the approval
  is `approved` (`GateInv`; an approval never leaves that value), and what row and result
  are (`RowInv`). `MainInv` says that all subtasks are idle before and settled after the
  execution, which is why no subtask writes the run behind a final status. `PauseInv` says
  that only gated subtasks pass the gate, and that from the pause to the end of the wait
  the run is paused.
* **Delegation.** `StackInv` says of each frame that its root is the root of the tree,
  that it delegates only if that root has children and no agent, that on such a tree no
  frame works or completes, and that a frame with a delegation step never throws; and of
  the stack that frames below `top` await, frames above it have ended, and the one on top
  awaits if and only if there is one above it.
* **SessionManager.** `IInv` adds to the types that the rows are in the order of
  their creation (`Increasing`), that only a message of a warm session is about to load and
  that an operation that pushes holds a turn (`Ready`), and `Seen`, the property itself per
  operation. `CopyInv` says of an operation that is alone what it loaded and how the
  copy and the rows relate at each of its steps. That the last `Window` elements of an
  increasing sequence hold a given element of it, or are all later, is a lemma of its own.
* **OAuthRefresh.** `CallInv` ties what a call holds to where it is. `FreshInv`: a refresh
  token that is about to be stored is unspent and in no other place. `OnceInv`: while
  nothing excuses it, one call at a time refreshes, and a spent token is in the row
  only if a write is about to replace it. `HeldInv`: who asks has recorded what is in the row.
  `AnswerInv`: what a call
  has read last was seen by whoever shares its promise or may yet join it, unless overtaken.
  `GoneInv`: with the row gone, a refresh past its read is one that the revocation met.

* **RunQueue.** `JobInv`: with Redis one slot at a time works, on an active job with an
  attempt left. `SnapInv` says that what a slot has read was a status of the row, and why it
  leaves its poll: the run is over, absent, or the poll gave up. `DiskInv`: while the file holds an open run, some slot will write it again;
  that is what makes `CheckpointIsFinal` survive two pollers that write in any order. `MetasInv` and
  `StreamInv` are `OutcomesAreTrue` per record, and stay true because statuses only join `been`.
* **AgentResolver.** `ReadInv`, `CacheInv` and `OffInv` bound how old a difference may be by how
  long the query or the entry that shows it is under way: a binding that differs from
  the rows changed no longer ago than that. `CallInv`: a call gives up the session's agent
  only after a failed load. `Chosen`: an answer is right for the bindings it used; with the bindings
  unchanged for the whole horizon those are the rows.
* **MessageDispatcher.** `RateInv` orders the latest messages by the bucket: those it counts passed
  since it began, at most `Limit` before them are of the previous bucket, all others have left
  the window. So no sum over a window is needed: `RateBounded` says that of the messages that
  passed, the one twice the limit ago is out of the window, and that is two places in one sequence.
  `TimeInv` counts the time of a dispatch in rounds of a timeout and a delay.
* **ChannelLifecycle.** `AloneInv`: a calm call is alone, and without an excuse only one is under way.
  `RequestInv` says which steps of a call and of its request go together. `StatusInv` and
  `MarkInv` say what row and status are before, at and after a failure of the
  API's own write; `SeenInv`, `StopInv` and `ConfigInv` what a calm call has found, and that no
  configuration in the cache, being loaded or set up is older than that.
* **WhatsAppAdapter.** `Sound`, unless `spoilt`: a living socket is the one held and none lives
  while one is made (`ConnInv`), a timer that fires can be cleared (`BackoffInv`), a code
  belongs to the socket (`QrInv`), what `logout` and `dispose` leave (`LeavingInv`, `EndInv`), and what
  each state waits for (`WaitInv`). `SessionIsForgotten` counts the writes under way: with none, and
  none that failed or came late, the credentials are gone.

Two models were changed for the proofs. In `ChannelLifecycle` a call that was over forgot what
it had asked for, so that the gateway could have answered a stop it still served as a
start; the invariant of the requests was not inductive, and `Leave` was corrected. In
`MessageDispatcher` the history of the rate limit counted the messages by age, and its
property was a sum; it now keeps the ages in order.

Only model-checked is liveness: the prover has no fairness.

## 12. What the models showed about the code

Two are runs of their own, whose violation TLC shows: `orchestrator_answer` (with
`run-repository.ts` no answer completes a subtask, which a test says it does) and
`delegation_levels` (a task skips every level between the root and its agent, which a
comment and a test deny); the quoted lines are in `PROJECT.json` "findings". The others were
met while modelling. The models do what the code does, and the properties are stated so
that they hold of it.

Runs and steps (`packages/run-engine/src`, `packages/hierarchy/src`):

* Run statuses are written without a look at the status they replace
  (`flow-executor.ts:105,129,134`, `run-repository.ts:327`), so a cancelled run may become
  completed, against ADR-003; a second execution of a run repeats its completed steps, against
  `docs/runtime/overview.md:58`.
* Of two gated subtasks in parallel the first decision resumes the run while the other waits
  (`docs/runtime/README.md:32`); a run paused when its process dies stays paused
  (`docs/runtime/overview.md:51`).
* A hierarchy without agents delegates to itself (`hierarchy-orchestrator.ts:574,195`), and
  no delegation is ever reported blocked: `isBlocked` looks for running or queued steps
  (`:493`), while the step is pending (`:279`) until it is over. A delegation step is
  announced as `queued` while its row is `pending` (`events/run-step-emitter.ts:34`).
* The supervisor is awaited without a timer (`hierarchy-orchestrator.ts:628,945`), and a
  `subtaskTimeoutMs` of 0 sets none for agents either (`:953`, as documented at `:270`): one that
  never answers holds `orchestrate` for ever.
* A step whose result has the status failed is written as completed and its run goes on
  (`agent-executor.service.ts:96-108` looks at exceptions only): so a missing agent, and every tool node.
* The budget sums only runs that have ended (`llm-step-executor.ts:336`): runs at
  the same time overspend together, a cancelled run never counts, and a step that fails
  loses the cost of its rounds. All tokens of a step are priced as the last model's. For a
  workspace without a department the query for its policy has `departmentId: undefined`, which
  Prisma takes for no condition and so finds the policy of any department; not modelled.
* `SkillInvoker.invoke` returns no `ok`, so the result of a tool node always says failed and a tool
  call's result is always reported as failed. Promise.all rejects with the first unknown skill while others
  go on. A comment calls the last content of the loop the answer without tool calls, which it is
  not when the rounds ran out.

Queue, gateway and channels (`apps`):

* Without Redis a job is processed under another id than it is tracked under
  (`run-queue.service.ts:172`), and two requests make two pollers of one run. A poll that gives up
  after ten minutes counts as completed. The worker may take a job before `_trackJob` stored it, or a
  second request may replace the tracked object (`:166`): then the one under the id stays
  queued. Progress slices rows that are loaded in no order (`agent-executor.service.ts:115`,
  `run-repository.ts:154`) and the last read (`:104`) announces nothing, so a step may be
  announced twice or never. Routes look for checkpoints in another directory
  than they are written to.
* `recordAssistantReply` appends to whatever copy is there, so a copy that was reloaded
  between the row and the push holds the turn twice (`session-manager.service.ts:187`); a
  reset that meets a load in flight brings deleted turns back into the copy (`:276`).
* `dispatch` passes `findSession` two arguments where it takes one
  (`gateway.service.ts:78`), so the agent of a session is never passed on from there, and
  `invalidateCache` of the resolver has no caller: the cache time bounds both.
  The resolver speaks of active bindings, and its query does not look at that field. Three
  of its tests (`apps/gateway/src/__tests__/agent-resolver.service.test.ts:73-82,84-93,198-207`)
  say that a binding with `isDefault` wins over one of a higher scope, and that two are ambiguous; the
  code removed the field (`agent-resolver.service.ts:70`, [#397]) and takes the highest scope,
  as the model does.
* The rate limiter calls its window sliding; it is fixed, hence the factor two in
  `RateBounded`. A run that timed out is not stopped.
* After a failed setup the gateway keeps the configuration it cached
  (`gateway.service.ts:64`), and a stop, which would drop it, is refused since the row is
  inactive: `RestartAppliesConfig` holds of active channels only. If the gateway's own update of
  the row fails after the setup, the adapter is up while the row is inactive, and a stop is refused
  likewise. A report that fails after the stop of a restart
  (`channel-lifecycle.service.ts:121`) leaves the channel stopped. Calls that overlap may both pass
  the check of the row (`:76`).
* `dispose` or `logout` during a connection attempt leaves a socket alive. An attempt of a
  reconnection that fails before it has a socket is only logged
  (`whatsapp-baileys.adapter.ts:254`): the state stays connecting, no further attempt is due,
  and a send waits its thirty seconds and throws, until someone disposes or logs out.
* The clear after a permanent close is not awaited (`whatsapp-baileys.adapter.ts:227`), nor is `saveCreds`
  (`:275`): the clear may fail, or land before a save that is under way, and credentials of
  a session that is over stay; a connection made later may load them, or lose its own new
  ones to a late clear. Both write columns (`status`, `externalUserId`) that the GatewaySession
  of the schemas does not have, so they may well fail always; the model lets them.
* An explicit refresh takes no lock (`oauth.service.ts:278`), and a revocation frees a lock that
  another refresh holds (`:326`). A token that is stored after a refresh read its answer, and is
  near its expiry at once, is answered with the older one (`:407-411`).

## 13. What is not modelled

Every component is listed in `PROJECT.json` with its reason. In short:

* Of the modelled components: the queries of RunRepository; the orchestrated path of an agent
  step, which hands over to `HierarchyOrchestrator`; prices; conversion and sending of
  messages; the gateway's routes other than those of a channel's life cycle; removal of a channel.
* `HierarchyStatusService`, the status stream, lists of runs: they read rows or forward
  events and keep no state of their own. The second channel life cycle service is constructed
  nowhere.
* Other channels, provider clients, n8n, HTTP, sockets: conversion and I/O, present
  only as answers and exceptions. CRUD modules, profiles, prompts, importers, file
  generation, registries, schemas and the web frontend, by far the most lines of
  the repository, have no control worth a model. This, and not a choice among
  concurrent parts, is why the mapped share of all lines is small.
* The isolation of the database: single statements are atomic, and the code uses no
  transactions on these paths.
* Where a model takes one instance (one run, one user, one channel, one provider), others share
  only maps keyed by it. Exceptions that are left out: the budget of a workspace is shared by its
  runs, and stands in `LlmStep` as what others spend.

## 14. Plan

Done: `FlowSearch`, `FlowRun`, `LlmStep`, `Orchestrator`, `Delegation`, `RunQueue`,
`SessionManager`, `AgentResolver`, `MessageDispatcher`, `ChannelLifecycle`,
`WhatsAppAdapter`, `OAuthRefresh`, and the proofs of their safety. What would add most next:

| | Composes or extends | Would show |
|---|---|---|
| 1 | `LlmStep` with several runs of one workspace | by how much runs at the same time may overspend |
| 2 | `SessionManager` with `AgentResolver` and `MessageDispatcher` through `dispatch` | that the reply recorded is of the agent chosen, with late runs |
| 3 | abstract specifications of `Orchestrator` (a task is open, then has one final result) and `OAuthRefresh` (a token, replaced or revoked) | refinements, as for `FlowRun` |
| 4 | `ChannelLifecycle` with removal and the gateway's other clients | what overlapping callers can leave behind |
