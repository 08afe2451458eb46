# A verification of the code-generation agent

The repository is an app builder on Cloudflare Workers: a user describes an
application, an agent (one Durable Object per application) plans and writes it
in phases with a language model, keeps it in git, and deploys it to a sandbox
for preview while the user goes on chatting. In the sandbox, a monitor keeps the
preview's server running and its log; outside, a client SDK talks to the agent.
These modules state what the control of these parts promises, check it with TLC
on small instances, and prove the core of it with TLAPS for all.

## The system

| part | its state | its operations | hard because | what makes it correct |
|---|---|---|---|---|
| agent object, `worker/agents/core/codingAgent.ts`, `websocket.ts` | agent state, two conversation tables, secrets client | WebSocket commands, user input, restart | handlers interleave at every await; eviction loses the fields and keeps the state | no command is lost or starts a second generation |
| base behavior, `behaviors/base.ts` | `generationPromise`, `deepDebugPromise`, abort controller, analysis cache, `pendingUserInputs` | generateAllFiles, handleUserInput, executeDeepDebug, deployToSandbox | the promise and the controller are shared by turns, debugger and generation | one generation; STOP reaches what runs; every request handled |
| phasic behavior, `behaviors/phasic.ts` | `generatedPhases`, `phasesCounter`, `mvpGenerated`, `reviewingInitiated` | the state machine of phases | any inference fails or is aborted; requests arrive meanwhile | no phase forgotten, built over or planned for ever |
| agentic behavior, `behaviors/agentic.ts` | the same promise, the queue of user messages, the full history | the build loop, tool callbacks, compaction | tool calls outlive their group; compactions are long read-modify-writes; the promise is cleared by every iteration | a message is fetched and kept; one generation |
| chat turn, `UserConversationProcessor.ts`, compactifier | the conversation it read | reads, infers, writes back | long read-modify-write | no message lost |
| deployment manager, `DeploymentManager.ts` | shared promise, session, instance, client cache, interval | deployToSandbox, retries, health check | timeouts that cancel nothing; resets during awaits | one deployment waited for; the right sandbox; recovery |
| file manager, git | `generatedFilesMap`, repository | record, commit, sync from HEAD | two copies, synchronized late | they agree; nothing recorded disappears |
| inference and tools, `inferutils/core.ts`, `toolExecution.ts`, `tools/resources.ts` | the plan of a batch | model calls, parallel tool calls | claims of resources merged over arguments; a rejected call among running ones | parallel looks like sequential; nothing waits for nothing |
| vault, `UserSecretsStore.ts`, `SecretsClient.ts` | secrets, one session, one unlock promise | WebSocket requests, RPC, unlock | several sockets and agents, expiry | locked means locked; every waiter is answered |
| rate limits | buckets | increment, remaining | sliding windows; KV read-modify-write | no window admits more than its limit |
| tickets, sessions, API keys | in memory and D1 | issue, consume, revoke | one-time use, expiry | used at most once |
| sandbox service | containers | create, status, write, run | an external service whose client reports failed writes as successes | an instance belongs to the container of its session |
| process monitor, `container/process-monitor.ts`, `cli-tools.ts` | child, state, restart count, timers | start, stop, restart, port check, shutdown signal | exit events, timers and signals in any order; children that ignore SIGTERM | what crashed is restarted within a budget; no child outlives a shutdown |
| log file, the same two files | log, lock file, temporary files | append, trim, read and reset, from two processes | a lock by age, renames under open files, killed commands | a reset hands a line out once; none vanishes unnamed |
| client SDK, `sdk/src/ws.ts`, `session.ts` | socket, queue, retry timers | connect, send, reconnect, close | stale handlers, lost connections, a queue that drops | messages in order, once; greeting first; one socket |
| space, frontend, API, database, scripts | | | | not stateful in ways of interest here, or not surveyed in depth |

How they interact: the WebSocket commands and the HTTP API call the agent
object; the agent delegates to one behavior, which calls operations (each one
inference), the file manager and the deployment manager. Tools called by an
inference call back into the agent (`queue_request`, `deep_debug`,
`deploy_preview`). The shared state is the agent state (persisted on every
`setState`) and the fields of the behavior and of the managers (lost on
eviction). The deployment manager's timer calls back into itself. The sandbox
service starts the container's runner, which owns one process monitor, and calls
its command line under timeouts; the two share the log through the file system
only. A session of the SDK is a client of the WebSocket commands.

`PROJECT.json` lists every component with its status, and every hazard at its
line with the properties that cover it or the reason why none does yet.

## The modules

| module | models |
|---|---|
| `RequestQueue` | abstract: what the agent promises of the requests a user queues |
| `PhasicGeneration` | the phasic state machine, the generation wrapper, the request queue, chat turns, deep debug, the generation commands, eviction; implements `RequestQueue` |
| `PhasicGeneration_proofs` | theorems about it, among them that it implements `RequestQueue` |
| `SharedDeployment` | abstract: what `deployToSandbox` promises its callers |
| `Deployment` | the deployment manager, the sandbox service as it observes it, eviction; implements `SharedDeployment` |
| `Deployment_proofs` | theorems about it, among them that it implements `SharedDeployment` |
| `AgenticGeneration` | the agentic build loop under the same wrapper, its tool calls, user messages, history and compactions, eviction |
| `AgenticGeneration_proofs` | theorems about it |
| `ToolExecution` | claims of tool calls, the plan of groups, its execution, the files the calls touch |
| `ToolExecution_proofs` | theorems about it |
| `Supervisor` | abstract: what a supervised process promises |
| `ProcessMonitor` | the monitor, the runner and its shutdown handler, the child; implements `Supervisor` |
| `ProcessMonitor_proofs` | theorems about it, among them that it implements `Supervisor` |
| `LogFile` | the log of a process, its lock, trims and resets, killed processes |
| `LogFile_proofs` | theorems about it |
| `Outbox` | abstract: what a session promises of the messages it is given |
| `SdkSession` | a session, its connections, timers, queue and sockets; implements `Outbox` |
| `SdkSession_proofs` | theorems about it, among them that it implements `Outbox` |
| `Induction` | two lemmas for proofs about recursive functions |
| `MC*` | the sets TLC uses for the constants of the module after the prefix |

The code is single-threaded and interleaves at awaits only. So an action is the
code from one await to the next, with everything it calls, and the state of an
in-flight function is the await it is suspended at plus the locals that later
code reads.

### PhasicGeneration

| state | in the code |
|---|---|
| `generatedPhases`, `phasesCounter`, `pendingUserInputs`, `mvpGenerated`, `reviewingInitiated`, `shouldBeGenerating` | the same fields of the agent state; a phase also records the requests its plan was made for |
| `gen` | the await the generation is suspended at; `"none"` is `generationPromise === null`, `"stuck"` a rejected promise nobody clears |
| `finalizing`, `phaseConcept`, `userContext` | the call stack and the locals of `launchStateMachine` |
| `signal` | the abort signal the running inference was given |
| `controller` | whether `currentAbortController` is defined |
| `clearsFlag` | whether GENERATE_ALL's `finally` is attached to the generation |
| `chat`, `debugger` | the turns in flight, and the one whose deep debug runs |

`gen` names: `starting` (template), `pgIssues`/`pgInfer` (PHASE_GENERATING:
issues, planning inference), `piIssues`/`piInfer`/`piDeploy`
(PHASE_IMPLEMENTING: issues, implementing inference, saving to deployed),
`rvIssues` (REVIEWING), `closing` (the app record is updated).

Abstractions. `currentPhase` is set and cleared with no await between and is
left out, and with it the fallback at phasic.ts:391-402 that reads it: every
path to it passes a phase. Images are left out (no caller passes any to the
queue). `fetchAllIssues`, the pre-deployment safety gate and `updateApp` swallow
their errors, so those awaits have one outcome; `deployToSandbox` answers null
when it fails and the phase counts as implemented. Saving, commands, deployment
and fixes of a phase are one step, as they touch other components' state only.
The usage check and the gathering of context before a turn's inference are two
awaits with no effect in between and are one. The tools that wait for a
generation or a debugger change nothing. A planner, an implementer and a user
are nondeterministic: any name of a phase, either value of `lastPhase`, no phase
at all, any order of messages.

`RequestQueue` knows requests only: those waiting, those in the planner's hands,
those of the phase being built, those built and those lost. The mapping:
`waiting` is `pendingUserInputs`, `planning` is `userContext`, a phase is open
while one of `generatedPhases` is not completed, `built` are the requests of the
completed ones, and `lost` are the requests asked that are in none of these.
That `PhasicGeneration` implements it says that requests move in whole batches,
that one phase is planned and built at a time, that what is built stays built,
and that a request can be lost by the planner only.

### Deployment

| state | in the code |
|---|---|
| `session`, `instance`, `saved` | `sessionId`, `sandboxInstanceId`, `generatedFilesMap` |
| `client`, `promise`, `interval` | `cachedSandboxClient` (the session it was made for), `currentDeploymentPromise` (the loop behind it), `healthCheckInterval` (the instance it watches) |
| `calls` | callers of `deployToSandbox` and what they wait for |
| `loops` | the runs of `executeDeploymentWithRetry`; `owner` is the caller whose `finally` clears the promise |
| `tasks` | the runs of `deploy()`, abandoned ones included |
| `tick` | the health-check callback |
| `sandboxes` | the service: instances, each with its session, the files written to it, and the files `lost`: named in a write that was answered with success and not written |

`TaskStatus`, `TaskCreated`, `TaskWritten` are the three awaits of `deploy()`;
what a settled `deploy()` resumes in its loop and in the callers is in the same
action, since no other await comes between. `TaskFails` is any of them throwing.

The sandbox client (`sandboxSdkClient.ts`) is modelled as far as the manager
tells it apart. `Container` is the allocation: one container to a session
(`OneToOne`), or one of a pool (`InPool`); a client finds the instances of its
container, whatever session made them. With one container to a session, creating
answers with the live instance there is (`FindInstance`). A write that answers
with success has written all files that are not protected, or, at the price of a
fault, any part of them (`WriteFilesViaScript`): the client swallows a failed
script, and `deploy()` looks at `success` only. A write that throws may have
written a part as well.

Abstractions: the token made for an instance and the clearing of logs; one
health-check callback at a time (a status query is much shorter than the
interval); timers are untimed, except that the five minutes of a caller do not
end within the sixty seconds of a first attempt; setup commands and the callback
after them are one await. The project always has a file (`Base`) since its
initialization. An error that asks for a new session at once is a choice, but
never for a write to an instance the client does not find, whose message has
none of the three texts. A status query that fails counts as unhealthy. The
writing of files runs through `getClient()` of that moment, as in the code.
`MaxAttempts` is 3 in the code. `MaxTries` bounds the attempts of a loop while
another one is active; a loop that is alone goes on as long as it has to.

`SharedDeployment` has callers, the deployment they can join, its maker, and the
deployments under way, and knows nothing of sessions, attempts and sandboxes.
The mapping: `current` is `currentDeploymentPromise`, `maker` the caller whose
`finally` clears it, `running` the retry loops that have not ended, `started`
their number, and a caller waits for the loop behind the promise it awaits.
That `Deployment` implements it says that callers share what is awaited, that an
end answers every caller, and that a deployment given up by its maker changes
nothing for the one that follows, however late it ends.

### AgenticGeneration

| state | in the code |
|---|---|
| `pending`, `mvp`, `full` | `pendingUserInputs`, `mvpGenerated`, the full conversation in SQL |
| `promise` | the generation behind `generationPromise`, 0 for null |
| `pc`, `group`, `marked`, `held` | per generation: the await it is suspended at, the calls its `Promise.all` waits for, whether the completion tool was called, the history its compaction has read |
| `tool`, `toolHeld` | the same of a tool call, which goes on when its group was rejected |

A message is its identity and the history a set of them: `MessageKept` and
`QueuedIsFetched` tell no more apart. Responses and tool results are left out,
and with them their compaction checks; any message may be followed by one that
compacts, since a check is due after every ninth message.

### ToolExecution

`ExtractResources` merges the claims of a call's arguments one after the other
with `MergeResources` as `tool()` does (`Merged`, a recursive function); `HasResourceConflict`, `DependsOn`, `PlanGroup` are the
functions of the same names, one action per group. `known` are the calls whose
tool has a definition; a group with another one rejects the batch, as the throw
at toolExecution.ts:214 does. `content`, `found` and `wrote` are history: who
wrote a path last, and what a call saw when it started. A tool writes when it
ends: when it returns, and when it fails or is aborted either all it can write
or nothing, since its implementation may have run when the error is thrown.
`dependsOn` and `conflictsWith` are not in the code and not in the model.

### ProcessMonitor and Supervisor

| state | in the code |
|---|---|
| `state`, `restartCount`, `restartTimer`, `healthTimer`, `current` | the monitor's fields |
| `child`, `cause` | the process `spawn()` started, the leader of its group: alive, terminating (SIGTERM sent), ended (exit event to come), reaped |
| `group` | the leaders whose group has, or may still get, other processes |
| `startPc` | where a `start()` of the runner or of the restart timer is |
| `stage`, `stopPc`, `killing` | where the runner's shutdown and its `stop()` are |
| `check` | calls of `performHealthCheck` in progress, with the child they were made for |
| `portBindConfirmed`, `portFailureCount`, `healthRestartInProgress`, `grace` | port tracking |

A child is the leader of a process group only: `exitCode`, the exit event and
with them `killProcess` are about the leader. What else is in the group is
`group`, for the children that start processes of their own (`Forking`): those
processes end by themselves or for a SIGTERM (`GroupEnds`) or not at all, and
only SIGKILL ends them for certain. They can answer the port and print a fatal
error when the leader is gone. The monitor has no state about them, so all that
is checked and proved of it is about leaders: a process of the group may outlive
`stop()` and the runner.
A spawn without a pid either reports its failure or, for the 'error' event that
nothing listens to then, ends the runner.

`Supervisor` has runs, whether the last one is up, whether one is owed, and a
budget. The mapping: `run` is `current`, `up` is a child not yet reaped, `owed`
is a restart timer or a `start()` on its way, `budget` is what is left of
`maxRestarts`. That `ProcessMonitor` implements it says there is one child at a
time, none comes that no crash has asked for, none is asked for twice, and
between two resets no more come than the budget pays for.

### LogFile

An action is one call of the file system. `log` and `temp` are the files the two
paths lead to, `content` what every file (an inode) holds, so a rename moves a
name and an append under way goes to the file it opened. `lock` and `lockState`
are the lock file, `empty` between its creation and the writing of its content.
A lock that exists is read by a later action (`LockRead`), and a reset reads its
temporary file and removes it in two (`TempRead`, `HandedOut`): what is appended
between the two is dropped, and a process killed between them hands nothing out.
Handing out is the removal; the printing after it is not modelled. A process that
fails to write the content of a lock it has created counts as killed there.
The two copies of the lock, in the monitor and in the command line, differ in
nothing that the model has, and are one. `times`, `revived` and `dropped` are
history.

### SdkSession and Outbox

| state | in the code |
|---|---|
| `connection`, `state` | the session's connection and `state.connection` |
| `ws`, `isOpen`, `closedByUser`, `reconnectAttempts`, `pendingSends` | the variables of `createAgentConnection`, one set per connection |
| `timers`, `fetching` | reconnect timers, and calls of `connectNow` awaiting a ticket |
| `socket`, `owner`, `heard` | sockets, dead ones whose close event is still to come included |

`Outbox` is a queue between accepted and received messages, with the losses the
code has: the oldest of too many, all on close, one written to a dead socket. A
message is the number of its call, and the queue of a connection is mapped to
the messages in it (`Taken`, a recursive function, leaves the greetings out). The
runtime is taken to report the close of
a failed socket before the shortest retry delay has passed.

## What is checked

| run | properties | instance |
|---|---|---|
| `phasic_safety` | `TypeOK`, `OnePhaseAtATime`, `StopReachesInference`, `HandledOnce`, `PhaseBudget`, `LostOnlyWhilePlanning`, `Implements` | 2 requests, counter 2 and recharge 1, failures, 1 STOP, 1 eviction; symmetric in the requests; 1.8 million states |
| `phasic_liveness` | `GenerationEnds`, `QueuedIsBuilt` | 2 requests, no failures, under `FairSpec`; 380 thousand states |
| `deployment_safety` | `DeploymentInFlight`, `FreshSession`, `OwnerFilesWrittenOrLost`, `Implements` | 2 callers with files, one file protected, a pool of 2 containers, the health check, 2 faults, 5 attempts of loops beside each other; 468 thousand states |
| `deployment_recovery` | `TypeOK`, `LastLoopSettles` | 2 redeploying callers, one container to a session, setup commands, 1 fault, 2 attempts of loops beside each other, 1 eviction, under `FairSpec`; 124 thousand states |
| `monitor` | `TypeOK`, `NoneLeftBehind`, `HealthKillOwnFailure`, `Implements`, `CrashRestarts`, `ShutdownEnds` | 3 children, the first with processes of its own, 1 restart between resets, 3 port failures, 1 failing spawn or signal; 550 thousand states |
| `agentic` | `TypeOK`, `MessageKept`, `WakeupKept`, `QueuedIsFetched` | 1 message, 2 tool calls, 2 generations at once, 1 eviction, under `FairSpec`; 54 thousand states |
| `sdk` | `TypeOK`, `OneSocket`, `HelloFirst`, `Implements`, `QueuedIsSent` | 2 connections, 3 sockets, 3 messages for a queue of 2, 2 retries, 3 faults, under `FairSpec`; 117 thousand states |
| `logs` | `TypeOK`, `LockIsHeld`, `HandedOutOnce`, `Accounted` | 3 operations of any kind, 2 lines, 1 trim, 1 killed process; symmetric in the operations; 3.2 million states |
| `tools` | `TypeOK`, `ProgramOrder`, `AsIfSequential`, `NoNeedlessWait`, `BatchSettles` | every answer of 3 calls with 9 kinds of claims over 2 paths, each tool known or not, under `FairSpec`; 118 thousand states |

Three runs expect a violation; they are below.

Why the bounds are enough. Two requests are needed to queue one while another
is planned, and to have a second turn start a generation; a third only repeats
this. A counter of 2 recharged to 1 reaches every branch of the decision after
a phase: above zero, zero, below zero, and recharged from each. All phases have
one name, the worst case for `markPhaseComplete`, which works by name. One STOP
and one eviction can fall at every await; several failures can follow each other.
For deployments, two attempts to a session reset and two faults reach the reset,
the backoff and the success after it; a master timeout is the first moment two
loops coexist; two callers and the health check make three contenders for one
promise; five attempts are two rounds of a session and the first of a third.
Faults come to an end, as they must for recovery: the bound is what the liveness
of a retry loop assumes. So do the attempts of loops beside each other, but that
is only a bound: two loops that redeploy, one of them given up by its caller's
master timeout, can each reset the session between the other's creation and
writing and fail each other for ever, without a fault. The model has them do so
`MaxTries` times, and one then stands still in its backoff. `LastLoopSettles`
therefore speaks of behaviors in which one loop at most is left in the end; that
every loop ends is not claimed, and is false.

For the monitor, a third child is the first that follows a restart after a
reset of the budget, and three port failures are one more than a kill needs; what
a group does to a later run it does when the first has one. In
the agentic run one message suffices, for nothing relates two; two generations
are what the cleared promise allows, and two calls let one outlive the other's
failure. In the SDK a second connection is the first that can meet leftovers of
another, three messages overflow a queue of two, and three faults fail a socket,
a ticket and a socket again. Three operations on the log let two wait for a lock
whose holder was killed, which is how one lock is taken twice. Three calls are
enough for a chain, a fork and a join of conflicts.

Without failures and evictions in `phasic_liveness`: a request in the hands of
the planner is really lost when the planning fails (`LostOnlyWhilePlanning` says
exactly when), so `QueuedIsBuilt` is about the others.

Deadlock is not checked: an idle agent with no message to come, a deployment
with nothing to do, an exited monitor, a closed session, finished operations on
a log and a returned batch rest.

Fairness. `FairSpec` of `PhasicGeneration` is weak fairness of the generation
and of each turn in flight: the event loop resumes a settled promise, and
inferences, queries and deployments settle (each has a timeout). Nothing is
assumed of the user (messages, tools the model may call, STOP) or of evictions.
`FairSpec` of `Deployment` is weak fairness of the deployments in flight and of
a running health-check callback: sandbox calls answer or time out and timers
fire. No caller has to call and no interval has to tick. `ProcessMonitor`
assumes that timers fire (the one that sends SIGKILL with them), awaited log
lines are written and the exit of a child is reported; nothing makes a child end
by itself or by SIGTERM, a probe be sent, or a signal come. `AgenticGeneration`: each generation in flight and each tool call goes
on; nothing of commands, messages, clearing or evictions. `SdkSession`: timers
fire, tickets are answered, and a socket that is not open comes to open or close;
an open socket may stay so for ever. `ToolExecution`: the planner plans, and
tools return or fail.

`QueuedIsFetched` excepts interrupted generations: a failed or evicted one
leaves its queue to the next start, and `WakeupKept` does too.

### Where code and documents disagree

- `WatchedAtRest` (`deployment_watched`): the periodic health check
  (docs/llm.md:3831) can end with a deployed instance nobody watches: a callback
  that gets no healthy status while the setup commands run clears the interval,
  and its redeployment joins the deployment that has already set its interval.
- `HealthRestarts` (`monitor_health`): the monitor logs a health-triggered
  restart (process-monitor.ts:1164) and sends SIGTERM; a server that handles it
  and exits with 0 counts as stopped, and nothing starts it again.
- `OneGeneration` (`agentic_single`): GENERATE_ALL is meant to be refused while a
  generation runs (websocket.ts:47), but each iteration of the agentic loop
  clears the promise the test looks at.

More, without a run, each a reading of the lines named:

- "Files written to sandbox instance" (DeploymentManager.ts:482) and "Files
  written successfully" (sandboxSdkClient.ts:375) are said of writes that failed.
  The script's failure becomes a list of results nobody looks at
  (sandboxSdkClient.ts:341-348, 372-376), protected files are left out (1246-1260),
  and the caller gets a preview without its file. The model has it (`lost`);
  without `lost` in `OwnerFilesWrittenOrLost` TLC finds it with one fault.
- A child is put into a group of its own "so stop/restart kills the full subtree"
  (process-monitor.ts:430; monitor-cli.test.ts:2034 tests it with processes that
  obey SIGTERM). The kill is over with the leader's exit (1012-1015), and sends
  nothing when the leader is gone already (996-999): a process of the group that
  ignores SIGTERM, or outlives its leader, is never sent SIGKILL. The model has it
  (`group`): TLC finds `stop()` returning while the group of the child it killed
  is not empty.
- "runs only once" (phasic.ts:467) is the body of finalizing, which is skipped
  the first time and run every time after it.
- Deep debug "cannot run during code generation" (docs/llm.md:1285) is tested
  when the debugger starts, and not when a generation does.
- Deployments are documented as queued (IDeploymentManager.ts:85); a second
  caller's files are dropped and it gets the first one's preview.
- docs/llm.md:3832 says an unhealthy instance resets the session; the callback
  redeploys in the same session (DeploymentManager.ts:197). "retry indefinitely
  until master timeout" (DeploymentManager.ts:447) is not so: the timeout ends the
  caller's wait, and the loop goes on. The comment at
  DeploymentManager.ts:365 says the callback runs only on the first attempt; it
  runs on each.
- The full history is said never to be truncated (docs/llm.md:1856); a compaction
  writes back the history it read before its inference, and drops what two
  generations or a late tool call have added meanwhile. `MessageKept` names
  exactly that loss.
- The SDK's `state.connection` says closed after `close()`; a `close()` while a
  ticket is fetched is followed by a socket that opens (ws.ts:214).
- The command line's reset is called atomic (cli-tools.ts:856); it truncates
  the path it has just renamed away, where an append may have made a new file.
  Two processes that find the same stale lock can each remove the other's.
- toolExecution.ts:22 says a missing definition is skipped with a warning; it
  throws (:214) and rejects the batch. The header's `dependsOn` and
  `conflictsWith` do not exist.

## What is proved

`PhasicGeneration_proofs` (for every set of requests and names, every budget,
any number of stops and evictions):

- `TypeCorrect`: by one lemma per group of actions. The lemmas `AppendedPhase`
  and `MarkedPhases` state what the two operators that write the plan do.
- `OnePhaseAtATimeCorrect`. Its halves are not inductive alone: that completing
  the phase at hand leaves no open phase needs that it is the open one, and that
  planning appends the only open phase needs that none is open while the planner
  runs. Together they are.
- `ImplementsCorrect`: from `RequestInv` (below) and `OnePhaseAtATime`. Every
  action that leaves the queue, the planner and the plan alone is a stutter; the
  others are one lemma each, and an inference that fails loses what the planner
  held whatever the agent does next.
- `StopReachesInferenceCorrect`: inductive by itself, since the one action that
  clears a controller under a running inference also aborts its signal.
- `HandledOnceCorrect`: with `RequestInv`, which adds that the planner holds
  requests only while its inference runs; without it a fetch could overwrite
  requests still held.
- `LostOnlyWhilePlanningCorrect`: an action property, from `RequestInv`.
- `PhaseBudgetCorrect`: from `BudgetInv`, that an `Account` never exceeds the
  budget of the requests asked: the phases there are, one whose plan is being
  made, those the counter still pays for, the finalizing one while it may come,
  and the one a request can have planned after the counter ran out. `LaunchInv`
  says what a generation must find to start on a finished first version.

`Deployment_proofs` (for every set of callers and files, every
`maxAttemptsBeforeSessionReset`, with and without setup commands, any number of
faults, timeouts and evictions). A lemma per shared operator (`LoopReturns`,
`LoopFails`, `DeployToSandbox`, ...) states its effect once:

- `TypeCorrect`: `TypeOK` with `TasksPlaced`, that a `deploy()` under way knows a
  loop and a sandbox there are. `TypeOK` alone is not inductive: the late
  `deploy()` indexes both.
- `DeploymentInFlightCorrect`. `SingleFlight` is inductive by itself: a loop ends
  once only, so the promise it clears is its own, and a loop whose maker gave up
  no longer clears any. `NoLostWakeup` is proved by `Waiters`, that an end answers
  all who wait for that loop and an eviction forgets them, and `Attempts`, that
  the `deploy()` a loop awaits is its own latest and under way: one of an earlier
  attempt ends as late as it likes and resumes nobody.
- `ImplementsCorrect`: from these two, one lemma per abstract step
  (`SharedReturn`, `SharedGiveUp`, ...).
- `ClientOfSessionCorrect`: every step keeps the session or renews it by one, and
  a renewal drops the client or makes it for the new session
  (`SessionClientStep`).
- `FreshSessionCorrect`: from `SessionsGrow`. The sessions of a loop's attempts
  grow, strictly after every multiple of `MaxAttempts`, and a loop in its backoff
  that has used its attempts up has a session of later already. `MultipleAmong`
  says that one of any `MaxAttempts` consecutive attempts is such a multiple.
- `OwnerFilesWrittenOrLostCorrect`: from `FilesInv`. The file of a loop's maker is
  among the agent's files and the loop's own, so that whichever of the two a
  `deploy()` of the loop writes has it, and so it was given to the instance the
  loop deployed, written or lost (`Serves`); who got a preview got it from a loop
  that has ended (`Returned`); and no file leaves the state or what an instance was
  given (`Grown`). That the file was written does not follow.

`ToolExecution_proofs` (for any number of calls, paths and claims):

- `MergedConflicts` and `ClaimsCoverCorrect`: what conflicts with the claim of one
  argument conflicts with the merged claim of the call. By induction over the
  arguments (`UpTo` of `Induction`, on the recursive function `Merged`): the claims
  merged so far cover each of theirs, `Covers`, and merging another keeps that.
  It needs that the arguments of a call agree on the sandbox operation, which
  resources.ts says of them and the module assumes.
- `TypeCorrect`, `NeverCircularCorrect`, `NoNeedlessWaitCorrect`: from
  `PlanInv`, that the planned calls fill the groups 1, 2, ... without a gap,
  every planned call comes after all it depends on, and just after one of them.
- `ProgramOrderCorrect`: from `RunInv`, that only calls of the groups up to the
  current one have started, those of the groups before it are done, and only a
  plan that is complete runs; with `PlanInv` it implies `ProgramOrder`, which
  alone is not inductive.
- `AsIfSequentialCorrect`: with `FileInv`, that only calls that are done or aborted
  have written and a path holds the last of its writers in the order of the answer,
  although calls of one group finish in any order: two that touch the same path
  conflict, by `ClaimsCoverCorrect`, and conflicting calls are in order.
- `NotStuckCorrect`, the safety half of `BatchSettles`: from `GoesOnInv`, that the
  calls of every group up to the current one were launched and none has thrown
  in a batch that goes on.

`AgenticGeneration_proofs` (for any messages, tool calls and number of
generations):

- `TypeCorrect`, and `MessageKeptCorrect`, which is inductive by itself: each
  action that takes a message out of the queue puts it into the history in the
  same step, and what a compaction may drop was marked when it read.
- `WakeupKeptCorrect`: from `WakeupInv`. That some generation is not ending is not
  inductive, since the others may all end next. It adds that one works, or starts
  and will find something to do (`Awake`), that none ends by itself before the
  build is marked complete (`NoneEnds`), and that one works while a tool call runs
  that may mark it (`MarkersServe`).

`ProcessMonitor_proofs` (for any budget of restarts, any number of children and
faults). `Dying` says what most steps may do to the children; `ChildrenStep`
shows that every other step is an exit event or a spawn:

- `TypeCorrect`: with `CheckInv`, that one health check at a time probes and
  finds room in the count.
- `ImplementsCorrect`: from `OrderInv`. Children come one after the other, every
  one before the last has been reaped (`Generations`); while one is there, no
  timer is set and no `start()` in progress, and the timer and the two callers of
  `start()` exclude each other (`OneOwed`); the runner starts in the first stage
  only (`FirstRun`). `SupervisorStep` writes the steps of `Supervisor` in the
  names of the mapping.
- `HealthKillOwnFailureCorrect`: from `HealthInv`. No `start()` falls between the
  decision to kill and the kill, since the state is running and a child there;
  a probe of an earlier child finds the count at zero, since the start of this
  one reset it, and one failure is below the threshold.
- `NoneLeftBehindCorrect`: from `ShutdownInv`. A leader still there is never in a
  state in which `stop()` refuses; while `stop()` waits, no start is in progress,
  so the child it kills is the last one; once it has returned, a leader that is
  there was spawned after the signal, and once the second one has returned, after
  that one (`late`). Such a child is really left behind: a restart in progress
  that `stop()` refused to stop spawns it.
- `StateIsTrueCorrect`: the state running is told of a leader whose exit is still
  to come, and stopped when every leader has ended; from `HealthInv` and
  `ShutdownInv`, which have it as parts that only hold together with the rest.
  Neither theorem says anything of the other processes of a group.

`LogFile_proofs` (for any number of operations, attempts, lines, trims and
killed processes). `LockLeavesLog` separates the steps of the lock from those
of the log:

- `TypeCorrect`: with the attempts a process has left when it removes a stale
  lock, and `TempHeld`, which operations have a file at their temporary path.
- `LockIsHeldCorrect`: from `OwnerOnly`. Before any process is killed no lock is
  stale, the owner of the file is the one who takes or holds it, and who gave up
  waiting has nothing to release.
- `HandedOutOnceCorrect`: from `OnceInv`, that a line no trim wrote back is in
  one file at most, in none before it is written and in none after it was handed
  out. It does not mention the lock: the renames exclude by themselves.
- `AccountedCorrect`: with `OpenedFiles` and `TempHeld`; `NamesKept` states what
  a step must leave of every named file.

`SdkSession_proofs` (for any number of connections, sockets, messages and
faults):

- `OneSocketCorrect`: from `SocketInv`. A connection does one thing at a time: it
  waits for a ticket, has a socket, or has a timer for a socket that is gone or
  failing (`OneThing`). A live socket is the last one of its connection
  (`IsLast`), and one being closed belongs to a closed connection, so its close
  event schedules nothing.
- `HelloFirstCorrect`: with `Greeted`, that the socket the session's connection
  sends to has been greeted.
- `TypeCorrect` and `ImplementsCorrect`: from `MessageInv`, the types of what is
  queued, written and received, and `Waiting`: only the session's connection has
  a queue, and only while it is not open, so what is sent at once overtakes
  nothing. What `Messages` makes of a queue that grows at its end or loses its
  head is proved by induction over the queue.
- `AttendedCorrect`, the safety half of `QueuedIsSent`: with `NotClosed`, that the
  connection the session has was not closed by its user, so that each end of a
  ticket or a socket schedules a retry or finds them used up.

The assumptions are the named ones of the modules. TLC evaluates them in every
run.

Only model-checked: liveness under fairness, which with `ENABLED` is out of the
prover's reach (`GenerationEnds`, `QueuedIsBuilt`, `LastLoopSettles`, `CrashRestarts`,
`ShutdownEnds`, `QueuedIsFetched`, `QueuedIsSent`, `BatchSettles`). Every safety
property and action property of a passing run is a theorem. `Attended`,
`NotStuck`, `StateIsTrue` and `ClientOfSession` are theorems and no run's
property: they held in the instances of `sdk`, `tools`, `monitor` and
`deployment_safety` before they were proved.

## Not modelled

- The file manager and git: two copies of the files whose agreement no document
  states; the object format is a library's.
- A phasic chat turn's read and write of the conversation (base.ts:1687), a lost
  update of the kind `AgenticGeneration` has for compactions.
- The vault: the agent's side of unlocking has no caller (codingAgent.ts:355).
- Rate limits: counters in one synchronous step, or best-effort in KV.
- `think.ts`, which delegates to another worker, and the space worker itself.
- Text formats and prompts (character data, well tested), HTTP routing,
  single-statement database services, the typed state of the SDK, the frontend,
  scripts, and the inside of the sandbox service.
