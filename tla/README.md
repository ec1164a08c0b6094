# Models of the AI DevTools bridge

This directory holds TLA+ models of the local daemon, the Chrome extension with
its side panel, the MCP adapter and the messages between them, the TLC
configurations that check them on small instances, and theorems about them that
TLAPS checks for every value of the constants.  `PROJECT.json` lists the
components, the runs, a mutant for each checked property, the source lines
behind each definition, the hazards and the theorems.

## The system

An MCP client (Codex, Claude, ...) or the agent of the side panel asks for a
browser tool.  The request crosses four processes:

```
MCP client -- stdio --> adapter --ws--> daemon --ws--> service worker --> Chrome tab
                                          |  ^
                                          v  |  approval cards, answers, agent runs
                                        side panels
```

The daemon authorises the request (policy, task grant or the user), admits it
to the execution broker, selects the browser socket, signs a short-lived
execution grant for the document it saw, and waits for the answer, a
cancellation or a timer.  The service worker verifies the grant, queues the
call behind the one that is executing, compares the tab once more and acts.
The daemon keeps the browser state and the audit events in one file, runs the
agent whose conversations the side panel shows, keeps the tasks that MCP agents
delegate to it, stores artifacts, and talks to external MCP servers.

| Part | State | Operations | What is hard | What makes it correct |
| --- | --- | --- | --- | --- |
| Execution broker, `daemon/executionBroker.ts` | maps of executing and input-waiting calls, idempotency cache, a promise tail per target | execute, waitForInput, cancel, cancelConnection | promise chains whose members are cancelled, time out or fail; a cache entry outliving its call | one mutation per target; no slot leaked; a key has one effect; every call settles |
| Browser hop, `mcp/wsServer.ts` | pending browser requests, current socket per session, the tab as last reported | callBrowserTool, results, cancellations, timers, socket registration and loss | awaits between check and use; a replaced socket that still talks | a request settles once, by its own socket |
| State hub bridge and tool dispatcher, `background/` | socket, outgoing queue, live requests, one execution tail | connect, receive, verify, execute, answer, cancel | answers queued over a reconnect, cancellation against a queue, restarts of the worker, navigation | one tool at a time, on the authorised document, answered once |
| Target selection, `background/chromeApi.ts`, `targetSelectionState.ts` | the selected tab, its mode and generation, the tab lent to a tool | select, release, follow the foreground, lend, resolve | awaits of Chrome between two looks at the selection | the user's choice survives tools and tab events |
| Debugger targets and request proxy, `background/debuggerAdapter.ts` | debugger sessions, iframe sessions and routes, pauses, rules, held requests, restore loops | attach, detach, monitor, refresh routes, enable and disable the proxy | Chrome detaches at any moment; several jobs share one session | routes are live, nothing stays frozen, no request is forgotten, the proxy comes back |
| Tool approval and task grants, `mcp/wsServer.ts`, `shared/taskCapabilityGrant.ts`, `sidepanel/services/mcpBridge.ts` | pending approvals, grants; the cards of each panel | request, answer, cancel, revoke, expire | several panels, reconnects, navigation while a card is open, audit writes between steps | nothing runs without consent; cards match approvals |
| State store, `daemon/store/stateStore.ts` | memory image, dirty flag, timer, operation tail, file | change, append, flush, close, load | changes during a write, overlapping flushes, crashes | an acknowledged event is in the file; the file never goes back |
| Browser state hub, `mcp/browserStateHub.ts` | sessions, active session, tabs, page, element, revisions | connect, disconnect, tab and page updates, expiry, recovery | reports of an old document, fallback of the active session, a persisted tab after a restart | evidence is of the current target; a revision names one document |
| Activity stream, `background/stateHubBridge.ts`, `mcp/browserStateHub.ts`, `shared/browserActivity.ts` | events with numbers, limits per kind, cursors | observe, queue, send, retain, digest | events dropped at three places, restarts on both sides | a run that is told nothing is missing has seen everything |
| Collaboration tasks, `shared/collaborationTasks.ts`, `shared/collaborationWorkspace.ts`, `mcp/collaborationTaskRuntime.ts` | items of delegated tasks, claims, waiters | delegate, claim, resume, update, complete, wait | two claimants, retention evicting a task somebody waits for | everybody is told the same result |
| Artifact store, `daemon/artifacts/store.ts` | files, index, byte budget | put, read, cleanup, load | a failure or a stop between two file operations | a listed artifact has its file |
| External MCP registry, `daemon/externalMcpRegistry.ts` | one runtime record per configuration, client, attempts | connect, refresh, call, recover, change settings | settings change while a connection is opened or a call is out | an effect is sent once |
| Daemon agent runner and panel bridge, `daemon/agentRunner.ts`, `sidepanel/services/mcpBridge.ts` | runs, budget questions; the panel's promises, outbox and retries | start, cancel, decide, end, reconnect | requests and events lost with a connection, crashes, reloads | what the panel has settled is over; every run settles |
| Agent loop, `sidepanel/services/autonomousAgent.ts`, `shared/agentRunBudget.ts`, `agentResultEvidence.ts` | rounds, batch, counters, limits, evidence | ask the model, run a batch, ask the user, conclude | parallel and serial calls under limits, cancellation in a batch | the budget holds; a claim of success is backed by a later look at the page |
| Panel conversations, `sidepanel/App.tsx`, `agentRunRegistry.ts`, `chatQueue.ts` | conversations, runs, queue, delegated tasks | submit, queue, branch, delete, stop, reload | a run ends while another conversation is shown | a run's answer goes to the conversation that asked |
| Conversation memory, `shared/conversationMemory.ts`, `daemon/conversationMemoryExtractor.ts` | entries with evidence, task, copies | merge, extract late, supersede, branch, delete | an extraction that comes after newer turns | the memory cites what is there, and a late patch builds on its own turn |
| Model request, `sidepanel/services/aiClient.ts` | messages of one request | build, drop units, shorten | budgets in which neither part fits | calls keep their results; the request fits |
| Browser workflow, `mcp/toolRuntime.ts` | plan, results, status | observe, verify, act, clean up, check | failures and navigations in the middle of a batch | the report is what happened |
| MCP adapter, `mcp/daemonClient.ts` | socket, pending calls, backoff | connect, call, resend, cancel | loss of the connection with calls in flight | a write is not sent twice, no call waits for a dead socket |
| Release and local update, `daemon/releaseUpdate.ts` | installed directories, backups, metadata | exchange, roll back, restart | a stop between any two renames | there is always a copy; a settled installation is of one version |

All paths are below `src/src/`.  The parts talk through messages on WebSockets
(adapter, panel and extension with the daemon), calls inside the daemon
(authorisation, broker and browser hop around one tool call; runner and agent
loop) and Chrome's API (extension and tab).  The modules cut the system where
these interactions are narrow; `ToolPath` composes the two ends of a browser
call, `DaemonRuns` the panel's bridge with the runner.

### Not modelled

About a sixth of the repository's lines stands behind a definition.  Most of
the rest is not control: tool and message schemas (`shared/mcpTools.ts`,
`shared/tools.ts`, protocol types, role tables), React components, the reading
of DOM in content scripts, the formats and streams of the model providers,
redaction and other text processing, and wrappers around single Chrome
commands whose result is Chrome's (profiles, heap snapshots, storage, network
bodies).  The pure algorithms of `shared/` are single functions with unit
tests over their boundaries.  The `note` of each component in `PROJECT.json`
says which of its operations are left out.

## Modules

| Module | Contents |
| --- | --- |
| `SerialMutations` | abstract: a first-in first-out line of mutations per target with one holder |
| `ExecutionBroker` | the broker, one action per stretch of code between two awaits; implements `SerialMutations` |
| `BrowserHop` | the daemon's side of a browser call: sockets, pending requests, timers |
| `BrowserExecutor` | the extension's side: bridge, outgoing queue, execution tail, tab |
| `Selections` | `Array.prototype.filter`, written as a recursive function so that it can be reasoned about; the browser executor, the collaboration tasks and the queue of the panel use it |
| `ToolPath` | both, joined by one pair of channels per connection |
| `TargetSelection` | the tab the extension acts on |
| `DebugTargets` | iframe sessions, routes of frames, pauses of JavaScript |
| `DebuggerProxy` | debugger sessions, request interception, restoration, monitors |
| `ToolApproval` | authorisation by policy, task grant or user; grants; cards of the panels |
| `StateStore` | memory, flushes and file of the daemon's state |
| `BrowserStateHub` | sessions, targets and the evidence of their documents |
| `ActivityStream` | page activity from the extension to the digest of a run |
| `CollaborationTasks` | delegated tasks in the shared workspace and their waiters |
| `ArtifactStore` | artifact files and their index |
| `ExternalServer` | the connection and the calls of one external MCP server |
| `DaemonRuns` | agent runs between the panel's bridge and the daemon's runner |
| `AgentLoop` | one run of the agent: rounds, batches, budget, evidence |
| `PanelRuns` | conversations of the panel, their runs and queue |
| `ConversationMemory` | the memory of one conversation over its turns |
| `ModelContext` | one request to the model, fitted into its window |
| `BrowserWorkflow` | the workflow tool |
| `AdapterClient` | the stdio adapter's connection to the daemon |
| `ReleaseUpdate` | the exchange of an installation's directories |
| `MC...` | small instances; `MCServices`, `MCProgress`, `MCSidePanel` and `MCStorage` check parts that share no state side by side |
| `...Proofs` | the theorems, see below |

### ExecutionBroker

A call is one invocation of `execute()` or `waitForInput()`.  Its `phase` is
where its promise is; `active` and `inputWaiting` are the two maps, `entry`
the idempotency cache, `chain[t]` the calls whose promises were chained to the
tail of target `t` since the tail was last deleted.  `Execute*` are the
outcomes of the synchronous part of `execute()` in the order of its checks;
`StartMutation` and `SkipAborted` continue after `await previous`; `Finish` is
the end of the caller's function with its `finally` blocks.  The caller's
function is arbitrary: it may ignore its signal and may fail as it likes.

`SerialMutations` says what callers rely on: mutations of one target hold it
one at a time, in the order of their calls, unless they give up while waiting.
`ExecutionBroker` implements it with `waiting` as the queued calls of a chain
and `holder` as the running one (`SerialSpec`).

### BrowserHop, BrowserExecutor, ToolPath

`BrowserHop` follows one `callBrowserTool` from its authorisation to its
settlement.  `Sign` is the code up to the two awaits that hash the arguments
and sign the grant, `Dispatch` the code after them.  A document number stands
for all the compared fields of a target.  `BrowserExecutor` has the socket
(`Connect`, `LoseSocket`, `ReceiveWelcome`), the bounded outgoing queue in
which a newer tab report replaces an older one, grant verification, the
execution tail and the answer.  The two ends notice the loss of a connection
on their own: a socket replaced by a reconnect may still deliver.  A restart
of the service worker forgets everything in its memory.

What a tool does in Chrome is not modelled beyond "runs after the last target
check and ends in some way"; signatures are assumed to be sound; the broker
appears as one condition (`Admitted`), which `MutationExclusion` justifies.

### TargetSelection

The selection has a tab, a mode (`auto` follows the foreground) and a
generation.  Tab events, `withTemporaryTargetTab` around each tool and the
panel's pick are procedures (`step` of a caller) that query Chrome and commit
only if the generation is still the one they saw; the answer of a query is
what held when it was made.  `Attempts` stands for the bound on repeated
resolutions.  `selectTargetTab` does not await the load of the stored selection,
and Chrome may stop the worker in the middle of a tool; both are steps of the
model, and both can lose the selection.  The history variable `disturbed` records
that one of them has happened since the selection was last changed by hand.

### DebugTargets, DebuggerProxy

`DebugTargets` has the root target and the flattened sessions of iframes,
`routes` from frames to sessions, the refresh that rebuilds them from several
answers, and the pauses of the JavaScript debugger with the code that resumes
or forgets them.  `DebuggerProxy` has the session objects (`netSessions`), the
active one, one job per tool call, restore loop and monitor (`proxyJob`, whose
`at` is the await it stands at), the rules, Chrome's attachment and
interception, and the requests Chrome holds back.  Chrome may detach, refuse
an attachment and end a session at any moment within the bounds.

`SessionIsSound` compares the flags of the sessions that the extension consults,
the active one and those of the monitors, with Chrome's attachments, on several
tabs and with monitors.  The code itself lets them differ at four steps
(`Misstep`): an attachment is answered when another tab's session has become the
active one, which then gets the flag (`debuggerAdapter.ts:2774`); Chrome lets go of
a tab that has two session objects, of which `onDetach` resets one;
`detach_debugger` leaves a monitored tab and Chrome does not report it; and the
session leaves a tab on which a monitor has started since line 2756 found none.
The property says that no other step does, in whatever order they come.

### ToolApproval

`stage` follows `authorizeTool`: the request of a decision with its audit
event (`requesting`), the registered approval (`pending`), the audit events
after the decision (`denying`, `granting`, `approving`), the receipt
(`authorized`) and the dispatch (`ran`).  `allowed` is `allowedSockets`, a set
of connections of panels.  A panel keeps its cards when its connection is
lost, and queues its answers while it is down.  `said` and `basis` record
what users decided and which decision authorised a call.

One session and one tab are modelled; a page number stands for the target, and
`OriginOf` gives the part a task grant compares.  `TaskOf` stands for the task
with its egress destinations, `ClientOf` for role and client name.  Left out:
external MCP tools (no target), the task binding check (it only refuses), the
wait of at most 350 ms for a first tab report, and the daemon's shutdown.

### StateStore

`memory` and `disk` hold a version of the browser state and the list of audit
events.  A flush is `waiting` on the operation tail, `writing` the temporary
file, `renamed`, then `saved` or `failed`.  `Saved` is the end of `persist()`:
the store is clean only if nothing changed since the image was taken, and sets
its timer otherwise.  `Restart` is the death of the process at any point; the
next process loads the file.  The rename is atomic and kept; a loss of power
that undoes it is outside the model.

### BrowserStateHub, ActivityStream, CollaborationTasks

`BrowserStateHub` has per session the target document, its revision, the
cached page and element and the flags of the connection; panel and browser
have sockets of their own, so a report may be of any document.  A restart
brings back what was saved.  `ActivityStream` gives each observed event a
number and follows it through the queue of the bridge, the stream and its
limits per kind, to the digest of a cursor, with the `gap` flags of each place
that can lose events.  `CollaborationTasks` keeps the items of a task in the
order in which retention evicts them, and per task the answers its waiters
were given.

### ArtifactStore, ExternalServer, ReleaseUpdate, AdapterClient

`ArtifactStore` is one promise chain of operations, each a sequence of file
operations that may fail, be the last of the process, or (`LateFailure`) take
effect and still report a failure.  `ExternalServer` has one runtime record per
configuration and the continuations that hold an old record across an await.
`ReleaseUpdate` numbers the steps of the exchange and of the rollback; the
metadata is replaced in one step, or in two when `Windows`.  `AdapterClient`
follows the calls over the sockets of the adapter; an event is handled only
when all continuations have run (`Quiet`).

### DaemonRuns, AgentLoop, PanelRuns, ConversationMemory, ModelContext

`DaemonRuns` has both ends of a run: the panel's promise with its timers and
outbox, the ordered socket that loses what is under way, and the runner's
record; a start is refused in a busy conversation and for its configuration; the
panel may reload and the daemon crash.  `AgentLoop` is the loop
itself: reservations (`reserveAgentRunBudget`), the question at a limit, model
requests, batches executed in parallel or in series, and the evidence behind a
completed run; what the model answers is arbitrary.  `PanelRuns` has the
conversations with the messages and runs they show, the queue, branches and
delegated tasks.  `ConversationMemory` keeps entries with kind, life and
cited turns, the patch of a turn and the later patch of the extractor.
`ModelContext` builds and fits a request: units of messages are left out, then
single messages shortened; sizes are coarse.

### BrowserWorkflow

The plan (which actions fill fields, in which frames, dependencies, barriers,
references), the refusal of selectors that are not native CSS, the observation,
the batches, and the cleanup, second observation and checks.  The
daemon may give an action up while the extension still executes it, so what
happened on the page (`done`) and what is reported (`results`) are separate.

## Runs

Deadlock is not checked: every instance is bounded, so it stops when its
calls, connections or flushes are used up.  Where a run covers several parts
that share no state, each behaviour is a behaviour of one of them (`part`,
`following`, `watched`); the others stay as they start.

| Run | Shows |
| --- | --- |
| `broker_lines` | mutual exclusion of mutations, the refinement of `SerialMutations`, no start after an abort, every call settles; three mutations on two targets |
| `broker_tables` | every pending call is held once in the maps and nothing else is, one effect per idempotency key; three calls out of five requests on two connections, limits 2 and 1, one cache entry |
| `path_queue` | one tool at a time, one answer per request, the extension's queue drains; a mutation and a read, one connection, one worker restart |
| `path_reconnect` | the checked document is the authorised one; one mutation, two connections, one navigation, one restart |
| `store` | acknowledged events are durable, the file never goes back, changes reach it; the selected tab is the user's, unless a selection came before the load or the worker was stopped in a tool, until the next selection that changes it; a tool strays from its tab only when that is lost |
| `side_panel` | nothing runs without consent and a revoked task asks again; queue and answers of the panel's conversations; the memory of a conversation; the request to the model |
| `progress` | a run the panel has settled is over, every run settles; the request proxy comes back after Chrome has detached; cards match approvals and a decision lands |
| `services` | the safety of the state hub, the activity stream, delegated tasks, the agent's loop, the adapter, the artifact store, an external server, the update, the debugger's targets and proxy, and the workflow |
| `path_cancel_lost` | counterexample: an abort during signing is never seen |
| `agent_stop` | counterexample: a stop at a limit is taken for a failure and the user is asked again |
| `adapter_outcome` | counterexample: a write whose outcome is unknown is reported as safe to retry |
| `target_lost` | counterexample: a tool acts on another tab after its own was closed |

### Bounds

The bounds are named constants of the cfg files; counters of retries, restarts,
navigations, revocations and failures are bounded in the guards of their own
actions only.

- Broker: three calls are enough for a predecessor, a cancelled call in the
  middle and a successor of one line, and for an evicted key, its retry and a
  third request.  `broker_lines` makes its calls in the order of their names
  (`InOrder`), which loses nothing because calls are interchangeable;
  `broker_tables`, without temporal properties, uses symmetry instead.
- Path: two calls meet on the execution tail, each further one only waits
  longer; two connections give a replaced socket and its successor.
- Approval: two pages with different origins give a stale card and a grant out
  of scope; in `progress` two panels are an answering one and a sibling.
- Store: `MaxFlushes` is large enough that no behaviour runs out of flushes:
  with fewer, the timer that should save the last change could not fire.
  `MaxEvents = 1` makes every second event push out the first.
- Target selection: two tabs, one tab event, and two parts (`watched`): a lent tool
  beside one selection by hand, with two of one closing, one activation and one stop
  (`MaxFaults`), and two selections by hand without a tool, with all three, so that
  the second one follows a disturbed first; two looks of a resolution instead of
  eight: the third differs from the second only in its number.
- State hub and activity: two documents (one captured) and one restart; two kinds of
  events with two retained per kind, a queue of one and three events, so that each of
  the three places that drop events does.
- Delegated tasks: two tasks in two conversations and five items in the
  workspace, so that a third attempt or a second task evicts the first.
- Agent loop: batches of two, three rounds, limits of two model requests, three
  tool calls, two effects and one extension, so that every limit is met by a
  serial and by a parallel batch.
- Adapter, artifacts, external server, update: a write and a read over three
  sockets; three artifacts of two sizes against two limits per owner and in
  total, and one stop; two calls, one harmless, over four clients; three releases with
  three failures and two stops, which covers a failure in the rollback of a failure.
- Debugger: two iframe sessions with two frames, four events and two refreshes,
  so that one refresh overtakes another; the proxy on two tabs with one request,
  two restore loops, one call, one detachment and one monitor in `services`, and on
  one tab with three detachments in `progress`.  One restore attempt stands for the
  fifty of the code in `services`, three in `progress`.
- Workflow: three actions with every backward dependency relation, in one frame or
  with one field of a form in another, one
  navigation and two failures.
- Runs: one run with each fault once (question, lost connection, reload, crash, slow answer).
- Panel: two conversations, three submissions, one of them delegated, a queue
  of one and one reload.
- Memory and requests: three turns, four kept messages of which one tool
  result; windows of 7 and 18 units, which are below and above the fixed parts.

### Fairness

All of it is fairness of steps that an event loop, a timer or Chrome runs once
they are enabled; users and networks are assumed to do nothing.

- Broker: a resolved promise runs its continuation (`StartMutation`,
  `SkipAborted`), and a running function ends, since a browser hop has a timer
  of at most 90 seconds.  Nothing is assumed of requests and cancellations.
- Path: a queued call that has its turn starts and ends.  The Chrome calls of
  a tool are assumed to return.
- Approval: a message on a connection that lasts is delivered.  Users need not
  decide, and requesters need not give up.
- Store: timers fire, continuations run, file operations return or fail.
- Runs: sockets deliver (`PanelHandles`, `DaemonReceives`), the panel reconnects,
  its timers fire (`StartTimesOut`, `CancelAgain`), a prompt is answered in the
  end (`DecideBudget`).  A run that is not
  suspended ends; strong fairness, since questions suspend it again and again,
  finitely often.
- Proxy: each job continues when Chrome has answered, and Chrome answers every
  command (`JobStep`, `ToolStep`, `AnswerRequest`).

### Disagreements with the documents

Four runs end in a counterexample to something the repository says of itself;
`PROJECT.json` quotes the lines.  `path_cancel_lost`: a signal is checked,
something is awaited, and the signal is not looked at again.  `agent_stop`: a
catch clause takes the user's stop for a failed request.  `adapter_outcome`:
the loss of the daemon hides that a write was under way.  `target_lost`: the
tab is compared before the wait, and afterwards two resolutions are compared
with each other.

The models have further behaviours that the documents or comments exclude.
Those that are stated as a definition (named here) can be checked by giving it
to a run of the module; they are no runs of their own.

- Broker, `EntryKeptForItsCall`: a call that ends deletes a cache entry by its
  key even if the entry is another call's by now (`executionBroker.ts:126`).
  `JoinsUnaborted`: a call that was cancelled or is past its deadline, and has not settled
  yet, is joined by a later one with its key (`executionBroker.ts:75`).
- Path, `CancelledQueuedNeverStarts`: a call that was cancelled while it waited on
  the execution tail is executed (`toolDispatcher.ts:197`).
- Approval, `CancelledNeverRuns`: a cancellation during an audit flush is
  forgotten (`wsServer.ts:1157`); `PendingIsAnswerable`: an approval can be
  tied to sockets that are gone (`wsServer.ts:1192`).
- Hub, `ScreenshotsOfTarget`: a screenshot is kept over a change of the document.
  Activity, `NoSilentGapAcrossRestarts`: numbers start anew with the daemon.
- Tasks, `RetryRecovers`: a retry after an eviction does not find the task it made.
- Agent, `UnsureIsRead`: a write of unknown outcome need not be followed by a read.
- Adapter, `CancelledIsNotSent`, `InUseIsBeating`; external server,
  `HiddenIsUnrouted`, `NoClientLeaks`.
- Artifacts, `IndexHasFiles` with `LateFailure`; update, `InstallationIsWhole` with
  `Windows`, and `AlwaysWhole` when the process is stopped.
- Runs, `QuestionIsShown`: a question answered by nobody may not be on the screen.
- Target selection: the user's choice is lost when a tab is selected before the
  stored selection was read, which then replaces it, and when the worker is stopped
  in a tool, which leaves the tab it was lent, or none, in the storage.
- Debugger: `FrozenIsKnown` on a tab shared with a monitor (`SharedTab`),
  `ChildrenAreDebugged`, `DisabledIsQuiet`; the flags of a session disagree with
  Chrome after one of the four missteps, and a session that is taken for attached and is
  not can never be attached again, because `ensureDebuggerSessionForTab` asks the flag alone; `detach_debugger` can overtake a restoration and leave the tab
  attached with no session; a restoration and a tool on another tab take the debugger from each
  other in turn.
- Workflow: `NothingHidden`, `StopsAtBarrier`; a dependency on a later action
  is accepted and reported as skipped in a completed stage; a partly filled
  batch is reported as failed as a whole; there is no stop after a navigation
  for actions addressed by selector; references are not resolved in preconditions and
  cleanup.
- Panel: `NothingThrownAway`, `NothingPassedOver`, `SupersedesLatest`,
  `ClaimCostsNothing`; a remote run of a deleted conversation stays registered; a
  refused run leaves an empty message of the assistant.
- Memory, `NextIsFree`; request, `RequestIsKept`: the request of the user may be
  left out when the last message of the user's role is another one.
- Not modelled, seen while reading: switching the panel to "ask" revokes grants
  by conversation, while grants of daemon runs are kept by task (`App.tsx:664`);
  a retry with a conservative schema sends `stream_options` again; the
  arguments of a truncated stream become `{}`; a live read that fails deletes a
  newer generation of element references.

## Theorems

TLAPS checks each of these for every number of calls, panels, events, tabs,
flushes and so on, from the assumption on the constants in the component's
module; further hypotheses are named here.  Each safety property rests on an
inductive invariant whose preservation is proved action by action.  Every
invariant of a passing run is stated by a theorem.  Two assumptions are about
bounds of the models only: there is at least one release (`ReleaseUpdate`), and
the changes of the settings are finitely many (`ExternalServer`, whose runtime
records are numbered by them).

### ExecutionBrokerProofs

`TypeCorrect`, `ChainInvariant`, `MutualExclusion`, `AbortedStaysOut`,
`CallsReachable`, `EffectsOnce`, `LinesAreSerial`, `LimitsHold`, `JoinsShareTheEffect`.

Mutual exclusion is not inductive: `ChainInv` adds that the chain of a target
holds each unsettled mutation once, only mutations of that target, and that all
members before a running one have settled.  The delicate step is the deletion
of the tail, which only the last member performs, when everything before it
has settled.  `KeyInv` (for `EffectsOnce`) relates a cache entry to the one
call that may still have its effect.  `LinesAreSerial` is the safety part of
the refinement: every step of the broker accepts, grants, gives up or releases
in one line of `SerialMutations`, or leaves all lines as they are.  The
fairness of `SerialSpec` is left to TLC.  `LimitsHold` is about the calls themselves, while
the code counts the entries of its maps: because every pending call is
reachable from a map (`CallsReachable`), a map has an entry for each of them, and a
map that is not full has room for one more.  `JoinsShareTheEffect`
needs that an entry of the idempotency cache is of the effective call of its key
(`EntriesEffective`), and that a call which is not over has no outcome
(`PendingIsOpen`); the owner may have been aborted without having settled.

### ToolPathProofs

`CallsInOnePlace`, `OneAtATime`, `AuthorizedDocument`.  `CallInv` has three
parts.  `TailInv`: the execution tail holds each verified, unfinished call once,
and only its head runs.  `WireInv`: a call message exists at most once on all
connections, and only before the extension has begun the call; without it a call
could be begun twice and the tail would hold it twice.  `DocInv`: the authorised
document, the granted one and the checked one are the same.  Documents are not
typed: the invariant says that some set `D` contains those reported so far, and
a tab report enlarges it.

`OneAnswer` (`AnswersInv`): a call that is not begun or still verified is unanswered,
a live one too, and of a call that is unanswered or cancelled no success is
in the queue of the bridge or on a connection.  The step that matters is the
cancellation: it finds only a live call, of which nothing has been sent.

### StorageProofs

About `StateStore`: `StoreTyped`, `WritesInOrder`, `Durability`, `CleanSaved`, `FileMovesForward`.
`SaveInv` is the inductive invariant: at most one flush is writing, its image
lies between the file and the memory, and it holds the events that wait for it.
`NothingUnsavedIsForgotten`: what is unsaved has a timer or a flush that will see
to it, unless a write failed after the last change.

About `TargetSelection`: `SelectionStaysTheUsers`, `StraysOnlyWhenGone`, without any
hypothesis on the behaviour: a selection before the load and a stop in a tool are
steps of the proof like the others.  `SelectionKept` has two parts.
`SelectionBase` always holds: only one caller at a time is past its check of the
generation (`Turns`, `Writers`), and a tool has the tab it was lent until that is
lost (`LentHeld`, `Reached`), which is all that `StraysOnlyWhenGone` needs.
`Undisturbed` holds until the selection by hand is passed over, and again from the
next one that changes the target: it says of each point of the dispatcher's
tail whose tab is selected, the user's while nothing is lent (`AtRest`), the lent one
while a tool runs (`Lending`), what was saved when it is given back (`GivenBack`), and
the one picked by hand while a pick is stored (`Picking`).  The delicate step is
the pick that ends a disturbance: older writes may still be queued, and its own is
behind them.

### PanelProofs

`ApprovalTyped`, `ConsentHolds`, `NothingRunsUnapproved` about `ToolApproval`.  The
invariant `ConsentInv` follows the user's word from the answer in a channel to the stage
of the call and its grant: an answer on its way was said, a grant rests on a
"task" answer to an eligible call, and an authorised call has a basis on the
origin of its own card.  `CardsStayTrue` rests on `CardInv`: of a call that nobody was
asked about nothing is shown or on its way; a call's request precedes its dismissal
on every connection; a card is on its way, shown or answered, never two of
these.  `RevocationHolds` is a property of one step.

`SettledRunsAreOver` about `DaemonRuns`.  `RunsInv`: messages are about runs that
have begun; a run that has not is unknown to the daemon; the active run is
`running` in the hub and no start of it is under way; a start is behind no
other message of its run in the daemon's inbox; each message that would settle
a run, and each session that has ended, is about a run that is over.  What the
daemon replays to a panel that connects is a choice of an order over the known
sessions, which exists because they are finitely many.

`MemoryStaysCoherent` and `TurnsAreApart` about `ConversationMemory`, from the sole
assumption on memories that "no memory" is not one.  `MemoryInv`: one turn is
under way, the newest unless a reload has forgotten it; what the panel and the
storage remember cites messages that are there; revisions grow while a turn
runs, and from its end until its late patch they stay only if nothing else has
changed the memory; before a turn that supersedes another starts, the memory has
neither task nor open decision.

`AllArrives` about `PanelRuns`.  `AppInv`: a message that waits, one a timer is about to
start and a run that is followed belong to the conversation they were sent in; a
conversation that was deleted and is there again was set back by a refused claim; what a
claim waits with names conversations that were made, and its task is in none of
them.  `Begin` and `SettleRun` write to the conversation named by the run, so
the answer of a run is shown where its message is; without the second and third part a
refused claim could bring back a list of conversations in which it is not.

### DaemonServicesProofs

- `EvidenceHolds` (`HubInv`): page and element of a session are of the document
  its revision names, in memory and in the file.  `RevisionsNameDocuments`
  (`NamesInv`): a revision is not given twice within one life of the daemon.
- `OneResult` (`TasksInv`): the result of a retained task does not change, what was
  answered is that result, and a waiter waits for a retained task.
- `ArtifactsStay`: under `LateFailure = FALSE`, which says that a rename that
  reports a failure has not happened.
- `CallsSentInMeasure` (`ExternalInv`): the attempts of a call are counted before each
  await, and a record that was replaced sends nothing.
- `WindowsAreComplete` (`GapInv`): until the daemon restarts, each observation is told,
  on its way, or reached behind the cursor: some number there is missing among the
  kept events or belongs to an event that tells it.  `QueueFits`: the queue of the
  bridge holds observations and behind them at most one end of the monitoring, so
  what is flushed finds an active stream.  `StreamFits`, `CursorFits`, `DigestFits`:
  events are numbered in their order, and a cursor is not ahead of its stream.  A digest
  says "ok" only if it read as many events as there are numbers in its window; as
  different events have different numbers, none is missing (`NoneMissing`), so all
  that was due is told.
- `ActivityTyping` (`ActivityTypes`): what is queued, kept in memory or in the file, or
  read is of observations that were made, and events are numbered within their stream.
- `TasksTyping` (`TasksListed`): the list and the table of the retained tasks have the same
  members, each once, after every update and eviction.
- `ArtifactTyping` (`ArtifactTypes`): identifiers on the disk, in the index and in the
  operation under way are of artifacts that were made, with and without `LateFailure`.
- `ExternalTyping` (`ExternalTypes`): a runtime record replaces another once for each change
  of the settings (`RecordsCounted`), and the attempts of one are counted.

### AgentClientProofs

- `LinksLost` (`AdapterInv`): each call in flight waits for the socket it was sent on,
  and a write is sent again only if it never left.
- `BudgetHolds`, `AbortIsFinal`, `ClaimsAreBacked`: three invariants of the
  agent's loop.  The first counts the calls of the batch that are still to begin
  against the limit, the last orders the results of a batch.
- `PartsSurvive`, on every platform, and `UpdatesAreWhole`, under
  `Windows = FALSE` (the metadata is replaced in one step): the position in the
  exchange or the rollback determines which of the directories and copies are there.
- `RequestsAreSound` (`RequestInv`), for any history, number of exchanges and window:
  what is left of the built messages is `Sound`, i.e. its exchanges are whole, its
  results in the order of the exchanges, and questions and answers in that of
  the history (`Coherent`); it has nothing the built messages lack; and what must
  stay is in it.  A unit is an interval that holds an exchange or is apart from it
  (`ExchangeInUnit`), so `CutIsSound`.  `KeptIsPinned` is the delicate part: what
  is pinned is found by position in a list that shrinks (the last answer, the
  last question before it, the last result), and because of the order it is
  always the message that had to stay.

- `LoopTyping` (`RunInv`, the three invariants of the loop and the shape of a batch),
  `UpdateTyping`.
- `SendingsInMeasure` (`AdapterCounts`): the executions of a call in the daemon and its
  requests on the connections are together no more than the sendings the client has
  dispatched, each sending is on one connection, and a reconnection is counted.

### ExtensionProofs

- `RoutesStayLive` (`RoutesInv`): a refresh of the routes that was not overtaken found
  sessions that are still alive.
- `NothingStaysFrozen` (`PausesInv`): under `SharedTab = FALSE`, no JavaScript
  stands still in a target nobody would resume.
- `NoRequestIsForgotten` (`HeldInv`), for any number of tabs and jobs.
- `SessionStaysSound`, for any number of tabs, jobs and monitors: every step either
  keeps the flags of the consulted sessions in agreement with Chrome, or is one of the
  four missteps.  It rests on `ProxyTypes` and on `MonitorsPlaced`: the session of a
  monitor, and the one a monitor's job is about to attach or detach, is on the monitor's
  tab.  A step that attaches sets the flag of a session on that tab unless it is
  `FlagMisplaced`; one that lets go of a tab resets the only consulted session
  there is on it, unless there are two or Chrome tells nobody.
- `ReportsAreTrue` (`WorkflowInv`), under `BackwardPlans` (dependencies point to
  earlier actions): the extension's queue is in the order of the plan, effects
  happen in that order, and the call awaited is the last one sent.
- `TargetsTyping` (`TargetsTyped`), `WorkflowTyping` (`WorkflowTypes`, without
  `BackwardPlans`), and `ProxyTyping` (`ProxyTypes`), for any number of tabs: the session and
  the monitors name session objects that are on a tab, which holds because a job that
  is about to attach or switch names one too (`JobsKnown`).
- `ServicesAreTyped`, about `MCServices`: a step of the composition is a step of one service
  and leaves the variables of the others alone (`ServicesSteps`), so the conjunction of
  the inductive invariants of all eleven services (`ServicesInv`) is inductive, and
  each implies the types of its service.

### SequenceLemmas

What the other proofs need of sequences: the members of a sequence that is
appended to, joined, shortened or filtered.  Induction over the natural numbers is
proved in the form "a set that has 0, and with each number the next, has them
all" (`AllNumbers`), from the well-foundedness of `<`; with it follows what the
recursive functions in `Filtered` and `Flattened` compute (`FilteredIs`,
`FlattenedIs`), and that the messages of a
flush arrive one after another (`AllDelivered`, in DaemonServicesProofs).

### Only model-checked

The liveness properties (`EveryCallSettles`, `QueueDrains`, `ChangesReachDisk`,
`EveryRunSettles`, `InterceptionRestored`, `DecisionLands`) and the fairness of
`SerialSpec`: the prover does no fairness and no `ENABLED`.
