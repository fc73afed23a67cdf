# ClawMax: TLA+ models, model checks and proofs

ClawMax is a dashboard over a set of AI agents. One Node process
(`SYSTEM/dashboard/server`) keeps agents, workflows and conversations as files
of a workspace, runs agents by spawning CLI processes through the OpenClaw
gateway, and serves a browser client. The code is single-threaded, but it is
far from sequential: every `await`, timer, child process and HTTP request
interleaves with the others, and the state is spread over files that are read
and written one at a time, maps in memory that a restart forgets, and closures
that hold copies of what the files said.

This directory holds TLA+ modules that model the parts of that server where
order, crashes and concurrency decide what happens, TLC configurations that
check them on small instances, and theorems that TLAPS proves for every
instance. `PROJECT.json` maps every definition to the source lines it models,
and lists the runs, the mutants that show each property can fail, the hazards
of the code and the theorems.

| Module | Role |
|---|---|
| `WorkflowEngine` | `server/lib/workflows.ts`, its routes and the cron tick: claims, runs, steps, Stop, limits, DAG advance, reconciliation, crash |
| `MCWorkflowEngine` | dependency graphs, participants and limits for TLC |
| `WorkflowEngine_proofs` | seven theorems about the engine |
| `AgentLock` | abstract specification: a first-come-first-served lock per agent |
| `AgentTurns` | the promise chain that implements it, the turn registry, the four kinds of callers, cancellation, deletion of an agent |
| `MCAgentTurns` | one agent with a chat, a message and a step for TLC |
| `AgentTurns_proofs` | seven theorems about the turns, one of them the refinement of `AgentLock` |
| `AtomicApply` | abstract specification: a Template revision appears and disappears in one step, edits are kept |
| `TemplateApply` | the Template coordinator with the file journal, the Gateway journal, the revision ledger, executions, startup recovery and the recovery worker |
| `ActivityExport` | consent, registration, outbox, delivery, revocation and purge of shared activity |
| `BriefDelivery` | the e-mail delivery of workflow briefs by several Dashboard processes |
| `WorkspaceClear` | "Clear Personal": preview, Gateway clean-up, removal, retry, the gate and the fence |
| `MailAccounts` | authorizations and connections of mail accounts, and the grants of agents to use them |
| `TemplateApply_proofs`, `ActivityExport_proofs`, `BriefDelivery_proofs`, `WorkspaceClear_proofs`, `MailAccounts_proofs` | their theorems: every safety and action property of their runs, among them the refinement of `AtomicApply` |
| `MCTemplateApply`, `MCActivityExport`, `MCBriefDelivery`, `MCWorkspaceClear`, `MCMailAccounts` | their instances for TLC |

Run a check with `tlc -config <run>.cfg <module>` and a proof with
`tlapm <module>_proofs.tla`.

## 1. Inventory

Paths are relative to `SYSTEM/dashboard/server`.

| Component | State | Operations | Interacts with | What is hard |
|---|---|---|---|---|
| Workflow engine (`lib/workflows.ts`) | `WORKFLOWS/<id>.md` (status, runCount, enabled), `executions/<id>/*.json`, `activeWorkflowExecutions`, `cancelledExecutions`, `executionCancellers`, the pause ledger, `setTimeout`s | trigger, run of participants, cancel, complete and advance the DAG, reconcile on read, delete, restart | routes, scheduler, agent lock, budget, gateway | files written one by one; runner's in-memory copy against the file; status read-time reconciliation; crashes; Stop racing answers |
| Requests and cron (`routes/workflows.ts`, `lib/scheduler.ts`) | node-cron jobs, gateway registrations | HTTP handlers, ticks, sync after each edit | engine | edits of a workflow that runs; ticks while a run settles |
| Agent lock and registry (`lib/agent-execution.ts`, `lib/agent-turns.ts`, `lib/process-tree.ts`, `lib/agent-lifecycle-state.ts`) | `agentExecutionLocks`, `activeTurns`, `AbortController`s, agents being deleted | join the promise chain, register, release, abort, kill a process group, retry on a locked session | chats, channels, messages, steps, deletion | lost wakeups; cleanup of the map; abort before the process exists; retry of an aborted turn |
| Callers (`routes/chat.ts`, `routes/channels.ts`, `routes/agents.ts`, engine) | transcripts, sessions | chat, channel reply, direct message, step, stop one turn or all of an agent's, delete an agent | lock, registry, gateway | a turn admitted before, and run after, its agent was deleted |
| Template apply and recovery (`lib/workspace-file-transaction.ts`, `lib/template-gateway-transaction.ts`, `lib/template-apply-coordinator.ts`, `lib/template-revisions.ts`, `lib/template-execution-receipts.ts`, startup recovery, recovery worker, admission) | two journals, a revision ledger, Gateway receipts, execution receipts, the quarantine | apply, clean up, execute an Agent or a Group, recover, admit | gateway, engine (admission) | a crash between any two writes; a gateway answer that is lost |
| Activity export (`lib/activity-export*.ts`, `lib/agentforge-activity-export.ts`, `routes/activity-export.ts`) | receipts of consent, enrollment, fences, outbox, purge jobs, in one file | consent, enroll, register, capture, deliver, revoke, disconnect, purge | remote receivers, workspace settings | revocation while a registration or a batch waits for a receiver; receivers that change; duplicates |
| Brief delivery (`lib/brief-delivery.ts`, worker, `routes/dev-template-workflow.ts`) | receipts, `dispatch.lock`, run records | select, lock, claim, send, record | mail provider, runs | at most once under crashes, lost answers and a second process |
| Workspace clear (`lib/workspace-clear*.ts`) | the clear receipt, pending tokens, the count of requests | preview, confirm, clean the Gateway, remove, retry | every other request, Gateway, the child process that adds an agent | requests whose client left; handlers and children that go on with a path they took before; failure half-way; a retry with an old plan |
| Mail accounts (`lib/mail-oauth.ts`, `lib/mail-grants.ts`, `routes/mail-oauth.ts`) | an encrypted file of authorizations and connections, a file of grants | begin and complete an authorization, refresh, disconnect, grant, revoke | mail providers, agents | files read before a wait and written after it; two files that must agree |
| Gateway client and runtimes (`lib/gateway-rpc.ts`, `lib/agent-runtime.ts`, ...) | sockets, pending calls | RPC, spawn | everything that runs an agent | timeouts |
| Budgets, metering, notifications, messages | append-only files | add, aggregate | engine | little control |
| Agents, workspaces, templates, skills, teams on disk | files | parse, generate, edit | all | layout and parsing |
| Sign-in, secrets | sessions, tokens | request-local checks | routes | - |
| Plugins, models, AI builder | catalogues | calls to external programs | routes | - |
| Browser client, installers, containers | - | presentation, process start | HTTP API | - |

What makes each of the first components correct:

* **Engine.** No workflow has two runners. A stopped run never counts as a
  success and never starts its dependents. A record agrees with the steps it
  holds and an outcome once reached stays. A run limit limits automatic runs
  whatever operators do. A dependent starts only when its dependencies have
  settled. A stopped run gives its workflow back.
* **Lock and callers.** One turn of an agent at a time, first come first
  served, no lost wakeup, no entry left behind. A turn that is aborted ends. No
  chat runs on an agent that was removed.
* **Template apply.** Whoever is let into a workspace finds each revision whole
  or not at all, in the files, in the ledger and in the Gateway, whatever
  crashed or got lost; nobody's edits are overwritten; an operation always gives
  the workspace back.
* **Activity export.** What the user took back stays taken back. An event
  reaches its own receiver only, at least once. A purge that is reported
  complete is complete.
* **Brief delivery.** No brief is sent twice, and the receipts tell what was.
* **Workspace clear.** Only what was confirmed is removed, "complete" means that
  nothing is left, and an interrupted clear can be finished: the first two hold
  up to what is written behind the fence (section 7), the third does not.
* **Mail accounts.** What was connected stays connected and what was disconnected
  stays away; an authorization is used once; grants go with the account.

## 2. The workflow engine

### State and code

| Variable | Code |
|---|---|
| `exists`, `status`, `runCount`, `enabled` | the front matter of `WORKFLOWS/<id>.md` |
| `record`, `recordPart` | `executions/<workflow>/<execution>.json`: its status and its participants' |
| `active` | `activeWorkflowExecutions`, the claim that admission looks at |
| `stopped` | `cancelledExecutions` |
| `unreached` | running steps that have no entry in `executionCancellers` when Stop walks it |
| `timers` | pending five-second timers that write `enabled: false` after the last allowed run |
| `owner`, `phase`, `part`, `todo`, `caller` | the closure of a run: its workflow, how far it is, its own copy of the participants, the loop it is in, and the run whose DAG advance started it |
| `loop` | the run whose synchronous section holds the event loop |
| `paused` | `pipeline-state.json` |
| `acked`, `autoStarts`, `triggers`, `crashes` | history and bounds |

`triggerWorkflow` is a sequence of synchronous file writes. It is split into
`Begin` (admission, claim, first write), one `ResetDownstream` per dependent and
`StartRun` (record, start of every step) because a crash may fall between them;
`loop` keeps every other operation out meanwhile, as the event loop does. The
same is done with the DAG advance at the end of a run (`FinishCompleted`, then
`AdvanceStarts` / `AdvanceRefused` / `AdvanceSkips` per dependent, then
`AdvanceEnds`): an automatic start is a nested call, so its `caller` gets the
loop back. `Idle` also says that the continuation of `Promise.all` runs before
any other callback.

Reading is writing: `getWorkflow` and `listWorkflows` reconcile a workflow that
says "running" with its newest record and rewrite a record that nobody owns as
"interrupted". `View` is the status they report and `Read(ws)` the rewriting;
every action whose handler reads workflows contains it, and `ReadWorkflows`
is the plain read of a page or of a request that is refused.

The per-agent lock is seen from the engine as "a step settles some time";
`AgentTurns` models it. `unreached` is the bridge: a Stop leaves alone the steps
that have no canceller yet, and the theorems and checks of `AgentTurns` say what
becomes of those.

### Abstractions

* Execution ids are numbered in the order of `startedAt`, which is what
  `getLatestExecution` sorts by. The boot id of records is left out: after a
  restart `activeWorkflowExecutions` is empty, so every "running" record is
  foreign either way.
* The job table of node-cron is not modelled: any enabled workflow may tick at
  any time, which contains what the table allows.
* `checkBudgetBlock` is one Boolean per call.
* A crash may fall between the writes of a trigger, between those of a DAG
  advance, and between the two writes of a Stop, of the end of a run, of a step
  that throws and of a deletion (`CrashInStop`, `CrashInFinish`, `CrashInThrow`,
  `CrashInDelete`). The rest are one action each: a refused automatic start that
  first disables the dependent, a step that answers (its first write repeats the
  status a read reports, which `StepOutputs` does too), and the writes of
  `PUT /pipeline-state`.
* An error of the communication ledger after an answer turns a completed step
  into a failed one within the same synchronous section: it is `StepThrows`.

Not modelled: mock runs, `PUT` of fields other than `enabled`,
`POST /:id/complete`, archiving, the single-workflow scope, ids reserved by
templates (a static pattern), a throw inside `triggerWorkflow` after the claim,
inputs, outputs, briefs and notifications. A run without participants completes
at once; a cycle of such workflows never gives the event loop back and is not
in the instances.

### Properties

* `ClaimIsRunner` - a runner lives exactly as long as its claim.
* `StoppedNeverSucceeds` - after a Stop was answered with success its run is
  not recorded as completed or failed and does not advance the DAG.
* `RecordsTellTheSteps` - the status of a record agrees with its steps.
* `RunLimit` - scheduled and automatic starts never exceed `maxRuns`, although
  manual runs count too and the write that disables comes five seconds later.
* `OutcomeIsFinal` - completed, failed and interrupted records stay as they are.
* `DependenciesSettled` - when the engine starts a dependent nobody else runs
  one of its dependencies. That a dependent is marked as running although its start
  was refused is another matter (`RunningWorkflowHasRun`, section 9).
* `StopReleases` - a stopped run lets go of its workflow, once the steps that
  its Stop did not reach have settled.

### Runs

| Run | Instance | Shows |
|---|---|---|
| `engine_edits` | one workflow with two steps limited to one run; edit, delete and create, deletion of records, reported statuses, budget refusals, one crash | the safety properties under everything operators and agents may do to a workflow that runs, and the type invariant |
| `engine_join` | a -> c <- b, c limited to one run, three triggers, one crash, six executions | `DependenciesSettled` for a join under automatic starts and a crash between their writes: two upstreams that finish in either order, one of them run again |
| `engine_stop_live` | a -> b, a with two steps, pause, no limits and crashes, `FairSpec` | `StopReleases` |

The bounds are `MaxTriggers`, `MaxCrashes` and the set `Execs`. `Execs` is large
enough for every run the triggers can cause (a trigger of the chain or of the
join causes at most two), so no behaviour is cut off by it. Two triggers are
what it takes for a run to meet another run of the same or of an upstream
workflow; a third lets both upstreams of the join run and one of them again.
A crash forgets everything in memory and a second one finds nothing new but a
second reconciliation of the same files.

**Fairness.** `WF(Synchronous)`: code that has started to run on the event loop
goes on. `SF(StepStopped)` for the steps a Stop reached: its canceller sends
SIGTERM to the process group, SIGKILL after two seconds, and then rejects the
promise even if the streams stay open (`lib/process-tree.ts`), and the callback
gets its turn of the event loop, which other work may hold again and again,
hence strong fairness. Agents need not answer, operators need not act and the
process need not crash or restart.

## 3. Agent turns

### State and code

| Variable | Code |
|---|---|
| `tail` | `agentExecutionLocks`: the promise stored for an agent |
| `prev`, `released` | the promise a turn awaits; the turns that called `release()` |
| `registry`, `aborted` | `activeTurns` and its `AbortController`s |
| `stopping` | process groups being killed |
| `cancelled` | `cancelledExecutions` |
| `deletion`, `gone` | `markAgentDeletion`, and the agents whose files are gone |
| `pc` | `registered` (looks for the gateway), `queued` (awaits the promise), `preparing` (a step waits for the gateway), `configuring` (waits for the agent's configuration), `running` (its process is there), `waiting` (will retry a locked session), `done` |
| `ahead`, `reruns` | history; bound on retries and backup-model runs together |

Chats and channel replies register their turn and then join the line; a step
does both at once; a direct message joins first and registers inside the lock,
so between two attempts it is not in the registry and the next attempt has a new
controller. The checks differ too: a chat looks at the deletion of its agent
again when its turn comes, a step looks at the stops of its run before and after
it waits for the gateway, a channel reply and a message look at nothing.
`Idle` says that a continuation that is due runs before anything else.

The Claude and Droid runtimes go through the same lock and are not told apart
from OpenClaw. Retries of a chat after a gateway recovery are `SwitchModel`.

### Properties

* `ImplementsLock` - the chain of promises implements `AgentLock`: one turn of
  an agent at a time, in the order they asked, and (liveness) a turn whose
  predecessors have gone does not wait any longer. `waiting` and `holding` are
  functions of `pc`, `ahead` is the history variable both share.
* `NoStaleEntry` - an agent without turns has no entry in the lock map.
* `AbortedTurnEnds` - an aborted turn ends whatever its agent does, if the
  turns in line before it were aborted too. The condition is needed: a turn that
  waits behind one that runs waits for it. A direct message counts only when it
  cannot be retried any more, because the retry forgets the abort
  (`KeepsItsTurn`).
* `StoppedStepEnds` - a step ends after a Stop that found its process or found
  it before its last look at the stops. This is what justifies the engine's
  fairness and its `unreached`.
* `ChatsEndBeforeRemoval` - no chat holds an agent that was removed. It holds
  although the deletion polls a registry that queued chats and retried turns
  enter and leave, because a chat is either found or looks at the deletion.

### Runs

`turns_live` has a chat, a direct message and a step on one agent that may be
deleted, each rerun twice. A channel reply is a chat that does not look at the
deletion and has no backup model; it is left to the theorems of section 10, which
hold for any turns and any number of reruns. (The same configuration with a
fourth turn, a channel reply, and one rerun for the message and the step passes
too; it takes longer than a run should.) Turns of different agents share nothing
but the run they may belong to, so one agent suffices; with three turns each has
a predecessor and a successor of another kind in line. Each turn is one request
that runs once, so the system stops when all have ended: this run does not check
deadlock, and that no turn is left waiting is what `ImplementsLock` says.

**Fairness.** `WF` on the continuations (`Enter`), the waits that have a timeout
(`Configure`, `Spawn`), the retry timer (`Retry`) and the SIGKILL timer
(`Killed`). Answers, operators, deletions and failures are not fair.

## 4. Template apply

### State and code

| Variable | Code |
|---|---|
| `text` | the resource files; a file is the set of those who have text in it, so a shared index can hold sections of several revisions and an edit by the user |
| `status` | the revision ledger, always the last file of a transaction |
| `fileJournal` | `.clawmax/template-transaction.json`: what each file carried, "prepared" or "committed" |
| `gwJournal`, `receipts` | `.clawmax/template-gateway-transaction.json` and `.clawmax/template-gateway-revisions/*` |
| `runs`, `live` | the execution receipts; the model calls under way, which outlive the Dashboard |
| `gateway` | the Gateway's configuration: the entries of each plan ("changed" by somebody else included) and all the rest, which its hash covers too |
| `up`, `quarantined` | the process; `recoveringOrFailed` |
| `pc`, `op`, `after`, `failed`, `committed`, `seen`, `base`, `turn` | the coordinator's operation: where it is, which reconciliation it runs, the catch clause, and what it read before an await |

The coordinator admits one operation per workspace, so one program counter is
enough. A step is what happens from one await, or one durable write, to the
next. An operation begins with `reconcile` (`RecoverFiles` ... `Forget`) and an
apply or a cleanup ends with it, in the try block and again in the catch clause;
`ReconcileFails` says where a failure leads from each. `Removal` and `Patch` are
compare-and-swap on the configuration's hash.

The decision is made in one place: `RevisionCommitted`, the ledger. Before it
says "applied" a recovery takes the registrations back, afterwards it keeps them
and writes the receipt; for a cleanup the other way round.

### Abstractions

* `expectedRevision`, digests and authority are one nondeterministic refusal.
* Request that are refused as busy change nothing and are no actions.
* One Dashboard writes the workspace, as the comment at
  `lib/workspace-file-transaction.ts:70` says; the user's editor and other
  clients of the Gateway write too, but not between two writes of a synchronous
  section (`Synchronous`). A crash in such a section can be followed by edits.
* A write error inside `commitWorkspaceFiles` goes through the catch clause,
  whose recovery is the reconciliation that follows.
* A patch which the Gateway applies after its client gave it up is left out; its
  hash refuses it once anything else was patched.
* A reconciliation that fails after a runtime apply leaves the journal to the
  next admitted operation or the next start, as the code does.

### Properties

* `AdmittedIsSettled` - a handler that `assertWorkspaceRecovered` lets in finds
  every revision whole, in the ledger, the files and the receipts, or not at all,
  and no registration of a revision that is not applied.
* `CleanupWaitsForRuns` - under a live model call, even one whose Dashboard died,
  the claim is pending and the revision is applied.
* `AppliedStaysRegistered` - no step of the coordinator unregisters an applied
  revision.
* `RollBackKeepsEdits` - a roll-back replaces only what the transaction wrote.
* `ReadersSeeAtomicApply` - with the journal read as "not yet", files and ledger
  implement `AtomicApply`: a revision comes and goes in one step. The mapping
  reads a file of a prepared journal as its `before`.
* `LockIsFreed`, `QuarantineEnds` (liveness) - every operation ends; a
  quarantined workspace is served again unless the process dies or somebody else
  changed anything meanwhile. The exception is a little wider than the code's: a
  change of a file that the recovery does not compare would not stop it.

### Run

`template_apply`: two plans, each with its own file and a section in one shared
index, one execution key with two turns, two crashes (the second falls into the
recovery from the first), one failed call or write, one change from outside. Two
plans are needed for a roll-back of one beside the other's section. Requests may
stop coming, so the run does not check deadlock.

**Fairness.** `WF` of the reconciliation, of the operation and of the recovery
worker's timer: the program goes on and every RPC has a timeout. Requests,
faults, crashes, restarts and edits are not fair.

## 5. Activity export

### State and code

| Variable | Code |
|---|---|
| `consent`, `enrollment`, `purge`, `outbox`, `fence` | the state file of `lib/activity-export.ts`, read and written in one synchronous section |
| `binding`, `here`, `expired` | the AgentForge receiver in the workspace's settings, whether this workspace is the selected one, and receipts past their retention |
| `request` | requests that wait for AgentForge, with the fence, enrollment and receiver captured before |
| `flight` | the batch that the worker, or `POST /flush`, has under way |
| `worker` | `running` of `lib/activity-export-worker.ts`, its destinations, then its purge jobs |
| `held`, `registered` | what the receivers keep (external) |
| `stopped` | history: what the user took back and did not ask for again |

The state file is read again after every await; the model reads it in each
action. A delivery that was accepted may still fail for its sender, so it is
sent again (`Deliver`, then `DeliveryFails`). `POST /flush` runs beside the
worker. A crash can fall between the two writes of a disconnection.

### Abstractions

One user and one workspace, which may be deselected; any scopes; the limits of
100 events and 20 purges are not reached; attempts and error texts are left out.
A call that is given up after 15 seconds was handled before that or never is. A
registration that AgentForge accepted and whose answer was lost leaves a receipt
there of which this side has no record: `registered` has it, and no property asks for
its purge. A state file torn by a crash in the middle of one `writeFileSync` is
not modelled. `Wake` assumes that the worker was started, which happens when a
destination is configured or an AgentForge consent is saved.

### Properties

* `StopIsFinal` - after the user took a consent back, no receipt of that
  destination is in force, nothing is queued for it and no enrollment is active,
  until the user asks again, although registrations return later.
* `OwnReceiverOnly` - an event is kept only by the receiver of its receipt.
* `PurgedIsGone` - after "completed" AgentForge keeps no event of that receipt,
  not even one that was in flight: the worker awaits its deliveries first.
* `AtLeastOnce` - an event leaves the outbox only when its receiver has it or its
  receipt was revoked.
* `QueuedLeaves`, `PurgeEnds` (liveness) - queued events and purges do not stay
  while workspace, receiver and consent are in place.

### Run

`activity_export`: one direct destination and AgentForge with two possible
receivers, two receipts, two activities, one revocation, one change of the
settings, one failure, one waiting request. Two receipts let one be revoked, or
belong to another receiver, beside one in force. `OwnReceiverOnly` holds with one
direct destination; with two it does not (`found_flush`).

**Fairness.** `WF` of the timer, of the worker's steps and of each sender's
delivery (answered or given up after 15 s). The bound on faults makes a failure
finite: a receiver that never answers keeps its events, as it should.

## 6. Brief delivery

### State and code

`run` and `active` are the records and the memory of `routes/dev-template-workflow.ts`
(a run saves its record at each stage, over what another process may have made of
it); `quiet` says that a run ended a minute ago; `config` is
`SYSTEM/brief-delivery.json`; `receipt` are the files of
`SYSTEM/brief-deliveries`, "torn" when their creation was cut short; `lock` is
`dispatch.lock`; `job` is where a process is in `deliverAvailableBriefs`; `mailed`
is what the provider accepted. `Select` reads runs and receipts in one step, and
`StillHolds` reads the claims again under the lock, which is what makes a stale
selection harmless. The answer of the provider may be lost (`SendReturns`), and so
may the write of the outcome (`Record`).

### Properties and run

* `MailedOnce` - no two accepted mails have a run in common.
* `ReceiptsTellTheTruth` - an accepted mail has a readable receipt that names its
  runs; "sent" was accepted.
* `BriefIsClaimed` (liveness) - the brief of a completed run is claimed, unless
  delivery is off, the run is not covered, or a crash has left something that a
  person must look at (`NeedsReview`), which the code asks for too.

`brief_delivery`: two processes, three runs of two workflows, two configurations
(one covers one run only), two deliveries, one edit, one crash. Two processes are
not what the Dashboard is meant to be run as, but the exclusive creation of the
lock is there for them. Sizes (a body over 256 KB stops the delivery) are left out,
and so is a receipt whose creation is cut short by a failed write; the model tears it
only by a crash.
**Fairness.** The 15 s tick and the calls of a process, the end of a run's agent
turn and time; the provider and the user owe nothing.

## 7. Workspace clear

### State and code

`content` is the workspace's root (absent, the empty scaffold, or what was
written) and `dirs` the agents' directories in it, `receipt` is
`.clawmax-workspace-clear.json`, `registered` and `jobs` are what the Gateway
holds, `preview` the pending tokens, `pc`, `plan`, `agents`, `flows`, `current`
and `checked` the operation with what it read at its start and how far it is,
`locked` the agents whose deletion is begun, `admitted` the requests the gate
counts, `handlers` those that really run and `kept` those of them that keep the
workspace's path over an await. `child` tells whose child process adds an agent
and `adding` the agents it has not registered yet.

`Clear` is everything up to the first await. `RemoveJob` and `JobsRemoved` are the
first half of `prepareRuntime`; for each agent it then looks at the roster
(`Inspect`), removes the agent (`Deregister`), and in the end lists the jobs again
(`Prepared`). `Remove` and `Complete` are the rest, which does not give the event
loop back; `Fail` and `Crash` may cut it short at any file (`CutShort`).

**What goes on behind the fence.** The gate counts a request until its response
closes, and does not count GETs. So handlers may be under way when a clear begins,
and the fence is asked only by who calls `getWorkspacePath`:

* `Write` takes the path and writes before any await: it is refused.
* `KeepPath` and `LateWrite` are a handler that took the path before and writes
  after an await: `completeMailOAuth` (`mail-oauth.ts:328` to `354` and `371`, a GET
  of the provider's redirection), `refreshMailOAuth` (`429` to `447`),
  `disconnectMailOAuth` (`396` to `408`). Nothing refuses it.
* `Provision` is `POST /api/agents/provision`, which makes the agent's directory
  (`agents.ts:1238`) and starts `openclaw agents add` (`1390`); the child is left
  running when the client leaves (`1440`), and outlives the Dashboard. `ChildWrites`,
  `Register` and `ChildEnds` are its steps. One agent has one child at a time.

`late` is the history of what was written behind the fence of the unfinished
operation, `missed` of the agents that were registered when it was past them.

The identity of the root directory, the checks that only refuse (running
workflows, protected roots), the keeper registration and a second page of jobs
are refusals, which `Fail` covers once an operation has begun. The deletion of an
agent by a request is left out: it only takes away what a clear would.

### Properties and run

* `OnlyConfirmedIsRemoved` - what disappears was shown by a plan that was confirmed
  for this operation. The gate alone does not give this, since it stops counting a
  request when its client leaves; the fence does, for who asks it. For who
  does not, the content may be unseen, but the directory's name was confirmed.
* `CompleteIsClean` - when the receipt comes to say complete, the tree is the empty
  scaffold and the Gateway has no agent and no job of it left, also after
  attempts that removed the files which told about them. Excepted is what a child
  did behind the fence: its last writes in the agents' directory, an agent it
  registered when the operation was past it, and that agent's jobs.

Both exceptions are needed: without them they are `RemainsAreValidated` and
`SuccessMeansCleared`, which do not hold (section 9).

`workspace_clear`: three names, two of them of the scaffold, two agents with a job
each, one job named by a workflow, two tokens, which are symmetric, one request, two
writes by others, so that a late write may follow one that a plan shows, and a child
may write after its start; any number of requests one after the other, failures, crashes
and retries. One request is enough for the gate and the fence, for each refuses by
itself; `BeginRequest` lets it in counted, or uncounted as a GET. Nothing is fair
and the dashboard may stay idle, so neither liveness nor deadlock is checked. That
an interrupted clear can be finished does not hold (`found_clear`).

## 8. Mail accounts

### State and code

`store` is `mail-oauth.enc.json`: the authorizations that are `pending` and, for
each account, the authorization its connection came from. `grants` is the list in
`mail-capability-grants.json`. `pc`, `subject` and `held` are the requests that
wait for a provider; `held` is the file a refresh or a disconnection read before
its wait, which it writes back, while a completion reads it again. `Begin` and
`BeginComplete` are `beginMailOAuth` and the part of `completeMailOAuth` before
its wait, which takes the authorization out of the file whatever comes of it;
`EndComplete`, `EndRefresh` and `EndDisconnect` are what follows the answers,
`Fail` an error, and `CutDisconnect` a disconnection whose request does not get to
the grants. `getWorkspacePath` is asked for the grants only after the wait, so a
disconnection may reach the grants of another workspace (`CutDisconnect` in the
one, `StrayDisconnect` in the other). The end of a disconnection and the
revocation of the grants are one step, for no other request runs between them.

Tokens, scopes and capabilities are data; whether an access token is about to
expire, and so whether an agent's call refreshes it first, is `BeginRefresh` or
nothing. A file is written whole: a write torn by a crash is below the model.

`truth`, `exposed`, `exchanged`, `repeated`, `dropped` and `cut` are histories.
`truth` is what the file would be if every request changed only what it is about,
`exposed` what was changed while another request held the file.

### Properties and run

* `OnlyOverlapsAreUndone` - where the file differs from `truth`, the change was made
  while a refresh or a disconnection waited. Requests one after the other, and
  completions in any order, lose nothing.
* `ExchangedOnce` - the code of an authorization is exchanged once, with the same
  exception.
* `DisconnectRevokes` - after a disconnection that was answered with success no grant
  of its account is left, those made while it waited included.
* `GrantsFollowConnections` - an active grant has its connection, unless that was
  undone by an overlap or a disconnection was cut short.

`mail_accounts`: two accounts, two authorizations, two agents, two grants and two
requests that wait at a time: as many as it takes for one request to write back
what the other changed, in either file and for the same or another account. All
four sets are symmetric: no definition tells their members apart. Requests may
be repeated for ever, nothing is fair, and no liveness is claimed. That nothing is
undone (`NothingIsUndone`) does not hold.

## 9. Disagreements between code and text

Three are runs that TLC ends with a counterexample.

| Run | What happens |
|---|---|
| `found_diamond` | With a -> b -> c and a -> c, the end of a run of a computes "ready" once; starting b makes b run and resets c, and c is then started from the old list while b runs. So `DependenciesSettled` holds for joins of independent workflows (`engine_join`) and fails for a diamond. |
| `found_flush` | `POST /flush` names no destination: what was shared with digo goes to the endpoint of clawmax-ai and leaves the outbox as delivered. The worker names one and does it right. |
| `found_clear` | A clear is cut short after it made a directory of the empty scaffold that the plan did not name. The retry takes the old plan, finds a name it does not cover, and refuses with "Workspace changed", for ever. |

The texts they contradict are quoted in `PROJECT.json`. Eight more were found with
properties that stand at the end of their modules under "What does not hold"; to
see a counterexample, add the property to a configuration that the table names.

| Property | Add to | What happens |
|---|---|---|
| `StopIsRecorded` | `engine_edits` with `UserOps = {"edit"}` | A stopped run's record goes back to "running" when one of its steps settles before the last one, since the runner writes its own copy. |
| `RunningWorkflowHasRun` | `engine_stop_live` | The DAG advance marks a dependent as running although its start was refused (the pipeline is paused); there is no run to stop and every trigger is refused. |
| `RunningRecordHasRunner` | `engine_edits` | A failed step sets the workflow to blocked while a sibling runs; after a crash the record stays "running", since reconciliation looks only at workflows that say so. |
| `StopReachesStep` | `turns_live` | A Stop between a step's last look at `cancelledExecutions` and the spawn of its process reaches neither. |
| `RemovedWhenQuiet` | `turns_live` | A workflow step or a channel reply that starts while its agent is being deleted runs on an agent that is gone: only chats and messages look at the deletion. |
| `NothingIsUndone` | `mail_accounts` | A refresh of one account waits for its provider; meanwhile an authorization is begun or used, or another account is connected or disconnected. The refresh then writes back the file it read before. |
| `RemainsAreValidated` | `workspace_clear` | The redirection of a provider has taken the workspace's path and waits for the tokens when a clear begins. It writes (`mail-oauth.ts:371`) before the last check, which compares names only, and what it wrote is removed although no plan showed it. `workspace-clear.ts:134` says "Validate the remaining tree again immediately before irreversible cleanup." |
| `SuccessMeansCleared` | `workspace_clear` | An agent is being added when the client leaves. The clear begins, looks for the agent, finds no registration, and goes on; the child registers it after that (`agents.ts:1390`). The receipt says "complete" and the Gateway keeps an agent of the workspace. `PERSONAL_WORKSPACE_CLEAR_ACCEPTANCE.md:43`: never show "success when runtime registrations or scheduled tasks remain". |

## 10. Proofs

Every safety and action property that a passing run checks is also a theorem;
liveness is not (see the end of this section). The theorems are `Spec => ...` for every value of the constants; the
runs show the same properties on one instance, and the mutants that they can
fail.

**Assumptions.** Those declared in the modules, which TLC evaluates in every
run: execution ids are positive naturals; `DependsOn`, `Participants`, `MaxRuns`,
`AgentOf`, `Kind`, `RunOf`, `MaxReruns`, `Covers`, `PlanFiles` are functions of
the obvious types; files that two plans share are among the shared ones; the
environment's endpoint is that of a direct destination; bounds are naturals;
and `None`, `NoWorkflow` and `NoTurn` are none of the values they stand beside
(`NoneIsNew`, `NoneIsNothing`, `NoneIsNoRecord`, `NoneIsApart`,
`MarksAreNoReceipts`: an unset variable differs from every record it may hold,
as `null` does in the code). Nothing is assumed finite, the dependency graph may
have cycles. Two theorems have hypotheses of their own; both fail without them
and TLC shows how.

* `EventsReachTheirReceiver` assumes one direct destination (`Direct = {Home}`):
  with two, `POST /flush` mixes them (`found_flush`). `ForgeEventsStayApart` says what
  holds for any number: what is shared with AgentForge never goes elsewhere.
* `DependentsWait` assumes that no dependent of a workflow depends on another
  dependent of it (`NoDiamond`; otherwise `found_diamond`) and that nobody deletes
  single executions or reports a status (`OperatorsLeaveRecords`): deleting the
  newest execution makes the "completed" of an older one count, and a reported
  "completed" counts while the steps run. `engine_join` with
  `UserOps = {"purge"}` or `{"report"}` ends with either counterexample. Pausing,
  editing, deleting and creating workflows, Stop and crashes are covered.

### The engine and the turns

**`WorkflowEngine_proofs`**

* `TypeCorrect`: `[]TypeOK`.
* `ClaimsAndRunnersAgree`: `[]ClaimIsRunner`. Not inductive alone: a start gives
  a fresh id to a workflow without a claim, so one needs that ids from `nextExec`
  on are unused (`Fresh`), that a claim belongs to a run of that workflow
  (`ClaimOwned`, `OwnedRuns`) and that a nested start returns to a run that is in
  its advance (`CallStack`). The conjunction is `RunInv`.
* `StopWins`: `[]StoppedNeverSucceeds`. `OutcomeInv` adds that an acknowledged
  run which still lives has its stop flag and is in its steps (`StopHolds`), has
  an owner (`StopOwned`), and that a record has no outcome but "cancelled" before
  its runner has left the steps (`OutcomeOpen`).
* `OutcomesAreFinal`: `OutcomeIsFinal`, from the same invariant.
* `RunLimitHolds`: `[]RunLimit`; automatic starts never exceed `runCount`
  (`Counted`), and a start tests `runCount` before it grows.
* `RecordsAgree`: `[]RecordsTellTheSteps`. The runner writes the outcome of the
  steps in its memory, not of those in the record, so the invariant must be about
  both: only a Stop cuts a step short in memory (`StepsUncut`).
* `DependentsWait`: `DependenciesSettled`. Readiness is decided by what the
  dependencies' files say, so the invariant relates files and runs: the run that
  lives is the newest of its workflow (`LiveIsNewest`), its record goes only
  together with all older ones (`RecordIsKept`), its workflow is not marked
  completed (`NotYetDone`), hence it never looks completed
  (`RunningLooksRunning`); and what is still to be started waits for nobody
  else (`StillReady`).

The proofs about outcomes do not look at each action for each property. Three
*arcs* summarise what a step may do to one run: `RecordArc` (to its record),
`PhaseArc` (to its runner) and `StopArc` (to its stop). Lemmas prove action by
action that every step follows the arcs; the invariants are then proved from
the arcs.

**`AgentTurns_proofs`**

* `TypeCorrect`: `[]TypeOK`.
* `ChainCorrect`: `[]LockInv`. The map and the `prev` pointers form a chain:
  nobody is before a turn whose promise was resolved, and before any other are
  the turn it awaits and those before that one (`Chain`); the stored promise is
  the end of the line (`EndOfChain`); of two turns in line one came before the
  other (`InOrder`); who has released is done (`ReleasedAreDone`), a holder's
  promise was resolved (`HoldersAreServed`), and nobody is before a turn without
  having asked (`AskedOnce`).
* `NoEntryLeft`: `[]NoStaleEntry`, from `EndOfChain`. `OneTurnAtATime`: two turns
  never hold the same agent.
* `WakeupsAreKept`: `[]NoLostWakeup`, the safety half of the claim that the line
  moves: while turns are in line for an agent, one of them holds it or awaits a
  promise that is resolved (the run has it with its liveness, in `ImplementsLock`). That a chain has a first turn would take an induction along it; instead
  each turn in line is the stored one or is awaited by another (`Relayed`), so the
  one that leaves hands over.
* `TurnsRunInOrder`: `Spec => Lock!Spec`, the refinement. Every step joins a
  line, leaves it, moves within it or leaves it alone (`Joins`, `Leaves`,
  `Moves`); under `LockInv` these are `Ask`, `Leave` or `Pass`, `Enter`, or a stutter.
* `NoChatOnRemovedAgent`: `[]ChatsEndBeforeRemoval`. `ChatInv` says that a chat
  is in the registry from its arrival to its end (`ChatsAreRegistered`), and that
  the registry holds no chat of an agent that is being removed or is gone
  (`RemovedIsQuiet`).

### Templates

**`TemplateApply_proofs`** has four invariants, each of which rests on the
one before it, and the theorems they give:

* `TypeInv` -> `TypeCorrect`: types, and what each place of the coordinator
  implies for its operation (`OpInPlace`), for the file journal (`FilesInPlace`) and
  for the Gateway's (`GatewayInPlace`: both journals are of the same plan).
* `JournalInv` -> `ReadersSeeRevisionsWhole` and `EditsAreKept`. While a journal is
  prepared, the ledger holds what the journal has as before or what the operation
  writes, a roll-back finds only these two in each file, and when the journal is
  marked committed all files are written (`JournalIsTrue`); an apply past its plan
  is the first of its revision (`NotYetApplied`). `WhoWrites` names the steps that
  touch files, ledger or journal; for each, the reading either does not change or
  changes as `Apply`, `Cleanup` or `Edit` of `AtomicApply`: only `Mark` takes effect.
* `SafeInv` -> `AdmittedFindsRevisionsWhole` and `RegistrationsOfAppliedStay`. Every
  revision is read whole or not at all (`Whole`), a recovery decides as the ledger
  says and finishes what it decided (`RecoveryIsRight`), and but for the plan in the
  Gateway's journal the receipts and registrations agree with the ledger
  (`GatewayAgrees`).
* `RunInv` -> `CleanupWaits`. Before a model is called the claim is written and the
  revision applied, and no journal is open for a plan with a live call
  (`RunsAreClaimed`).

### Activity export

**`ActivityExport_proofs`**

* `TypeInv` -> `TypeCorrect`; it adds that the outbox holds events of active
  receipts only.
* `StopInv` -> `TakenBackForGood`. A receipt is given once (`IssuedOnce`), and a
  request that captured the current fence asked after the last revocation of what
  it asks for (`RequestsAreFenced`); so no registration that returns late revives
  what was taken back.
* `DeliveryInv` -> `PurgesAreComplete`, `EventsReachTheirReceiver`,
  `ForgeEventsStayApart` and `NothingIsDropped`. A batch under way carries events for
  its receiver only, and those it will drop from the outbox were received
  (`BatchesAreSent`); what a receiver keeps was sent to it under its receipt
  (`HeldWasSent`); purges follow revocations (`PurgesFollow`); and no batch
  carries an event of a receipt whose purge is done (`NothingArrives`), because the
  worker purges only when its own batch is back (`WorkerInOrder`) and the route
  never carries AgentForge's events.

### Briefs, the clear, mail accounts

**`BriefDelivery_proofs`**: `TypeCorrect`, `OneDispatcher`, `ReceiptsAreTrue` and
`BriefsAreMailedOnce` from `BriefInv`. Who is between lock and close owns the lock
(`DispatcherHoldsLock`), so the claims it read under it still hold when it writes
its own; then no two receipts share a run (`ClaimedOnce`), the receipt of a
delivery under way is its claim (`ClaimsAreWritten`), and "sent" is believed of
accepted mails only (`AnswersAreTrue`). A crash leaves the lock file, hence
the claims of the others wait for a person rather than the other way round.

**`WorkspaceClear_proofs`**: `TypeCorrect`, `RemovedWasConfirmed` and
`CompleteLeavesNothing` from `ClearInv`. While an operation runs the receipt is
the fence (`FenceIsUp`); whatever the tree of an unfinished operation holds beyond
the scaffold was confirmed or is late (`LeftIsConfirmed`), and after the removal
only a child has written (`ScaffoldIsLeft`); the agents of the operation keep their
directories until the removal (`AgentsAreOnDisk`); every registered agent is one
that it still has to go through or that it missed (`RosterIsKnown`); and a job is
for an agent that is registered or that the next attempt, or this one, will look
for (`JobsAreFindable`).

**`MailAccounts_proofs`**: `TypeCorrect`, `OnlyOverlapsUndo`,
`CodesAreExchangedOnce`, `AnsweredDisconnectRevokes` and `GrantsAreConnected` from
`MailInv`. The file, and every copy that a request will write back, differs from
`truth` only in what was exposed (`WrongIsExposed`); a code that was exchanged no
longer waits in `truth` (`ExchangedIsOver`); grants follow the connections of
`truth` up to what is exposed or cut short (`GrantsFollowTruth`).

### Only model-checked

* Liveness, which is out of the prover's reach (it needs `ENABLED`): `StopReleases`,
  `AbortedTurnEnds`, `StoppedStepEnds`, the fairness part of `ImplementsLock`
  (`FairSpec`), `LockIsFreed`, `QuarantineEnds`, `QueuedLeaves`, `PurgeEnds` and
  `BriefIsClaimed`.
* The counterexamples of section 9.

The strengthened invariants were checked by TLC on the instances of the runs
before they were proved.

## 11. Plan

Done: the modules of the table, their checks, and theorems for all their safety
and action properties. What is left, in this order:

1. A composition of `WorkflowEngine` with `AgentTurns` that replaces `unreached`
   by the places of the turns, if its state space allows it; its safety part is
   then provable from `StopHolds` and `LockInv`.
2. More of the engine: `POST /:id/complete`, archives, edits of `maxRuns`; `RunLimit`
   then has to be about the limit that was in force at each start.
3. `DependentsWait` for graphs with diamonds, restricted to the starts whose
   dependencies were not reset by the same advance.

## 12. Not modelled

The gateway client, budgets and metering, files of agents, teams, skills and
templates, sign-in and secrets, plugins and model catalogues, the browser client
and installers are data transformation, presentation or calls to external
programs, with little order of their own; the keeper registration of a clear and the
command-line receipts of Templates add a call and a record that nothing else reads; `PROJECT.json` lists each with its
sources. Their effects on the modelled parts are nondeterministic choices: an
agent answers or fails at any time, a budget refuses or not.
