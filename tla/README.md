# Verification of helmsmith

This directory holds TLA+ models of helmsmith's harness, of the job engine of its
control plane and of two of its tools with state that several processes share
(workbrokr, storybrokr), the TLC runs that check them and the theorems TLAPS
proves about them. Unless they say otherwise TypeScript paths below are relative
to `platform/harness/`; Java files are those of `platform/controlplane/service`.

## The system

helmsmith runs *jobs*: flows of AI agents over a workspace. The parts with state
and behaviour of their own:

| Part | State | Operations | Talks to |
|---|---|---|---|
| Dispatcher, `harness-server/src/dispatcher.ts` | `inFlight`, `queue` | `evaluateSubmission`, `fireImmediate`, `enqueue`, `onJobTerminal` | called by the submit handlers and by the status hooks |
| Job lifecycle, `harness-server/src/index.ts` | `jobs`, `graphs`, pending requests, claims, timers | submit, spawn, resume, events, timers, cancel, hooks | dispatcher, orchestrator, paused-job files, control plane |
| Orchestrator, `harness-core/src/orchestrator.ts` | `JobRecord.status`, the compiled graph | `runJob`, `resumeJob`, `cancelJob`, agent executors | LangGraph, adapters, the hooks of its caller |
| Flow specification, `flow-spec/src/validate.ts` | none | `validateFlow` and its join-hazard analysis | decides which flows the catalog may hold |
| Flow graph, `harness-core/src/flow-graph.ts` | graph state, attempts, completions | `compileFlow`: the interrupt rewrite, node wrappers (policy, joins, effects), routers | LangGraph, which runs it in supersteps; the executors |
| Paused-job files, `harness-server/src/paused-jobs.ts` | one JSON file per paused job | save, claim update, delete, load at boot | file system |
| Token accumulator and job bus, `harness-core/src` | subscriptions | attach, detach, publish | hooks |
| Catalog, layout and cron routes, `index.ts`, `cron.ts` | live catalog, its file, cron timers | PUT, fire, re-arm | dispatcher through `spawnFlowJob` |
| Container job path, `spawn-worker.ts`, `run-job-in-container.ts` | worker containers and worktrees | spawn, stream, teardown | Docker |
| Control plane job engine, `job/engine/JobEngine.java`, `job/service/JobService.java`, `job/persistence` | rows of `jobs` and `job_steps` | submit, start, walk, deliver an event, approve, cancel, harness reports | database, harnesses, listeners of its events |
| Intake sessions, `intent/service/IntentService.java` | rows of `intent_sessions` | start, message, confirm, abort, intent-ready | the job engine, in both directions |
| workbrokr's registry, `apps/workbrokr/src/core/registry.ts` | one JSON file and a lock directory | `Registry.update` | every `work` command, hook and MCP server of a machine |
| workbrokr's efforts, `apps/workbrokr/src/lib/effort.ts` | efforts and leases in the registry, the stacks that run | start, promote, reset, status, finish, retire, reap | the registry, git, spawned services |
| storybrokr's daemon, `apps/storybrokr/src/server/broker.ts` | instances in memory and in `state.json`, process handles, per-id locks | `up`, `down`, `reapIdle`, `reconcile`, readiness watchers | spawned Storybook processes |
| Edge context, edge memory, skillzkit, the other `apps/` | their own stores | | outside the core of this project |

What is hard in them:

* One JavaScript thread, many callbacks: HTTP requests, SLA and wake timers,
  adapter completions, and microtasks in between. `executeResume` clears a pause
  in one callback and `resumeJob` runs in a later microtask.
* A job's status is written by several actors that do not look at each other:
  agent executors (parallel branches, retries, executors that lost against their
  deadline), `finalizeOrPause`, and the resume path.
* Hooks differ between `runJob` and `resumeJob`, and a compiled graph keeps the
  hooks of the call that compiled it, also after a resume.
* Slots: given back by hooks on a terminal report, which is not always the end of
  the graph.
* Files: fire-and-forget operations, unordered, beside a process that may crash.
* The control plane walks a job inside the HTTP request that started or resumed
  it, outside any transaction and from a job it read once; nothing keeps two
  requests from walking one job, or tells a walk that the job was cancelled.
* A message to a session runs the session's job to its next pause or end before
  it updates the session, while the job's end updates the session too.
* A flow graph is any graph the validator lets through: several branches at once,
  reject cycles through nodes that have run before, barriers that count arrivals,
  a rewrite that moves the edges of nodes that may interrupt.
* A workbrokr command is a process of its own. Between two transactions of the
  registry it probes ports, spawns services and runs git, while others finish,
  promote or reap the same effort; it may be killed anywhere. The lock that makes
  a transaction one step is a directory that anybody may take for stale.
* storybrokr's daemon awaits under per-id locks (ports, exits, other instances'
  locks), while the watchers of its processes take no lock and act on an id, whose
  instance may be another by then; the processes outlive the daemon.

What makes each part correct, in short:

* Dispatcher: no more slots than `capacity`, first come first served, no slot
  lost, none idle while a submission waits.
* Job lifecycle: a job is resumed only from its pause and only once; a pause has
  its request and its timer and leaves none behind; an end is an end.
* Paused-job files: a boot brings back exactly the jobs that were paused, with
  the request and the claim they had.
* Job engine: a running job is walked or paused, an end is final and announced
  only after it, and `job_steps` tells what happened.
* Intake sessions: one work job per submitted session; an intent only from a
  finished job; no ended session is reopened.
* Flow graph: a join fires once, and only when enough of its sources have run; no
  effect is repeated; what the flow handles does not fail it; a run ends.
* workbrokr: updates of the registry are atomic; no two open efforts share a
  target or a scope; what runs is leased, one stack to a slot; nothing is held for
  ever by what has ended.
* storybrokr: no process is lost, no more instances than `instanceCap`, every
  request returns.
* Catalog, cron, containers (not modelled yet): catalog file and live catalog
  agree; each minute fires once; no worktree outlives its worker.

Those of the modelled parts are properties below; `PROJECT.json` lists
every hazard with the line where it bites.

## Modules

| Module | What it is |
|---|---|
| `FifoPool` | abstract: a pool of slots behind a bounded FIFO line |
| `Dispatcher` | `dispatcher.ts` in detail; implements `FifoPool` |
| `QueueLemmas` | what append and tail do to the elements of a queue, proved |
| `DispatcherProofs` | invariants and refinement of `Dispatcher`, proved |
| `JobLifecycle` | the life of a job in one server process; uses the operations of `Dispatcher` and implements it |
| `JobLifecycleProofs` | invariants of `JobLifecycle`, its refinement of `Dispatcher`, and invariants of `PauseRecovery`, proved |
| `PauseRecovery` | extends `JobLifecycle` by the paused-job files, claims, crashes and boots |
| `JobEngine` | one job in the control plane: its rows and the requests that walk it |
| `IntakeSession` | extends `JobEngine` by the session whose intake job it is |
| `ControlPlaneProofs` | invariants of `JobEngine`, and of `IntakeSession` on top of it, proved |
| `FlowSpec` | the rules of the validator that decide which flows are admitted |
| `FlowGraph` | extends `FlowSpec` by the run of one admitted flow, in supersteps |
| `FlowGraphProofs` | invariants of `FlowGraph`, proved for every flow |
| `WorkRegistry` | workbrokr's registry file and its lock directory, system call by system call |
| `WorkRegistryProofs` | mutual exclusion and atomicity of `WorkRegistry`, proved |
| `Efforts` | workbrokr's commands over one project; a transaction of the registry is one step |
| `EffortsProofs` | invariants of `Efforts`, proved |
| `StoryBroker` | storybrokr's daemon, its processes, their watchers, its restarts |
| `StoryBrokerProofs` | invariants of `StoryBroker`, proved |
| `MCDispatcher`, `MCJobLifecycle`, `MCPauseRecovery`, `MCJobEngine`, `MCIntakeSession`, `MCFlowGraph`, `MCWorkRegistry`, `MCEfforts`, `MCStoryBroker` | instances for TLC |

### Dispatcher

`inFlight` and `queue` are the fields of `ServerCtx`; `micro` holds the closures
given to `queueMicrotask`, `live` the jobs whose closure ran and that have not
reported an end. A submission is one step because the handler does not await
between its capacity check and the routing. `RunMicrotask` runs the oldest
closure, `Terminate` is `onJobTerminal` called by a hook.

The abstraction of `FifoPool` takes closures and queue for its line
(`waiting <- micro \o queue`) and `live` for its running jobs: a job that has a
slot but whose closure has not run is still waiting.

### JobLifecycle

One variable per map or field of the code: `status` (`JobRecord.status`),
`graphs` (`ctx.graphs`, remembering whose hooks the graph captured), the pending
requests and timers, `tokens`, and `invocation`: which of `runJob` and
`resumeJob` awaits `graph.invoke`. Inside an invocation the graph is open: agents
fail, time out and see a cancellation in any order and any number of times, and
the invocation ends by a result, an error or an interrupt (`GraphCompletes`,
`GraphFails`, `GraphPauses`). This stands for every flow, policy and adapter; it
allows more than any one flow does, so what holds here holds for all of them.

`Report` is `onStatusChange(job, null, s)` with its whole effect, for the two
sets of hooks. `Drained` says that HTTP requests, timers and late completions run
with an empty microtask queue. LangGraph is external: a cancellation flag written
while the graph runs may or may not reach it (`"asked"`), one written while it is
paused does (`"seen"`).

### PauseRecovery

Each file operation is the sequence of its system calls; `ops[j]` holds those
under way, and any may complete next. The record takes the status of the moment
after `mkdir` and the request of the moment of the pause, as in
`savePausedJob`. `Restart` drops what is in memory and under way, may tear a file
that is being written, and boots as `startHarnessServer` does. The history
variable `overtaken` collects the jobs that took a step while one of their file
operations was under way; it separates what holds under any timing from what
holds when files are faster than people and agents.

### JobEngine

`status` and `node` are the columns `jobs.status` and `jobs.current_node_id`,
`steps` the `job_steps` rows of attempt 1. Each walk is the thread of a request:
`at` is its `currentNodeId` and `pc` its place between two DAO calls, each of
which commits by itself; `pc = "idle"` is a request that has not come or has
answered. `Start`, `DeliverEvent` and `SubmitApproval` are the read with its
checks; what follows acts on that snapshot. Each UPDATE keeps its WHERE: a
conditional update that matches no row leaves the row and lets the walk go on, as
the code does, which looks at none of the counts.

Handlers are reduced to their verdicts (advance along an edge, end, fail, pause),
so the model covers every step kind. A compound step runs its bodies inside its
handler, where a pause is undefined by the code's own comment, and is one step.
A walk may die at any label: an exception that is not a handler's, or the end of
the service. `forwarded` jobs were given to a harness, whose reports may bring
any status in any order. The history variables `died` and `overlapped` tell the
jobs that lost a walk, and those walked by two requests at once, from the others.

### IntakeSession

The intake job is the job of `JobEngine`, each of whose steps is a step here.
`Message` begins a walk that owes the session an update (`relays`); `Relay` is
that update, after the walk has answered. `PublishIntent` is the last step of the
walk together with the synchronous `JobIntentListener`. `confirm` is one
transaction, whose effects on the session and on the work jobs appear at its
commit; the check at its beginning and the condition of its update are two
steps. `pipeline-creation-required` has no producer in the code yet and
`expired` no writer at all; the model leaves them out, with what only follows
them.

### FlowSpec and FlowGraph

A flow is a record of what routing and the validator look at. `Admitted` is the
conjunction of the validator's rules on triggers, exceptional edges, cycles and
joins; `MustReach` and `Below` are its searches. `FlowGraph` begins with any
admitted flow out of `Flows`, so a property of it says what the validator's rules
promise to a run.

`Rewritten` is the interrupt rewrite of `compileFlow`. A node is reduced to the
exit with which it leaves its wrappers: `Skips` is `withJoinGuard`, `Recorded`
`withEffectGuard`, `BodyExits` what policy lets out. `Counted`, `Throws` and
`Routes` are `buildRouter`. `Superstep` runs the whole frontier on one snapshot
and merges (`Commit`); a frontier with interrupt nodes pauses, and `Answer`
resumes some of them, the library decides which. Expressions are a choice of the
model, so a conditional edge may be taken or not; `__completions`, a counter, is
kept as the set of nodes for which it is positive.

`JobLifecycle` treats a run as an open graph that may fail, pause or complete at
any moment; `FlowGraph` looks inside the graph and leaves the job out.

### WorkRegistry

The lock is who made the directory and whether it is older than `LOCK_STALE_MS`;
the registry is the number of updates each process has made to it, so a lost
update is one that is not counted. Each system call is a step; `Claim` is the
rename and removal of the lock that is there by then. Any process may die
anywhere. `Disturbed` collects the two ways in which a living holder loses its
lock: it is slower than the limit, or a second waiter that saw the stale lock
renames the fresh one of the first. The properties speak of undisturbed histories.

### Efforts

One process per command; `pc` is its place between two transactions. `Reserve` is
the first transaction of start, with the guards on targets and scopes; `Claim`,
`Probe`, `Spawn`, `Record` and `Activate` follow, and promotion and reset join
them in the middle. `todo` holds the leases as a command read them: their pids are
stopped, and the lease goes by its slot and claimant, whatever it is by then.
`Reap` takes a snapshot of what is doomed and works it off; `Pass` is the passing
of `STARTING_GRACE_MS` and of a lease's hours. `Die` kills a command; after a
spawn and before its record this leaves a stack that no lease names (`"lost"`).
`crossed` collects the builders whose effort another command built up or tore
down at the same time. Slots are the numbers of `manifest.slots` plus one, since the
model uses 0 for a command that has none.

### StoryBroker

`reg` is the registry, `procs` the handles, `alive` the processes, `watching`
the promises that wait for readiness. Locks are queues of requests per id. What a
request does between two awaits is a step, so the reads before an await (`taken`,
the record of a `down`, the list of idle instances) are snapshots. `Bind` and
`Exit` are the processes' own; a watcher's steps take no lock, as in the code, and
`mistaken` remembers that one decided about an incarnation that was not its own,
or on the answer of another process: an adopted instance is asked through its port
(423, 458), and a killed process that has not let go of it answers for the one
that boots. `Restart` loses memory and handles, keeps processes, and reconciles
before it serves.

## Runs

| Run | Instance | Shows |
|---|---|---|
| `dispatcher` | 5 jobs, 2 slots | `WorkConserving`, refinement of `FifoPool`, no starvation |
| `lifecycle_safety` | 3 jobs, 1 slot, 1 pause each | `ResumesMeetPausedJobs`, `NoStaleRequests`, `NoSlotLeaks`, `CleanRunsHoldSlots`, `TokensDetach` |
| `lifecycle_liveness` | 2 jobs, 1 slot, 2 pauses each | refinement of `Dispatcher`, `FinishedStaysFinished`, `ApprovalsEnd`, `QueueStallsOnlyOnEvents` |
| `recovery` | 1 job, 2 pauses, 2 reviewers, 3 operations under way, 1 crash | wakes and claims stay sound under any timing; records, claims and pauses survive a crash when no step overtakes a file operation; finished jobs stay finished; jobs that come back leave the slots as `Dispatcher` has them (`DispatcherStartsAnew`) |
| `job_engine` | 2 walks, 3 nodes, 2 of which pause, cycles through both | however starts, resumes, cancellations and reports overlap: `IdleRunsArePaused`, `TerminalIsFinal`, `IntentsFollowTheEnd`, `StartsSettle`; with requests one at a time `AuditTrailSettles` |
| `intake` | 2 walks, 2 confirms, 2 nodes, one of which pauses | `OneWorkJob`, `EndedSessionsStayEnded` under every race of messages, confirms and an abort |
| `flow_graph` | 3,260 admitted flows over 5 nodes | `JoinsFireOnce`, `JoinsAreReached`, `EffectsHappenOnce`, `HandledErrorsFailNothing`, `RunsEnd` |
| `work_registry` | 3 processes, 4 updates | `HoldersAreAlone`, `OneUpdateAtATime`, `UpdatesEnd`, whoever dies between which system calls |
| `efforts` | 3 commands and a reaper, an area and a task of it, 1 slot; one command may be killed, one be slow | `OpenEffortsAreApart`, `StacksAreLeased`, `NothingIsHeldForEver` |
| `story_broker` | 2 ids, 2 ports, a cap of 1, 3 requests, 1 death of the daemon | `ProcessesAreKnown`, `CapIsKept`, `RequestsReturn` |

and two runs that find a comment of the code violated:

| Run | Comment | What happens |
|---|---|---|
| `cancelled_pause_never_ends` | `JobStatus.java:12` cancelling becomes cancelled | nothing writes `cancelled` for a running job: one that is paused when it is cancelled has no walk and no request is accepted that would start one |
| `intent_overwritten` | `IntentService.java:40-44` the intent takes the session to intent-ready | the message that completes the intake job then moves its session to processing |

Other places where code and comments part, or where an exception is built into a
property, as met while modelling:

* `dispatcher.ts:7-8` (at most `capacity` concurrent `runJob`s): an agent's
  failure gives the slot back while a retry, an error edge or `onError` keeps the
  graph running. For the same reason such a job ends `failed` although its graph
  succeeds (`flow-spec/SPEC.md:93`). `CleanRunsHoldSlots` speaks of jobs without
  such a failure.
* `dispatcher.ts:20-22` and `index.ts:1710` (a paused job occupies a slot until it
  ends): a job that a restart brings back has none (`index.ts:410`, 431-446), and
  when it is resumed it runs beside `capacity` others. `DispatcherStartsAnew` says
  that it does no other harm.
* `flow-graph.ts:735-738` (a late result is discarded): an executor that lost
  against its deadline may still fail its job, also after the job completed.
  `FinishedStaysFinished` allows for it.
* `paused-jobs.ts:6-8` (written on a pause, deleted on a resume or end): an
  earlier `rm` may complete after the pause's `writeFile`; `overtaken` marks it.
* `validate.ts:318-330` asks that enough sources of a join always run. A source
  that always runs but leaves by another edge counts without triggering the join;
  if it is the last, the join stays closed. `JoinsAreReached` speaks of joins that
  their sources always trigger.
* The interrupt rewrite moves the error edges of an approval- or suspend-tagged
  node to its interrupt node, where no error arrives (`HandledErrorsFailNothing`
  exempts these nodes), and an approval counts what it lets pass as attempts.
* A success made by `onError: 'continue'` is never counted: neither as an arrival
  at a join nor as having reached a failure endpoint.
* Where a reject edge escalates to is outside the DAG check, so a flow may cycle
  through it without end; `RunsEnd` speaks of flows whose escalations lead onwards.
* `orchestrator.ts:889`: of two approvals that interrupt in one superstep the
  pause records the first only.
* `apps/workbrokr/src/core/registry.ts:91-92` ("two waiters cannot both win the
  rename, so neither deletes a fresh lock the other just took"): they can, when
  the second renames after the first has made its own lock.
* `apps/workbrokr/src/lib/effort.ts`: a start that is finished or reaped while it
  goes on activates its effort again (691); the pids of a spawn are recorded after
  it (655), so a kill in between leaves a stack that only its busy ports show; a
  reset or a promotion that finds a lease does not probe its ports.
* `apps/storybrokr/src/server/broker.ts`: the watchers and the exit handler of an
  incarnation act on the id (265-306), so they may fail the next incarnation; who
  answers on a port is taken for the instance of the record (423, 458), so a daemon
  that restarts may call a booting instance ready because of its dying predecessor,
  and the next restart, not answered, drops the record of a running process; a
  dead instance is looked up again by its id only (394); an adoption may exceed
  the cap. The model has all of this; `mistaken` and a restart are the exceptions
  of the properties.

Bounds. `Dispatcher` has two slots and a queue of two with one job more than it
accepts, so every branch and the full queue occur; nothing in the code compares
jobs. `JobLifecycle` needs a job in the slot, one in the queue and one refused:
three jobs for one slot. `MaxPauses` bounds only the number of pauses (two
suffice for a pause after a resume); the code ends reject cycles by attempt
limits. One timed-out executor per job at a time; it may be followed by others.
`PauseRecovery` has one job since the files of different jobs are independent,
two reviewers to compete for a claim, and three operations under way: a save, a
delete and a claim update at once. Slots after a crash are looked at for one job
there, and proved for any number of jobs, slots and crashes. `JobEngine` reads and
writes one job's rows, and two walks are the least that can be out of step; its flow pauses at both
kinds of node, goes back through each, works on a node that does not pause and
runs off the graph. `IntakeSession` needs a second confirm for the race of
confirms and one pausing node for a chat; its walks and confirms are symmetric,
and the run checks safety only. `MCFlowGraph` joins five nodes by every choice of
forward edges out of five pairs, with four sets of exceptional edges and six
variants of barriers, tags, tolerance and escalations; of these the validator
admits 3,260, in which every kind of exit, edge and barrier occurs. Attempt limits are
two at the gate and one elsewhere. `WorkRegistry` needs one process that dies and
two that compete for what it leaves; `MaxCalls` lets one of them come again. In
`Efforts` three commands (`MaxCmds`) are the least for a start, what crosses it
and what takes its place; `Killed` and `Slow` name those that may die or overrun,
and one slot makes every claim compete. `StoryBroker` has one more id than the
cap, so a third request meets a full daemon, a reap and a replacement;
`MaxCrashes` lets it restart once (with two restarts, which take
three times as long, the run passes too, and its invariants are proved for any
number). TLC's own instance is confirmed by the proofs
for every number of jobs where a theorem is listed.

Deadlock is not checked outside the dispatcher's run: when all jobs, flows,
commands or requests are finished there is nothing to do. Where waiting for each
other is a hazard (`story_broker`) a liveness property looks for it.

Fairness. The event loop runs every microtask and every expired timer, and an
invocation ends because adapters answer, throw or are cut off; this is weak
fairness on `RunMicrotask`, `RunWake`, `SlaExpires`, `SuspendTimerFires` and
`GraphEnds`. Clients owe nothing: no request, reviewer or event has to come.
In `JobEngine` a request's thread goes on until it answers, which is weak fairness
on each walk's steps; no report, cancellation or later request has to come, and a
walk may die, which `StartsSettle` allows for.
A flow's invocation goes on by itself and its interrupts are answered: approvals
have deadlines and timers wake, and for suspensions that wait for an event it is an
assumption on who sends it. A workbrokr process goes on unless it dies, and time
passes; somebody runs `work reap` again and again, as every start does. In
`StoryBroker` requests go on, watchers time out and what is killed dies.
Hence `QueueStallsOnlyOnEvents` has to allow for a slot that sleeps until an
event, which no deadline covers.

Every property has a mutant in `PROJECT.json`: a definition changed the way a bug
would change it, with which TLC finds the property violated. The mutants stand
in the modules in front of the definition they replace.

## Proofs

`DispatcherProofs`: for every set of jobs and every capacity. The inductive
invariant `IInv` adds to the run's invariants that `micro` and `queue` hold no
job twice and do not overlap (`WaitsOnce`): without it a job that ends could
leave its slot to itself. `Counted` relates the jobs the pool counts to the slots
the dispatcher counts. `PoolRefinement` maps each action: `Submit` to `Accept`,
`RunMicrotask` to `Start` (its slot is counted in `inFlight`, so fewer than
`Capacity` jobs are live), `Terminate` to `Finish`, where a job that moves from
the queue to the closures does not change the line.

`JobLifecycleProofs`, one process: for every set of jobs, capacity and bound on pauses, the
invariants of `lifecycle_safety`, `FinishedStaysFinished`, and that every step is
a step of `Dispatcher` or none (`DispatcherRefinement`), so what is proved of the
dispatcher is true of the server. None of the invariants is inductive alone: a
wake finds a paused job because it was queued by a callback that found one and
nothing but the wake itself touches a paused job before; that needs the records
and timers of `InPause`, which need the statuses of `InRun`. `IInv` is their
conjunction, per job (`JobOK`), with `Slots`, what `WaitsOnce` is for the
dispatcher. A step is looked at twice: at the job it is about, and at the others
(`Bystander`), of which at most one changes, by being pulled from the queue. Each
action has a lemma; `ReportStep` is shared by all that call `onStatusChange` with
a terminal status. The proof shows more than the run asks: a job that holds a
slot is starting, running or paused (`Holdings`), and the cached graph of a job
that was never restarted always carries the hooks of `runJob` (`InRun`).

`JobLifecycleProofs`, crashes: for every set of jobs and of reviewers, any number of
crashes and of file operations under way, all safety properties of `recovery`.
`IInv` of the lifecycle is not an invariant here: a job that comes back from its
record has neither slot nor cached graph, and one whose record was written late
comes back in a status it was not paused in. So there are two invariants per job.
`Sound` holds whatever overtakes what: it is what keeps a wake on a paused job and a
claim on a pending approval, and restarts keep it because they rebuild requests,
timers and claims from one record. `Orderly` holds of jobs that overtook none of
their file operations. It knows the few sequences of operations that can be under
way (`BeingMade`, `BeingSaved`, `BeingReread`, `BeingDeleted`), the status each is
under way in and what is on disk then, so that a crash in the middle finds the
record of the pause, a torn file or none, and each boots into what `Orderly` allows.
What the lifecycle's lemmas say of the steps of `JobLifecycle` is used again.

`JobLifecycleProofs`, slots over crashes: `NoSlotLeaks`, `CleanRunsHoldSlots` and that
every step but a crash is one of `Dispatcher` or none (`DispatcherRecovers`), for the
same instances. The danger is in the resume hooks, which skip `cancelled` and with it
the release of the slot. `InHand` is why no slot is lost to them: who holds a slot
has a graph that this server compiled for its run, so its cancellation is reported
to the hooks of `runJob`; a job that came back has a graph with resume hooks, and
no slot. `DispatcherRecovers` asks less of the jobs (`Routed`: who starts or waits in
the queue has run nothing yet), which follows from `Sound` here and from `IInv` in one
process, so the refinement is proved once for both.

`ControlPlaneProofs`, the engine: for every flow, any set of walks, paused anywhere: the safety
properties of `job_engine`. `RowFirst` explains `IntentsFollowTheEnd`: a walk that
is about to publish has seen its job at an end, because its own update either
ended the job or found it ended. `Walked` explains `IdleRunsArePaused`: a job that
says running and is not paused has a walk under way. For `AuditTrailSettles` the
induction needs what a lone walk knows (`Alone`, `Knows`): nobody else walks, the
steps but its own are settled, and the job is paused nowhere else (`Explained`).

`ControlPlaneProofs`, the session: every step of `IntakeSession` is a step of `JobEngine` or
leaves the job alone, so `IInv` holds there too; with it `IntakeInv` adds that a
session offering an intent had its job publish it, and that a submitted session
has the one work job of the confirm that found the session open. For any number of
walks and confirms.

`FlowGraphProofs`: for every set of nodes and all the flows over them that are
admitted (of the rules the proof needs the one trigger only): `JoinsFireOnce`,
`EffectsHappenOnce` and `HandledErrorsFailNothing`. The invariant adds that the
exits which wait for an answer are still exits their nodes may have (`Waits`): the
guards looked at the completions of the superstep's beginning, and nothing is
committed while the graph is paused. `EdgesStay` is what the rewrite leaves alone.

`WorkRegistryProofs`: for any number of processes and updates. While the history
is undisturbed, who is between its mkdir and its rm holds a fresh lock and has
read what the registry still is (`HoldsFresh`), and who goes to claim a lock has
seen a stale one; with this `OneHolder` gives mutual exclusion, and the copy that
is written back is the registry.

`EffortsProofs`: for every set of targets, scopes and slots, any number of commands and
whichever of them are killed or slow: `OpenEffortsAreApart` and `StacksAreLeased`. What
is said of a command is said while it has not crossed another one, and `Met` is what
makes that a basis: `crossed` holds whoever builds on an effort while another command
builds on it, releases it or forgets it (`Meetings`), and nobody leaves `crossed` while
an effort or a stack is left of him (`CrossedStays`). So a step of another command on
one's own effort is excluded, for the efforts (`EffortsStep`, `StartsAreOpen`) and for
the leases. `LeaseInv` follows a lease: who is about to spawn or record has one for its
slot (`SlotsAreLeased`), nothing runs by it yet (`StartsFresh`), what runs by a lease as
it is now was in it when its releaser read it (`StopsAll`), and from a free probe on
the claimant has the ports alone (`HasItAlone`). The last needs that a reset or
promotion which spawns without a probe does so on the lease of its own effort. Steps
that only take away share one lemma (`NothingNew`); a claim, a spawn and a record have
one each.

`StoryBrokerProofs`: for every set of ids and of ports, every cap, any number of
requests and restarts: `ProcessesAreKnown`, `CapIsKept` and, not part of a run, that
no two actors stop or make the same instance (`OneAtAnInstance`). `RegistryOK`: a
record, a process and a watcher each carry the name of a request that is past its
spawn, no two of a kind carry the same, and a handle, where there is one, is that of
the record. `LockOK`: who stops or makes an instance is at the head of its queue and
what it is about to kill is what the record names; a creation has no record yet and
none of what it reaps is its own id, which is why a lock inside a lock does no harm.
`FaithOK` speaks of the histories in which nothing was marked for what was not its
own: only there does a record that says ready have a process that answers, and one
that says failed a process that was told to end, without which the next restart
drops what still runs. For `CapIsKept` a second induction is not needed: only an
addition makes the active instances more (`NobodyWakes`), and it has just counted
them.

The theorems rest on the named assumptions of the modules and on nothing else:
capacity and the bounds on pauses and calls are natural numbers, the edges of a
flow lead to its nodes or nowhere, the null node is no node, a flow has finitely
many nodes, ids of instances are finitely many, ports, the number of commands and the numbers of
slots are natural numbers (of slots positive ones), and the names of interrupt nodes and
of errors are told from those of nodes and exits. Each is evaluated by TLC in the runs
of its module.

Proved and no longer part of a run, for they say little about one instance: the
type invariants, `SlotsAreBounded`, `BackpressureBound`, `WaitsOnce`,
`PausesAreArmed`, `OneAtAnInstance` and `ReadySessionsHaveEndedJobs`, which
`IntentsFollowTheEnd` nearly says.

Every safety property of the passing runs is proved but one. Only model-checked:
liveness under fairness, and with it that half of the refinement of `FifoPool` (out of
TLAPS's reach), and `JoinsAreReached`, which rests on the searches of the validator,
recursive functions about which the provers would need induction. The two comments that
the runs find violated have nothing to prove.

## Plan

The modules above were written in the order of the modules table, the most
important behaviour first: slots, the life of a job in a server, its survival of
a crash, the same job seen from the control plane, its session, what runs inside
it, and then the tools whose state several processes share. Next:

1. `CatalogStore`: catalog and layout PUTs that interleave, cron re-arming, flows
   of jobs in flight.
2. `Cron`: the minute scan of `nextCronFire` against the least matching minute.
3. `Timers`: SLA and wake deadlines across restarts, 31-bit `setTimeout`.
4. `WorkerContainers`: spawn, stream and teardown of container jobs.
5. The work job of `IntakeSession` as a `JobEngine` of its own, with the reports
   of a harness that may know the job before its row is committed.

## Not modelled

In the control plane: the bodies of compound steps and their attempts
(`executeBody`), evaluation scores and reflections, the approval of proposed
pipelines, event streams to browsers, users and organisations.

In the harness: prompt texts, adapters, token sums, expression evaluation, input
mappings, output contracts, loop tags, LangGraph itself (external) and its limit
on supersteps, the read-only routes, the TUIs, the designer. They have no part in
the life of a job, or are data transformations without interleavings. The
container path bypasses the dispatcher and is planned. Registration-only mode (no
credential broker) leaves jobs `received` and has no behaviour.

In workbrokr: worktrees and branches, backend mode, participants, notices, commons
and Storybook leases; they follow the effort they belong to. In storybrokr: a
host directory that vanishes, browsers, the discovery of stories, its HTTP routes.

Other parts: gitradar, gittyup, taskmaster, timetracker, toolz, pritty and
mech-pencil are tools of one user over local data; the context and memory servers
keep and search documents; adapters, agent authentication and skillzkit wrap
external programs, whose outcomes the models leave open; command lines and user
interfaces drive the modelled operations.
