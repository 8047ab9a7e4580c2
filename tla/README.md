# QuarkSelfAI: a verification of the assistant, its bridge and its control plane

QuarkSelfAI is a personal assistant that runs as one or more Node.js processes
around a durable store. Chat and calendar events come in, features decide what
to do about them, and work is carried out by coding agents under leases, with
the owner's approval where it writes. What makes it hard to get right is less any
single feature than what all of them stand on: rows claimed under leases by
several workers, hints that may be lost, timers, retries, crashes between two
commits, handlers that share one object across awaits, and clients and servers
that acknowledge each other's commits. This directory models the program in
TLA+, checks it with TLC on small instances, and proves the central results with
TLAPS for every instance.

Paths below are relative to the repository; the TypeScript sources are under
`src/`, the JavaScript bridge under `packages/bridge-compat/src/`.

## The system

| Component | State it keeps | Operations | Interacts with |
|---|---|---|---|
| Durable action ledger (`storage/sqlite.ts`, `storage/postgres.ts`) | `action_record`, `action_execution`, `approval_request`, `action_transition` | enqueue, decide, claim, settle, release | action workers, features, console |
| Action worker and router (`execution/*`) | runs in flight, `running`, the router's `active` set, authorizations | pass over the workspaces, acquire a session, execute a route, settle or release | ledger, DSH agents, wake scheduler |
| Wake scheduler (`runtime/wake-scheduler.ts`) | `wakePending`, `draining`, `scheduledAt`, timers | wake, drain, timer, recovery scan, dispose | store (hints after commits), the three runtimes |
| Durable workflow runtime (`workflow/runtime.ts`) | `workflow_instance`, `workflow_event`, `workflow_transition`, `workflow_effect` | start, dispatch, pass over timers and effects | features' reducers and effect handlers |
| Event runtime (`events/runtime.ts`) | `assistant_event`, `event_delivery` | append, claim per consumer, settle, release | channels, features |
| PostgreSQL store (`storage/postgres.ts`) | the same tables, `policy_revision`, migrations | the same ports with row locks | every process of a deployment |
| Feature workflows (`intake`, `followup`, `collaboration`, `session-lifecycle`, `task-maintenance`, `xiaowei`) | the state of their instances | reducers | workflow runtime |
| Collaboration learning (`collaboration/*`, `policy/engine.ts`) | observations and proposals as signals, checkpoints, policy revisions | observe, review, propose, simulate, activate | a workflow, the owner's cards |
| Effects (`conversation`, `reasoning`, `lark`, `task-system`) | DSH sessions, the task list, cards | converse, judge, notify, make, update and delete tasks | workflow runtime, external programs |
| Lark streams and discovery (`lark/*`) | a consumer process per event key, a buffer of lines | start, stop, fail, discover | event runtime |
| Platform lifecycle (`platform/lifecycle.ts`) | component states, the stack of started components | start, stop, report a failure | bootstrap, kernel, bridge |
| Module catalog and product (`platform/modules.ts`, `product/*`) | a catalog file and a manifest | accept, compose, report | bootstrap |
| Control plane (`control-plane/*`) | devices, sessions, dispatches, results, owner leases, identities, drafts and releases | enroll, open, poll, acknowledge, submit; claim, transfer; log in, provision; save, publish, dispatch | clients over TLS and SSH, the console |
| Client runtime (`client-runtime/*`) | enrollment, run checkpoints, artifacts, instance lease, activation files | the client cycle, the no-effect worker, activation, executors | control plane, local executors, launchd |
| Bridge process (`runtime/compat.ts`, `index.js`) | readiness, the child, the card consumer and its recovery | start, observe, stop, reconnect | platform lifecycle |
| Compatibility bridge (`packages/bridge-compat`) | one state file, the session queue, monitors' cursors and requests | message handling, CLI failover, monitors, reports | Lark, Dida, Codex, Claude |
| Migration (`migration/*`) | handoff directories, checkpoints | audit, hand over, apply | bridge's state, durable store |
| Recovery scripts (`scripts/recovery-*.ts`) | bundles, receipts, clones | capture, publish, prune, prepare | database, target directory |
| Capability platform, orchestration, web server, engines | - | validation, compilation, rendering | - |

What is hard, and where (the full list with lines is `hazards` in `PROJECT.json`):

- **Leases that outlive their runs.** A claim is protected by a lease that is set
  once. A run that takes longer overlaps with the run of another worker, and both
  come back to the ledger. A stale lease is taken over by a rename.
- **Passes that reject.** One worker's rejection ends a pass while the others are
  still running, and the next pass starts beside them under the same identities.
- **Crashes between commits.** Between a claim and a settle, a commit and its
  hint, the two commits of an effect's outcome, a file and its rename, a
  migration and its row, a proposal and its notes.
- **Hints and deadlines.** Coalesced wakes, a single timer for many deadlines, a
  drain with a pass budget, and a slow scan that makes up for what is lost.
- **State read before an await.** Reducers are called between a read and a write;
  monitors and handlers share the objects of one state file; the task list, a
  transfer's source and a group list are read, awaited and then acted upon.
- **Retries with another content.** Ids and idempotency keys make repetitions
  harmless only as long as the content is the same.
- **Stale lists and late answers.** A list of due instances read once; a verdict
  reported twice; a request that arrives after its caller gave up.

## Modules

| Module | Models |
|---|---|
| `ActionLedger` | the ledger's tables and transactions, the workers' runs await by await, the router |
| `DurableJob` | what the ledger promises: the life of a job; implemented by `ActionLedger` |
| `ActionLedgerProofs` | the theorems about `ActionLedger` |
| `WakeScheduler` | the scheduler over a durable queue |
| `WakeSchedulerProofs` | the theorems about `WakeScheduler` |
| `WorkflowRuntime` | the workflow tables, dispatches, passes |
| `WorkflowRuntimeProofs` | the theorems about `WorkflowRuntime` |
| `Features` | the reducers of all features as operators, with the decisions the runtime acts on |
| `FeatureWorkflows` | `Features` over the durable runtime and the outside world its effects act on; begun from nothing, or from the instances a handoff of the bridge creates |
| `FeatureProofs` | the theorems about `FeatureWorkflows` |
| `DeviceRun` | one device's dispatches, sessions, leases and results on the control plane, and the client's pass with its journal and checkpoints |
| `DeviceRunProofs` | the theorems about `DeviceRun` |
| `DeviceEnrollment` | the code, the request, the approval and the client's stored enrollment |
| `ControlStores` | the owner lease of a matter with its transfer; accounts, attempts and browser sessions |
| `AgentStudio` | drafts, releases, the catalogue of capabilities and plans, driven by console tabs |
| `EventDelivery`, `PgStore` | event delivery over both stores; actions, workflows, policies and migrations under PostgreSQL's locks |
| `Lifecycle`, `CompatProcess`, `ModuleCatalog` | the supervisor, the bridge as its child, the composition of the product |
| `LarkEvents`, `Executors`, `DidaEffects`, `PolicyLearning` | event streams and discovery; what carries an effect out; the task list; learning and policies |
| `Bridge` | the bridge's messages: deliveries, the session queue and its drain, the state file, the chain of executors |
| `BridgeProofs` | the theorems about `Bridge` |
| `CliFailover`, `LarkClient` | the executors' command lines and sessions; Lark's command line |
| `MentionMonitor`, `GroupWatch`, `OwnerEngagement`, `BridgeFollowup`, `XiaoweiChannel`, `BridgeJanitor`, `BridgeReports`, `TaskIntake`, `ShadowWeek` | the bridge's monitors and what they keep in the same state file |
| `InstanceLease`, `ServiceActivation`, `ArtifactStore` | the installed client |
| `HandoffFiles`, `HandoffApply` | the migration from the bridge to the durable store |
| `RecoveryBundle`, `RecoveryTarget` | backup and restore |
| `MCActionLedger`, `MCAssistant` | small instances for TLC; the other runs give the constants their values in the `.cfg` |

`MCAssistant` instantiates all modules that have no run of their own. These parts
share nothing, so one run checks them all: the constant `Parts` lists them, the
initial state chooses one, and only that one moves. The run's state space is the
sum of theirs, not their product. A part may be instantiated more than once, with
other bounds (`found`, `studied`, `questioned` and `noticed` are four instances of
`MentionMonitor`).

### How state and actions correspond to the code

Each database transaction is one action, since SQLite runs them under
`BEGIN IMMEDIATE` (PostgreSQL under row locks). Code between two `await`s is one
action. Everything else interleaves. The map in `PROJECT.json` names the lines of
the definitions; one that is not listed refines, or reads the same lines as, a
listed one of its module.

**ActionLedger.** `execution`, `record`, `approval` and `journal` are the columns
the code decides by; texts, prompts and results are left out. `run[r]` is one
`DurableExecutorWorker.runOnce`: `claim` (line 71), `acquire` (80), `execute` (the
time the router's `active` set holds the action), `finish` (before `settleAction`
or `defer`), `catch` (before `releaseActionClaim`). `inPass` tells whether the
service still waits for the run: `Reject` is the rejection of `Promise.all`, which
resets `running` while the others go on. A worker is identified by the
configured id and its workspace, so two overlapping runs of one process share an
identity, as in the code. `infra` is the verdict of `isInfrastructureFailure`;
where the error's text contains ids the verdict is left open. Instants are kept
relative to now. `spent` counts lost leases, crashes and faults against their
bounds. Operators placed before a definition under the heading "Faulty variant"
are the mutations the properties are tested with; no specification uses them.

**WakeScheduler.** `wakePending`, `scheduledAt`, `disposed` are the fields of the
class; `drain.pc` is where the drain loop stands, including the queued
`setImmediate` and the `finally` block. A row of the queue stands for an event
delivery, a workflow timer or effect, or an action. `hints` are the events emitted
by the store service and not yet received, each with the instant it carries, which
may no longer be the row's. `busy` and `woken` only record
history for the properties: `busy` counts the ticks an item was due while the
drain loop was running something.

**WorkflowRuntime.** An instance's state is the set of events folded into it,
which is what the reducer has seen; a reducer may answer any event with any
status, wake-up and new effects the store accepts, each effect available at once or
after one of `Delays`. `proc[p]` is a pass of a
runtime or a dispatch of a feature: `read` and `write` are the two halves of
`dispatch`, and `job` the event under way. Two assumptions about reducers are
made, and read off the reducers in the repository: the answer to a timer never
keeps that timer, and no reducer returns to an instant whose timer has fired.

**DeviceRun.** The server's half is `dispatch`, `queue` and `result`: the rows of
`cp_device_dispatch` in the order a poll looks at them, and of `cp_device_result`.
The client's half is `disk`, the rows of `local_run_checkpoint`, and `pass`, the
memory of one call of the client cycle, lost when it ends or when the process
dies. The journal is restored from the checkpoints at the start of every pass,
so a mutation of the journal and the save that follows it are one step on `disk`.
`wire` holds the requests the server has not answered: a call that times out, or
whose client died, leaves its request there as a stray (`mine` is false), and
the server may handle it at any later moment. `poll` is two steps, cut at its
await: `HandlePoll` reads the row, `HandleOffer` writes it or returns what was
read. Sessions are anonymous: what a request needs to know of its session is
whether it is still the active one, hence the flag `live`, which opening another
session clears. A lease token is named by its `lease_attempt`; evidence by its
outcome and the number of the execution it reports, so two executions never yield
the same evidence. The worker's one pass at a time, and the instance lease that
keeps a second process away, are taken as given, and with them the checkpoint's
revision check, which then always succeeds. Executors are numbers in the plans'
order of preference; a resumed run finds its executor, since the client constructs them all. `syncOnce`,
which only answers what the journal holds, is left out.

**Bridge.** `state` is `StateStore.state`, `disk` the state file, `saves` those who
await a save in `saveQueue`, and `writing` the copy under way: a save writes the
state as it is when its turn comes. `handler[d]` is one delivery of an event,
cut at its awaits; one message may be delivered twice, at the same time. `drain[w]`
is one call of `drain()` with the job object it holds and the index it found.
`nextAttemptAt` is the flag `delayed`, and which words of an error make it
retryable is left open. `Restart` is what an uncaught error or a crash does: the
parent process fails with its child and the service manager starts both again
(`docs/operations/deployment.md:87`). All jobs belong to the controller session,
as those of messages and card forms do. The caps of the file (`state-store.js:171`,
`:173`, and `bridge.js:491`, the lowest, `Recorded`) cut nothing as long as there are at most 200
deliveries, which `BridgeAssumption` demands. Errors of the file system, approvals of
pending research and the other card actions are left out. `shown` stands for what
Lark accepted.

**Features and FeatureWorkflows.** A reducer is an operator from a state and an
event to a decision; the texts of cards and prompts are left out. A dispatch is
one step, since `WorkflowRuntime` shows what its halves may meet; an insert of an
effect id that exists makes the dispatch throw, as the plain INSERT does. A row of
`outbox` is keyed by its workflow and its effect id, since the ids of the code contain
what tells the instances apart. An `approval.response` of the intake and collaboration
reducers only keeps the answer's text and is left out. `Refused` is the decision of a reducer that throws. Timers,
faults (an effect executed twice), final failures, and answers from outside are
bounded; a workflow is followed until its horizon. `WorkflowRuntime` makes two
assumptions about reducers; that timers commit is checked here of the real ones.

**The monitors of the bridge.** `state` (or `state.mem`) is the one object of
`StateStore`, `disk` the file; every mutation is followed by a save, and a crash
restores what was saved. One action is the code between two awaits; a poll, the
handler of a card and the timer of a queue meet in the requests they share.
Instants at which something settles or is retried are due at any moment where no
property depends on them. The owner's engagement keeps a limited number of pending
events and removes a handled one at the index it was found at; `EngagementStep` names
both ways in which an event may leave unhandled, and its instance reaches both. Answers of Lark, of an agent and of the task list are
chosen from small sets; a call may fail before or after it took effect.

**EventDelivery and PgStore.** A transaction of `PgStore` is cut at its locks: it
starts, waits or skips at a locked row, reads what was committed by the time it
has the lock, and takes effect when it commits; a lost connection rolls it back.
`EventDelivery` lets its initial state choose the store: over PostgreSQL a
statement sees the snapshot of its start, over SQLite the transaction is one
step. A migration file and its row are two commits.

**PolicyLearning.** Signals are records under an id; appending one with another
content throws, as in `appendSignal`. A review is the effect of a workflow, so it
is tried again with the same instant until its attempts are over, and its note,
its checkpoint and its card are separate steps. Conditions of a policy are kept as
trees and evaluated; a simulation counts over the stored samples.

**LarkEvents.** A stream has a child, a buffer of lines and a status; `start` and
`stop` are cut at their awaits and may cross. Discovery reads its sources page by
page while streams deliver. **Executors** has three kinds of work: a request in an
agent's session, whose answer is the session's last output; a judgement with what
is learned of it and its card; and the child that runs a signed plan, whose
result is written, synced, linked and verified under its digest. **DidaEffects**
lets the owner edit, complete, move and delete tasks between any two commands; his
words inside the generated summary are replaced with it, as in the code, and those
outside are kept.

**Client and control plane.** `InstanceLease` separates reading the owner, probing its
process and renaming the directory. `crossed` records that a starter took another
directory than the one it had read; until that happens there is one owner, also across
deaths. It takes no crash: an owner that releases its lease and exits between another's
read and probe is enough. `Lifecycle` covers start, rollback, stop and components that
fail while they run or while later ones start; a stop waits for the start, as `run.ts`
installs its handlers afterwards. `ServiceActivation` keeps the files of a transaction
(intent, receipt, definition, health) and what launchd has registered; commands
may fail at each step or die. `ArtifactStore` keeps blobs, receipts and rows.
`ControlStores` and `AgentStudio` cut each operation at the await in its middle.
`DeviceEnrollment` has both sides, with answers that are lost.

**Scripts.** A command of `RecoveryBundle` is cut at its writes while the database
goes on; `RecoveryTarget` has the cycle and a prune by hand at the same time.
`HandoffFiles` creates files that are whole, half or absent, and `HandoffApply`
runs again after every crash, with native work in between: records have contents and
kinds; an event that exists is kept as it is, and a signal or workflow that exists with
other content ends the run.

## Runs

| Run | Instance | What it shows |
|---|---|---|
| `ledger_hosts` | two processes, one action, three attempts, one lost lease, one crash, one fault | inductive invariant; retry cap; only the recorded claimant commits; refinement of `DurableJob`; the action is settled in the end |
| `ledger_overlap` | one process, two actions, two runs of one identity and one of another workspace, two executors in a route, one lost lease, one fault | approval gate, unique keys, one executor per process, audit trail, settled for good |
| `wake` | two items, recovery every three ticks, two passes per drain, one restart, one dispose, one run that throws | no wake is lost, lateness is bounded, nothing starts after dispose, everything is settled |
| `workflow_race` | two runtimes and a feature on one instance, one lost lease | no lost update, one verdict, commits by the claimant |
| `workflow_faults` | one runtime, an effect with and one without a handler, one fault, crash and refusal | deliveries are reported, timers never stuck, attempts capped, effects settled and timers served in the end |
| `device` | one device, two tasks, two executors of which one may be missing, two faults (timeouts, crashes, throws), one lapse of a lease or session, one expired plan | the inductive invariant; execution only under an acknowledged lease, one open run, agreeing results, no second execution of a saved result, an acknowledged lease is final, every dispatched task is synced unless the device stops where the code leaves it to an operator |
| `bridge` | a message and a card form or one of them twice, two failures, a failed spawn, a crash | accepted requests are durable and leave the file with an outcome, no execution after a shown result, a drain holds its job, retries wait with the requested executor, requests settle unless the session is stuck |
| `assistant` | forty instances of the remaining modules, listed in `Parts` | the invariants and action properties of each: see below |
| `features_cleanup` | the clean-up workflow | a failed clean-up is not retried: a divergence |
| `lease_owner` | two starters, one dead owner | two owners of one state: a divergence |
| `activation_interrupted` | commands that die | an interrupted activation cannot be reconciled: a divergence |
| `migration_restart` | a crash between a file and its row | a migration that cannot be completed: a divergence |

The properties of `assistant` are conjunctions over the parts:

- `FeatureInvariant`: the tables keep their shape; no timer but the cleanup's asks for an
  effect the store has, so that no other workflow stops the passes of the runtime
  (`TimersCommit`); the windows of two scans overlap (`NoScanGap`); at most one message of a
  follow-up is sent, only as approved, and none after the bridge's (`OneApprovedMessage`);
  what is completed has had its deeds (`CompletedMeansDone`).
- `NothingForgotten`: a running workflow has a wake-up, an effect under way or a reply to
  wait for, also one that was imported. `RetentionKept`: a session the owner leaves alone
  is deleted only after the retention that was granted. `OutcomeStands`: a final outcome is
  not taken back by a late event.
- `MonitorsInvariant`: no message slips between two search windows; research and
  plans take the owner's approval and, without a crash, happen once; a follow-up goes
  to the contact the owner confirmed and is never left without a next step; what
  counts as completed was answered, written and told; only sessions of completed
  tasks are archived, and deleted after their retention; no reminder is repeated within a
  day unless a call failed, and digests leave no gap.
- `ServicesInvariant` and `PartsSteps`: what each of the services promises; the
  comment over each module's invariant says it, with the exceptions the code has.

### Bounds, and why they are enough

Two competitors are enough for every lease hazard, since a claim only has a
holder and a challenger; a third run is there to reject the pass. Two or three
attempts reach the first, a middle and the last one. `Delays` is `{0, 1}`: an effect
is available at once, or later than something else. Leases, delays and ages of
one tick are enough because only their order matters, and a run may let several
ticks pass. `Past`, `Late`, `MaxAge` and `Horizon` merge instants no property
tells apart; `Late` lies beyond the bound `OverdueBound` states. Lost leases, crashes,
faults and refusals are bounded by one or two: each is a disturbance the
algorithm has to recover from, and a second one finds it in a state the first
one already reaches. In `device` two are needed: the first leaves a stray request
behind, and the second makes the client come back to it in another state.

In `assistant` every module that has calls to fail has an instance with a failure or
two, one that keeps something on disk an instance with a crash, and clocks are long
enough for a retry and one whole interval: a day has three ticks, and workflows with daily work are followed for two days. Together,
faults, failures and touches of a workflow are at most two, and imported workflows
have no repeated execution, which the same workflows have under `features`
(`FewDisturbances`). A catalog has four modules, one of each class that the rules
distinguish; a text has at most four letters and pieces of two; a retention of one
day and one week meets three days. `Symmetry` permutes contacts and fingerprints,
which nothing tells apart.

### Fairness

The store's hints and the recovery scan keep starting passes (weak fairness of a
pass), every await settles in the end because providers run under an abort signal
and store operations under a busy timeout (weak fairness of every run), and time
passes (strong fairness of `Tick`, which the model's own bounds may hold back).
The device worker schedules a pass after every pass, failed or not, and a server
that is asked by a waiting client answers (weak fairness of `PassStep` and
`Answered`); strays are never promised to arrive.
In the bridge, writes end, callbacks run, children end or are ended by their
timeout, and the timer of `retryQueued` fires; no event is promised to arrive. Nothing is
assumed of callers, features or the owner. `assistant` checks safety only: its
invariants say of every reachable state what it still waits for, so that no
fairness is assumed of the parts.

## Proofs

`ActionLedgerProofs` proves for any number of processes, workspaces, runs and
actions, and any bounds: `LedgerInvariant` (`InvariantHolds`), and from it
`TypeOK`, `LedgerConsistent`, `GateRespected`, `KeysAreFresh`, and the action
properties `SettledForGood` and `AuditTrail`; `OneExecutorPerHost`; the refinement
of `DurableJob` (`LedgerImplementsJob`); and, where no two runs share a worker
identity (`OneRunPerIdentity`), `RetryWithinCap` and `CommitByClaimant`.

None of the three safety invariants is inductive. That no worker holds a gated
action is only preserved because a run carries an action that was claimed when
its gate was open, and because an approval that is pending has an execution
nobody claimed: hence `RunSound` and the clauses of `Consistent` about
`approval`. That keys stay fresh needs every row of the journal to be bounded by
the attempt, with the settle, retry and fail rows of the current attempt only once
the execution has left `executing`: hence `JournalSound`. That tables agree needs
to know that a transaction's literal `from_state` is the true one, which again
follows from `Owns` and consistency. `LedgerInvariant` is the conjunction of
these with the types; the proof has one lemma per action, each lemma one step per
conjunct the action can disturb, and frame lemmas (`Elsewhere`, `RunKept`) for
the rest. The assumptions are those of `LedgerAssumption`.

`OneRunPerIdentity` is a hypothesis of two theorems and no assumption of the model: it
holds of the instance `ledger_hosts` checks, and where two overlapping runs of one
process share an identity, as `ledger_overlap` lets them, the store cannot tell their
claims apart and neither property holds. Under it a run that finds an action under its
own name is the one that claimed it last (`ClaimsSound`). `OneExecutorPerHost`
needs no hypothesis, since the router's `active` set refuses a second execution
whoever claimed it. For the refinement every operation maps to a step of `DurableJob`'s
life of a job, or to a stutter; the mapping reads the tables only, and the invariant
supplies what the literal statuses in the transactions leave open.

`DeviceRunProofs` proves for any tasks, executors and outcomes and any number of
faults and expiries: `DeviceInvariant` (`InvariantHolds`), and from it
`ExecutionIsAcknowledged`, `OneOpenRun`, `ResultsAgree`, and the action properties
`CompletedRunsStay` and `AcknowledgedLeaseIsFinal`. What has to be added to the
safety properties is what the two sides know of each other: a pass has at most
one call under way, at the step that sent it (`OneCall`); every submission on the
wire, however old, carries the evidence on disk (`SubmitsWhatItKeeps`); an answer
the pass has in hand is backed by the server's tables (`PassKnowsItsTask`); a
checkpoint has a result exactly from completion on (`ResultsWithCompletion`);
and no other run is open while one is being asked for or worked on
(`NothingElseOpen`). The crux is `AnswerRelates`: a late or duplicate request may be
handled at any time, and its answer changes nothing unless the pass still
waits for it. The assumptions are those of `DeviceAssumption`: `None` differs from
every row and message.

`WakeSchedulerProofs` proves for any items, intervals, leases, budgets and delays:
`WakeInvariant` (`WakesAreKept`), `OverdueBound` (`LatenessBounded`) and
`NoRunAfterDispose` (`DisposeIsFinal`). The inductive invariant is `WakeInvariant`
itself: `WakeSound` has the coalescing rules (a wake-up that is pending has a drain
that will look at it) and `LateSound` the lateness, which is inductive only with the
slack of the recovery timer: an item is due at most one interval before the timer
fires, one interval more for each run that threw, and the ticks it waited behind a
drain that was running something (`busy`). Proving it corrected the property: a bound
without that last term holds of the instance TLC checks, where a run takes one tick,
and of no other.

`WorkflowRuntimeProofs` proves for any instances, effects, runtimes and features all
safety properties of the two workflow runs:

- `UpdatesAreKept` (`WorkflowInvariant`) and everything else rests on `Core`: where a
  pass stands with which effect and which event (`ProcSound`), what was folded into an
  instance (`FoldsSound`), and that a process which read an instance at its present
  revision read all of it (`ReadSound`).
- `DeliveriesAreReported` (`DeliveryReported`): a pass that is about to settle an effect
  has committed the event that reports it, and events are never lost (`Told`).
- `ClaimantCommits` (`CommitByClaimant`): a claim and a row agree on the attempt, or the
  claim is older (`AttemptsAgree`); hence a pass whose lease was taken over finds another
  owner.
- `AttemptsAreCapped` (`AttemptsCapped`) needs counting: every attempt beyond the cap,
  every claim another runtime may take over (`Adrift`) and every pass so late that its
  next claim comes with an expired lease (`Dawdlers`) is paid for by a fault, a crash or an
  expired lease (`CapSound`).
- `VerdictsAreOne` (`OneVerdictUndisturbed`): while nothing of that kind happened every
  claim has a live lease (`HoldsClaims`), so a reported verdict is the row's status or
  the one its only claimant is about to write (`VerdictKept`).

`BridgeProofs` proves for up to 200 deliveries, any messages, cards and executors, any number of
calls of `drain()`, faults, failed spawns and crashes: `BridgeInvariant`
(`JobsStayInPlace`), `AcceptedIsDurable` (`AcceptedStaysDurable`),
`NoExecutionAfterResult` (`ResultsAreFinal`) and the action property
`LeavesWithOutcome` (`OutcomesAreRecorded`). Three versions of the state exist at a time:
the file, the copy being written, and memory. The inductive invariant `BridgeSound` says
that each knows the deliveries of the one before it (`StoresSound`) and is sound by
itself, so that a crash, which replaces memory by the file, keeps it (`RestartStep`);
that whoever awaits a save is in the copy being written when it is their turn
(`HandlerSound`); that one call of `drain()` at most is past its first line, and its job
stays at its index because others only append or replace in place (`DrainSound`); and
that a result in memory is in the file, or is still awaited by the call that has it
(`FinalSound`), which is why what is about to be sent survives every crash. It was
checked by TLC on the instance of `bridge` as well. The assumptions are those of
`BridgeAssumption`: deliveries and calls, messages and cards are different things, and the
executors are those of the configuration's types, and no cap of the state file is reached.

`FeatureProofs` proves for any workflows running together, any intervals and delays, any
number of answers, failures and repeated executions, and both beginnings (an empty store,
or the instances a handoff imports): `FeatureInvariant` (`FeaturesAreSound`), its parts
about the world by themselves (`OneMessage`, `CompletedIsDone`, `NoGapBetweenScans`), and the
action properties `RetentionKept` (`RetentionIsKept`) and `OutcomeStands` (`OutcomesStand`).
The proof has two layers, as the code has. The first is
about the runtime: for one workflow a step is nothing, a change of one of its rows, or a
turn, in which its reducer decides on a timer, an answer, a delivery or a failure
(`StepOfAFlow`). The second goes through the reducers, one lemma for each kind of event.
The inductive invariant `FlowsInv` says of each workflow what its state says of its rows
and of the world: an outreach in `sending` was approved for its contact, every effect of a
scan asks for the window the state remembers, an archived session has its instant, an
evaluation that is under way has the id of its sequence number. That is more than the
properties say, because a state is only as good as the events that may still come: an effect
may be executed twice, the answer of the first execution may come after the failure of the
second, and an owner may click a card of a phase that is over. That timers commit needs the
ids of all rows to be older than the next id the reducer makes (`NewIdsCommit`), which is
exactly what the cleanup lacks. The assumptions are those of `FeatureAssumption`: positive
intervals and a scan overlap below its interval, which `discovery-workflow.ts:29` demands,
a retention not below the least one, and special values that are no instants.

Two parts of `assistant` are proved at the end of their own modules. `EventDelivery`, for
any events, consumers, workers and channels and any lease, delay and number of attempts,
over both stores: its invariant `EventInvariant` (`DeliveriesAreSound`) and its action
property `DeliveryStep` (`VerdictsAreFinal`). The inductive `DeliverySound` says that a
worker with an event in hand either owns the delivery with the very lease it was given, or
that lease has run out (`ClaimSound`). That survives another worker's upsert because what
that worker saw before it waited for the lock is evaluated again by the statement itself;
what a pass has seen is only ever a set of events that are there. `DeliveryConstants` asks
for a sequence of consumers, not empty, and natural numbers.

`ControlStores`, for any devices, users, requests and bounds: a matter has one owner
(`MatterHasOneOwner` states `MatterHolds`), and every step keeps `StoresStep`
(`StoresStepHolds`). `MatterSound` adds to the property that whoever has been told he has
the matter is in its row for as long (`GrantsSound`), and that the last transfer leads to
the row (`TransfersSound`): a transfer is verified for a while, and only because device,
epoch and inactivity are read again in its transaction is nobody's time cut short. The
accounts need no more than their types. `None` is no row and no transfer, lengths and
limits are natural numbers, the first account is a user's (`MatterConstants`,
`IdentityConstants`).

Only model-checked:

- All liveness, which is out of the prover's reach: `EventuallySettled`,
  `EventuallyDone`, `EffectsSettled`, `TimersServed`, `DispatchedTasksSettle`,
  `RequestsSettle`.
- `NothingForgotten`: it also needs that the notices of failures have fresh ids, and counts
  for every reducer how often its failures may have been told.
- `MonitorsInvariant`, `ServicesInvariant` and `PartsSteps`, conjunctions over thirty-odd
  instances, except for the conjuncts named above. `IdentityHolds` counts attempts with
  `SelectSeq`, which is recursive. Many of the modules (`LarkClient`, `ModuleCatalog`, `PolicyLearning`,
  `RecoveryTarget`) evaluate data, which is bounded in the instances.

## Divergences found

1. A failed clean-up is not retried on its day (`task-maintenance/workflows.ts:211`):
   the retry asks for an effect id that exists, its dispatch throws, and every pass
   of the runtime ends there, although the notice says it is retried in the
   background. `features_cleanup`.
2. Two processes may own the client's state (`client-runtime/client-instance-lease.ts:29`),
   where the comment says a rename makes recovery race-safe. The run shows it with an
   owner that died; one that exits in order may have the same effect. `lease_owner`.
3. An activation that dies while it commits leaves files every later command
   refuses (`client-runtime/client-installed-service.ts:93`), where ADR 0173 says it
   can be reconciled or reversed. `activation_interrupted`.
4. A crash between a migration and its row makes it run again
   (`storage/postgres.ts:114`), where `docs/storage/postgresql.md:31` calls the
   migrations idempotent. `migration_restart`.

Others are behaviours of the models that no run singles out: an action may have
two executors on two processes when a run outlives its lease
(`execution/worker.ts:75` against `docs/requirements-traceability.md:267`); a deadline
later than the scheduled one is left to the recovery scan (`runtime/wake-scheduler.ts:56`
against ADR 0040); a cancelled timer is still dispatched (`workflow/runtime.ts:138`)
and a final failure may never be reported (`:176`, both against ADR 0006); a message
delivered twice at the same time is executed twice (`bridge.js:66` against
`bridge.test.js:43`). The properties are stated so that they hold of the code as it
is, and their comments name such exceptions: the answer of a session that was
interrupted may be another request's, the owner's edit between a read and its
write is lost, output after an exit makes the runtime look ready. Such an exception also
means that the property does not guard against the hazard it exempts; the notes of the
hazards in `PROJECT.json` say which.

## Not modelled, and why

- **Web server, HTTP handlers, transports, codecs, probes, installers, upgrade and
  state recovery of the server:** I/O and sequences of file operations started by an
  operator; what they may do to a call (delay, loss, repetition) is part of the
  modules that make the call. The server's activation and lease are copies of the
  client's.
- **Capability platform and orchestration:** validation and compilation of static
  documents.
- **Meeting briefing, proactive dialogue, references of Blacklake, work journal,
  capability and skill evolution:** evaluation of one input without state another
  step reads. **Network recovery** keeps one promise and one time slot of its own.
- **The accept-only cycle of the client** (`inactive-sync.ts`) and the test servers:
  the worker never calls them.
- **Bridge:** the remaining card actions, the MCP server, the bridge's own
  collaboration learning and proactive conversations, which the native features
  replace.
- **Scripts** that build or check the repository.
- **Single statements of the store** (signals, checkpoints, summaries) appear as
  steps of the parts that call them.

DSH sessions, providers, and the content of requests, cards and prompts are
reduced to their outcomes.

## What could follow

Proofs about the other parts of `assistant` that evaluate no data: `InstanceLease`,
`ServiceActivation`. The composition of `InstanceLease` with `DeviceRun`, where two client processes on one
set of checkpoints would make the revision check matter. ADR 0109 says that a
running state is demoted to paused so that recovery cannot execute it twice, while
the client resumes paused runs by executing them; `DeviceRun` therefore only states
that a *saved* result is not executed again.
