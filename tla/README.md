# TLA+ models of the HSEOS agent kernel and its governed execution core

This directory models, model-checks and proves properties of the parts of the
repository that run concurrently or survive a crash: the boundary every governed
tool call passes, the scheduler in front of it and the read models behind it; the
agent sessions that make those calls, the workflows that fork sessions and the
messages between them; and the catalog imports of the governance control plane.

* [Components](#components) - what the system consists of and where it is hard
* [Modules](#modules) - what is modelled and how it corresponds to the code
* [Runs](#runs) - what TLC checks, with which bounds
* [Fairness](#fairness) - what liveness assumes
* [Proofs](#proofs) - what holds for every value of the constants
* [Findings](#findings), [Observed, not run](#observed-not-run),
  [Not modelled](#not-modelled), [Plan](#plan)

Check a run with `tlc -config <Run>.cfg MC<Module>.tla`, the proofs with
`tlapm <Module>Proofs.tla`. `PROJECT.json` lists the runs, the source
lines of each definition, a mutant of the code for each property, and the
hazards the properties are aimed at.

## Components

HSEOS is a set of Node.js packages, MCP servers and command-line tools. What
runs concurrently, or survives a restart, is in `packages/`, in
`tools/mcp-project-state` and in `tools/managed-governance-control-plane`.
Most of the rest generates, renders or validates files.

| component | state | operations | hard because | correct when |
|---|---|---|---|---|
| Governed execution runtime (`governed-execution/runtime.js`) | none between calls; locals of each call | `execute`, `cancelQueued` | retries and duplicates in several processes; it awaits the approval resolver and the provider; deadline timer; crash between start and outcome; failed terminal append | one dispatch per idempotency key, nothing dispatched before it is durable, no untrue outcome, every call answered |
| Approval store (`execution-approval-store.js`, migration 007) | approvals, uses | `issue`, `get`, `consume` | consumed in one transaction with the ledger append | an approval pays for one operation, the one it was given for |
| Execution ledger (`execution-event-ledger.js`) | events by position and by stream | `append`, `appendBatch`, `readStream`, `readGlobal` | concurrent appends by several processes | compare-and-append, append-only |
| Scheduler (`governed-execution/scheduler.js`) | queue, active set, exclusive flag, barriers, drain waiters | `enqueue`, `cancel`, `close`, `drain` | callbacks in any order; a pump that only some events trigger | isolation, order, no lost wakeup, every promise settles, `close` returns |
| Projections (`execution-projections.js`, migration 006) | generations, checkpoints, rows | `rebuild`, `reconcile*`, `listRuns`, `health` | overlapping workers, a moving ledger, failing batches | rows are a prefix of the ledger, one active generation, readers never go back |
| Contract and event registries | maps, sealed at start | `register`, `resolve`, `validate*` | - | data validation |
| Tool runtime (`tool-runtime`) | active invocations | `execute`, `cancel`, `dispose` | coalesces invocations onto one operation | an invocation is cancelled only on behalf of those who own it |
| Workflow engine, subagent provider, execution supervisor (`agent-orchestration`) | claims and checkpoints in the session store; active children | `run`, `spawn`, `join`, `cancel`, `dispose`, `cancelRoot` | claims expire and are taken over; teardown races spawning; nested deadlines | one owner per claim, no orphaned child |
| Agent runtime (`agent-runtime`) | session events; active work | `create`, `send`, `resume`, `cancel`, `dispose` | crash around tool calls; two runtimes on one session; cancellation against the model stream | intent durable before dispatch, a truthful terminal event, every drive ends the session |
| Session store (`agent-session-store`) | session streams | `append`, `forkSession`, `replay`, `recoveryPlan` | every append is refused that replay would refuse; fork writes two streams | replay of any stored stream is a legal state |
| Message transport (`agent-message-transport`) | messages and their transitions, subscriptions, idle waiters | `send`, `receive`, `acknowledge`, `flushHeld`, `setIdle`, `notifyWhenIdle` | a policy that calls back into the open transaction; expiry, duplicates, restarts | bounded inboxes, nothing overdue, statuses go forward only, one answer per subscription |
| Managed governance client | circuit breaker, snapshots | `resolveShadow` | concurrent queries, timeouts, late answers | snapshots never go back; local stays authoritative |
| Managed governance control plane | catalogs, import batches, artifact versions | `applyImportBatch`, `rollbackImportBatch` | stale plans; batches undone in any order | one line of batches with one active end, the catalog holds what the commit holds |
| Delegated and bound kernels, MCP servers, CLI, installers, dashboards, contracts, providers | processes, files | - | I/O | - |

Interactions. An adapter (`native-mcp-server.js`, `governed-action.js`) builds
one runtime and one scheduler. Callers `enqueue` at the scheduler, which calls
the port's `execute` or `cancelQueued`, that is, the runtime. The runtime
reads the operation's stream, asks the approval resolver, and, in one SQLite
transaction, spends the approval and appends the facts that authorize and start
the operation; then it dispatches to the provider, appends one terminal fact at
version 2 and asks the projections to catch up. Several processes may have the
same database open, so the only thing that orders two calls is a transaction.

An agent runtime drives a session: it appends to the session's stream, consumes
the model stream, and hands tool calls to the tool runtime, which enqueues them at
the scheduler. The subagent provider forks child sessions of a parent session and
drives each with an agent runtime; the workflow engine spawns and joins them in
groups, under a claim it keeps in the parent's stream; the supervisor cancels a
session with all workflows and children that hang on it. Agents send each other
messages through relays over one SQLite store. The control plane stands apart: its
clients ask it over HTTP, and its state is in PostgreSQL.

## Modules

| module | models | proofs |
|---|---|---|
| `AtMostOnceOperation` | abstract specification: what the boundary promises about one operation | |
| `GovernedExecution` | runtime, approval store and the execution streams of the ledger | `GovernedExecutionProofs`, `GovernedOutcomeProofs` |
| `GovernedScheduler` | the scheduler, with the port as its environment | `GovernedSchedulerProofs` |
| `ExecutionProjections` | generations, checkpoints and rows over the global stream | `ExecutionProjectionsProofs` |
| `AgentSession` | one session: its stream under the rules of replay, and the runtimes that drive it | `AgentSessionProofs` |
| `WorkflowOrchestration` | one workflow under a parent: engine, subagent provider and supervisor | `WorkflowOrchestrationProofs` |
| `MessageTransport` | local relays over one message store | `MessageTransportProofs` |
| `CatalogImport` | import batches of one repository in the control plane | `CatalogImportProofs` |
| `MC*` | constants for TLC | |

### GovernedExecution

`stream[o]` is the ledger stream of an operation, `approvals` and `used` are the
two approval tables, and `pc[c]` says where a call is suspended:

| `pc` | the call is | leaves by |
|---|---|---|
| `idle` | not yet made | `Submit` |
| `govern` | validating, asking authority and policy | `Deny`, `ReadExisting` |
| `resolve` | awaiting the approval resolver | `ResolveApproval` |
| `authorize` | about to run the start transaction | `AppendStart`, `StartFails` |
| `started` | past the durable start facts | `CancelBeforeDispatch`, `Dispatch` |
| `dispatched` | awaiting the provider or the deadline timer | `ProviderReturns`, `ProviderThrows`, `DeadlineFires` |
| `record` | about to run `cancelQueued`'s one append | `RecordCancellation`, `CancellationFails` |
| `done`, `crashed` | answered; its process died | |

Choices the model makes:

* Calls interleave between any two transactions, even where the code of one
  process would go on in the same turn, because another process may hold the
  database in between.
* `Crash` takes down one call. A process crash takes down all calls of a
  process, which is a sequence of such steps.
* Every append of a terminal fact may fail for a reason of its own
  (`Conclude`), and so may every start transaction (`StartFails`).
* `provider[c]` is the world, not the runtime's view of it: a dispatched
  provider may have its effect (`ProviderPerforms`) at any time, also after the
  runtime timed out or died. A provider that answers with valid output has had
  its effect, and one that *declares* `failed` or `cancelled` will not have
  it; that is the contract the code relies on at runtime.js:607. Everything else a
  provider may do is open: throw or answer garbage after its effect, never
  answer, ignore its signal.
* Time is two facts per call and approval: `lapsed[c]` and `window[a]`.
* A scope stands for actor, resource scope, input digest, capability and
  versions, which `_readExisting` compares one by one; `Resource` is the part of it an
  approval is bound to. The causation id is kept apart because its default
  differs between the two methods (`TraceOf`).
* The reply is the class of the envelope. `deadline` is the pre-dispatch
  `EXECUTION_DEADLINE_EXCEEDED`; `rejected` is any failure without a fact.
* The projection refresh after an outcome cannot change the outcome (it is
  caught and becomes a warning), so it is a reconcile in `ExecutionProjections`.

### AtMostOnceOperation

Two variables per operation, `status` and `effect`: it is begun once, its effect
is released once and happens once, and it is concluded once, by an outcome that
is true of the effect or says that it is uncertain. `GovernedExecution` maps
`status` to the last fact of the stream and `effect` to what became of the
provider of whichever call was dispatched; `ImplementsOperation` is the refinement.

### GovernedScheduler

Each action is one turn of the event loop: a public method, or a continuation of
a port promise. `Pump` is `_pump`; it is part of every action whose code ends
in it, never an action of its own. A promise that resolves and the `finally` that
follows are two turns (`PortAnswers` and `Release`, `CancellationPersisted` or
`CancellationFails` and `CancellationReleased`), because another callback can run
between them. An item whose contract cannot be resolved is exclusive, as in the
code. `drain()` is modelled through `close()`, its only caller. `Withdraw` is the
queue without some items, said by the rank of each that stays, not by a recursion.

### ExecutionProjections

The ledger is the global stream; `Foreign` aggregates are the other families in
it, which move checkpoints without being projected. A worker is an invocation of
`rebuild` or `reconcileGeneration`; each of its steps is one statement or one
IMMEDIATE transaction, and it can die between any two. `CommitBatch` is
`_applyBatch`: rows and checkpoint together, or, if the checkpoint moved,
nothing. The `open`, `read`, `apply`, `activate` of `worker[w].pc` are the status check,
the two reads, the batch and the activation transaction.

Whether a worker ends is a matter of what the ledger does: while full batches keep
arriving, the loop of `reconcileGeneration` (288-302) goes on, in the code as in the
model, and nothing in the repository promises otherwise. What can be said for every ledger
is `WorkDiminishes`: a step of a worker begins its next round, and those are counted, or
leaves it less to do in this one (fewer events, or as many and fewer statements to its
next batch), and other workers never add to it. So between two appends every worker
takes finitely many steps, and one that is run to the end ends once the
ledger rests or a batch comes out short.

### AgentSession

`turns`, `steps`, `exec`, `cancellation` and `terminal` are what replay makes of
the stream (`turn_order`, `model_steps`, `tool_executions`, the cancellation
request, the terminal event). A runtime works in synchronous turns between awaits;
`pc[r]` is the await its drive is at. Within a turn each append is a transaction of its own.
The runtimes belong to one process at a time, so no other comes between two appends of a turn, but
a death does: `Crash` is one at an await, and the `Dies*` actions are those between two appends:
in the middle of a settlement (`SettlePart`: so many turns closed, then some executions
marked as in doubt), after a step was closed (`DiesClosing`) or a call was marked
(`DiesDoubting`) and before the session's failure, after the context and before the step,
after the start of a call and before its dispatch, and after a cancellation request.
`requests` says which turns have a context, which such a death may leave behind.
`Unequipped` are the runtimes whose registry may lack the session's provider: `ProviderMissing`
throws with the step open (runtime.js:573) and leaves it so. An append replays the whole stream first, so
`OpenWork` and the other rules of replay.js decide whether it throws, and each action
says what its caller does then.

Choices: turns are named by their place; the reply `failed` stands for a reply cut
at its length as well, and the source `user` for `dispose`; deadlines may strike
at any await; `create` is the initial state; context assembly and compaction only
appear as a failure of the drive; the step-less streams of the older format are left
out. The governed tool is seen from outside: what it answers is the business of
`GovernedExecution`, and so is that it does.

### WorkflowOrchestration

The parent's stream is `claim`, `expired`, `released`, `checkpoints`; a child is its
own session, reduced to what others can see of it. Each run is one process with an
engine, a provider and a runtime of its own; processes share only the store.
`pc[r]` walks through `run()`: reserve or reclaim, then for each group of each phase
spawn, join, then checkpoint, release, and in `catch` the teardown.
A spawn is two steps, the look at the claim (`SpawnChecks`) and the fork
(`SpawnForks`), which are transactions of their own: `pc[r] = "checked"` is between them, where
another process may take the claim over, release the workflow or append to the parent, which
makes the fork fail or not, but never asks for the claim. The spawns of a group are called one
after the other without an await, so nothing else of that process happens meanwhile
(`MidTurn`); `called[r]` are those already called.
`kids[r]` is `active.children`, `spawned[r]` the pending group, `teardown[r]` the
memoised promise, `task[r]` the provider's map of tasks, `sup` how far
`cancelRoot` has come.

Choices: one workflow per parent, children have no children; a run is one request
identifier in one process; processes interleave between awaits, the microtasks of
`cancelRoot` in one; failed and cancelled children are `ended`; a lost claim and any
other throw are `error`. The ceilings and manifests checked before the reservation
are a run that does not begin, and a completed workflow is not run again.
A claim expires only while some run is still to begin, which alone would see it (`ClaimExpires`).
`Unsteady` bounds which processes may be disposed or die.

### MessageTransport

Each operation is one immediate transaction and therefore one action, with one
exception: `send` and `flushHeld` call the inbound policy inside the transaction,
and the policy may call relays of its own process. `tx` is such an open transaction, `work` the rows it
sees, `store` the committed ones; a nested call is a savepoint and disappears when
the outer transaction is rolled back. `lastNow` is the relay's guard against a clock
that goes back.

Choices: the relays of one process read one clock, so a nested call is never
earlier than `tx.at` (without that, `NoneOverdue` is false: a nested relay with a
clock of its own can leave a row behind the time of the outer one); clocks of
different processes are related only by what the code compares; nested calls call
nothing in turn; the policy does not wait for idleness or change it; a flush decides
in any order; one agent is waited for. The bounds of a whole store (messages,
subscriptions, 1024 waiters) and the remote relay, which forwards, are left out.

### CatalogImport

`Item` is `buildImportItems` with its rename detection, `Apply` and `Rollback` are the
transactions of the PostgreSQL repository under their advisory lock. A plan is a
commit and the catalog it was made on, and may be applied at any later time; a
refused or stale plan, or a commit imported before, changes nothing. `fresh`
remembers, for the properties only, whether a batch and those below it were
applied to the catalogs they were planned on. `Recorded` says at once what the loop over
the sources does one by one: each artifact gets the contents it never had
(`Novel`) as its next versions, in the order of the paths (`Nth`).

Choices: one repository and organization, one importer version and profile, so one
batch per commit; one artifact type per path; artifacts without id and slugs that
clash are left out. Two paths sharing an artifact is real: the two
constitution files of the repository have one artifact id.

## Runs

| run | bounds | checks |
|---|---|---|
| `GovernedExecutionRace` | three calls, one cooperative mutation, two scopes | `TypeOK`; `AtMostOneDispatch`; `ReplyAgreesWithLedger`; `DefiniteOutcomeIsTrue`; `HistoryImmutable`; `ImplementsOperation` |
| `GovernedExecutionMixed` | two calls over three contracts, two resources, one approval, granted or denied | `DispatchAfterDurableStart`; `ApprovalBinding`; `EveryCallSettles` |
| `GovernedSchedulerSafety` | five items (one exclusive, one non-cancellable), two may run, three may wait, two closers, every mode of `close` | `TypeOK`; `ExclusiveIsolation`; `Bookkeeping`; `NoLostWakeup`; `DrainIsHonest`; `CancellationIsBarrier`; `NothingOvertakes` |
| `GovernedSchedulerLive` | the same items, one closer with the mode the adapters use | `HandlesSettle`; `CloseReturns` |
| `GovernedSchedulerStranded` | as above | `EveryHandleSettles`, violated: see Findings |
| `ExecutionProjectionsSafety` | two workers, two generations, three events, batches of two, two rounds | `TypeOK`; `ProjectsAPrefix`; `AtMostOneActive`; `ViewNeverRegresses`; `WorkDiminishes` |
| `AgentSession` | two runtimes, two turns, replies asking for two calls, two model steps with one event, one death at any point, one runtime without the provider | `IntentBeforeDispatch`; `UnansweredToolFailsSession`; `CancellationIsFinal`; `DriveEndsUnlessAbandoned`; `CancellationSettles` |
| `WorkflowOrchestration` | two runs, a pipeline of two children, the run without the supervisor may die | `CompletedIsComplete`; `RootStaysSettled`; `OwnChildrenSettled`; `LateForkIsLast`; `RunsEnd` |
| `WorkflowOrchestrationOrphan` | the same with both children in one parallel group | `NoOrphanLeft`, violated: see Findings |
| `WorkflowOrchestrationFence` | as `WorkflowOrchestrationOrphan` | `SpawnFenced`, violated: see Findings |
| `MessageTransport` | two agents, three messages under one key of their sender, inboxes of one, two sends a window | `InboxBounded`; `NoneOverdue`; `OneShot`; `NeverUndone` |
| `CatalogImport` | four commits over six trees, three paths of two artifacts, three contents, one of them unparsable | `ChainStands`; `CatalogHoldsSource`; `ArtifactsFollowCatalog` |

Why the bounds are enough. Three calls are an execution, a duplicate that loses
the race, and a retry or cancellation after a crash; operations do not
interact except through an approval, so one operation is enough for the race and three
contracts (read-only, mutation with and without approval) for the rest. One
approval shows every state of an approval; that two approvals cannot pay for one
operation is proved, not run. A queue of three with an exclusive and a
non-cancellable item shows each kind waiting before and behind the others, a
full queue, and overlapping cancellations. Batches of two over three events give a
full batch, a short one and an empty read; two generations give a replacement.
That the ledger stops at three events hides nothing: none of the properties speaks of
an end, and all are proved for any bound.
`MaxEvents` and `MaxGeneration` bound the model only; `MaxRounds` is
`max_rounds`. Two runtimes and one death are a runtime that died, the one that
resumed, and a call by either (a second death is covered by the proofs); two turns are the least for work left open by an earlier one.
Two runs and two children give a takeover before, in the middle of, between and after two
spawns. A parallel group with all its interleavings and liveness is too large to run; the
runs on `OnePhase` have one, and the proofs cover any workflow.
An inbox of one is full with one message, and a key that two messages share is a
duplicate. Four commits give a line of four batches, or one that is undone and continued differently.
`MaxSteps`, `MaxEvents`, `MaxCrashes`, `Unsteady` and `MaxTime` bound the models only. Deadlock checking
is off: each of the systems may come to rest when all calls are answered or a
bound is reached.

What the properties say beyond the obvious:

* `ReplyAgreesWithLedger`: a caller's definite answer is what every later reader
  of the ledger finds, and a rejection means that the call left nothing behind,
  so that it may be repeated.
* `DefiniteOutcomeIsTrue`: a mutation recorded as failed or cancelled has not
  happened *and never will*, although providers outlive calls.
* `HistoryImmutable`: nobody but the call that started an operation concludes it.
* `NoLostWakeup`: a queued item always has a reason to wait, one whose end pumps.
* `CancellationIsBarrier`: between asking for a queued cancellation and its
  durable answer nothing starts; after a refused one nothing ever starts.
* `ViewNeverRegresses`: replacing the active generation never loses an event a
  reader has already seen.
* `UnansweredToolFailsSession`: a session in which a tool may have acted unseen
  does not end as completed, nor as cleanly cancelled. It holds for the first turn
  only, and unless a runtime died between two particular appends, and says so.
* `WorkDiminishes`: a conflict costs a worker nothing that another one has not done for
  it, and a ledger that moves never makes it read a batch again.
* `LateForkIsLast`: once a workflow is released nobody begins a spawn; what is still
  forked is the one child a run was about to fork, since nothing fences that
  (`SpawnFenced`, see Findings).
* `DriveEndsUnlessAbandoned`: a drive that nobody interferes with leaves the session with
  its outcome, also when it resumes what a death cut at any point; the two exceptions
  are described under [Observed, not run](#observed-not-run).
* `OwnChildrenSettled`: whichever of spawn, join, teardown, cancel and takeover met,
  a run that returns has no live child of its own.
* `NoneOverdue`: every operation expires what its own clock says is late, also in
  the middle of another one.
* `NeverUndone`: a flush decides on messages it read before the policy acted, and
  still never takes an answer back.
* `ChainStands`: predecessors, flags and the pointer are written in separate
  statements and undone from whichever batch is active, and stay one line.
* `CatalogHoldsSource`: an entry whose source did not change keeps its version; that
  is right only if the plan was made on the catalog it is applied to (`fresh`).

## Fairness

* `GovernedExecution`: weak fairness of each call's own steps and of its
  deadline. The event loop runs what is ready, the approval resolver and the
  policies answer, clocks advance. Nothing is assumed of providers: a provider may
  never answer, which is what the deadline is for. Crashes never have to happen.
* `GovernedScheduler`: weak fairness of the continuations, that is, the port
  answers every call. For the runtime as port this is `EveryCallSettles`. Nothing
  is assumed of callers.
* `AgentSession`: weak fairness of each runtime's own turns (`Drive`) and of the
  provider and the tool (`Answer`): a model stream ends or is aborted by the deadline,
  and a governed tool call settles, which is `EveryCallSettles`. Callers and deaths are free.
* `WorkflowOrchestration`: weak fairness of each run's steps and of the join
  timer; and of the end of a driven child (`TaskEnds`). The latter is an assumption in its own
  right, and `RunsEnd` leans on it: the wait after a cancellation (local-subagent-provider.js:212)
  has no deadline, so a run ends only if the drives of its children do. A drive ends if its
  provider and its tool answer or give way to the deadline (`CancellationSettles` and the fairness behind it);
  `DriveEndsUnlessAbandoned` only says with what it ends.
* `ExecutionProjections`, `MessageTransport` and `CatalogImport` state no liveness: the operations
  of the latter two are transactions, and what can be said of the first is `WorkDiminishes`.

## Proofs

Every invariant, every action property and the refinement that the runs check is
proved, for every value of the constants that satisfies the named `ASSUME`s; TLC
checks the same on a small instance and evaluates the assumptions there.

| module | theorem | states |
|---|---|---|
| `GovernedExecutionProofs` | `TypeCorrect` | `Spec => []TypeOK` |
| | `DispatchedAtMostOnce` | `Spec => []AtMostOneDispatch` |
| | `LedgerNeverRewritten` | `Spec => HistoryImmutable` |
| | `ApprovalsBound` | `Spec => []ApprovalBinding` |
| | `DispatchIsAuthorized` | `Spec => []DispatchAfterDurableStart` |
| `GovernedOutcomeProofs` | `OutcomesAreTrue` | `Spec => []DefiniteOutcomeIsTrue` |
| | `RepliesAreTrue` | `Spec => []ReplyAgreesWithLedger` |
| | `ImplementsAtMostOnce` | `Spec => ImplementsOperation` |
| `GovernedSchedulerProofs` | `TypeCorrect` | `Spec => []TypeOK` |
| | `Isolation` | `Spec => []ExclusiveIsolation` |
| | `BooksAgree` | `Spec => []Bookkeeping` |
| | `WakeupsKept` | `Spec => []NoLostWakeup` |
| | `DrainsAreHonest` | `Spec => []DrainIsHonest` |
| | `BarrierHolds` | `Spec => CancellationIsBarrier` |
| | `FifoHolds` | `Spec => NothingOvertakes` |
| `ExecutionProjectionsProofs` | `OneActiveGeneration` | `Spec => []AtMostOneActive` |
| | `ReadersNeverGoBack` | `Spec => ViewNeverRegresses` |
| | `WorkRunsOut` | `Spec => WorkDiminishes` |
| | `PrefixesOnly` | `Spec => []ProjectsAPrefix` |
| | `ProjectionsAreTyped` | `Spec => []TypeOK` |
| `AgentSessionProofs` | `IntentIsDurable` | `Spec => []IntentBeforeDispatch` |
| | `CancellationHolds` | `Spec => CancellationIsFinal` |
| | `UnansweredFails` | `Spec => UnansweredToolFailsSession` |
| | `DrivesEnd` | `Spec => DriveEndsUnlessAbandoned` |
| `WorkflowOrchestrationProofs` | `CompletionIsReal` | `Spec => []CompletedIsComplete` |
| | `CancelledStaysSettled` | `Spec => []RootStaysSettled` |
| | `ReturnsSettled` | `Spec => OwnChildrenSettled` |
| | `ReleaseIsTheEnd` | `Spec => LateForkIsLast` |
| `MessageTransportProofs` | `InboxesBounded` | `Spec => []InboxBounded` |
| | `NothingOverdue` | `Spec => []NoneOverdue` |
| | `AnsweredOnce` | `Spec => []OneShot` |
| | `StatusGoesForward` | `Spec => NeverUndone` |
| `CatalogImportProofs` | `ChainAlwaysStands` | `Spec => []ChainStands` |
| | `CatalogsHoldTheirSources` | `Spec => []CatalogHoldsSource` |
| | `ArtifactsAlwaysFollow` | `Spec => []ArtifactsFollowCatalog` |

Assumptions. They type the constants and keep the value that stands for "nothing"
(`None`, `NoTrace`) apart from what it is compared with: `NoReplyAssumption`,
`NullAssumption`, `NoTransactionAssumption` and the last lines of `CatalogAssumption`.
Nothing is assumed of contracts, plans or schedules. Two go further:
items and calls are finitely many, and a phase of a workflow
has at least one step, which `orchestration-contracts.js:117` demands
(`steps.min(1)`); a phase without steps would write a checkpoint with no child behind it.

**The ledger** (`GovernedExecutionProofs`). `AtMostOneDispatch` says nothing of the
ledger, so it is not inductive. The strengthening is `StartInv`: a call that is started or
dispatched, and one that ever was dispatched, is the call whose two start facts
stand first in the operation's stream (`Started`), and while it has not
concluded the stream is exactly those two. The facts carry the call that
committed them, so two started calls of one operation are one (`StartedOnce`).
The version-0 append makes `Started` true of one call on an empty stream, and
since streams only grow (`LedgerSteps`: every step appends start facts, appends
one terminal fact, or leaves the ledger alone) nothing makes it false again.
`LedgerNeverRewritten` follows from the same invariant: the terminal append
compares with version 2, so the stream it extends is the two start facts of
the call that appends.

`ApprovalBinding` needs more: `ApprovalInv` says which calls hold an approval id,
so that a cancellation never cites one; `BindingInv` says that an approval is
used by an operation exactly when the operation's first fact cites it, and then
is a granted row for that operation and resource. The start transaction
establishes both sides at once (`NewUse`); every other step keeps first facts,
rows and uses (`FirstFact`, `RowsImmutable`, `OldUses`). `DispatchIsAuthorized`
joins the two invariants.

**Outcomes** (`GovernedOutcomeProofs`). `ShapeInv` says that a stream which is not empty
is an authorization, a start and at most one terminal fact. What is true of the
provider when that fact is appended stays true, because a provider that performed
or stopped never moves again, and no other call is dispatched (`StartedOnce`).
For replies, `AuthorInv` says who wrote the facts: a call that is rejected or refused
wrote none, and nobody writes after it was answered. The refinement maps each
step to at most one step of one operation: appending start facts to `Begin`, a dispatch
to the release, the provider's act to the effect, a terminal fact to its conclusion;
`ProviderInv` (between dispatch and outcome the provider runs or has performed) gives
the conclusion its guard, and `OthersKept` that other operations stutter.

**Scheduler** (`GovernedSchedulerProofs`). `Inv` is `Consistent` (queue, active set, flag,
barriers and states describe one and the same situation), the bound on the queue and
`ShutdownInv` (a waiting `close` has stopped the scheduler, a failed cancellation has
emptied it), with `NoLostWakeup` and `DrainIsHonest`. The pump is treated once:
from any consistent books it starts a prefix of the queue, leaves consistent books
and stops for a reason; each action is shown to hand it consistent books, or to
leave such a reason standing. `Withdraw` keeps the order of what it keeps, which with the
prefix gives `NothingOvertakes`.

**Projections** (`ExecutionProjectionsProofs`). `ViewInv` adds to `AtMostOneActive` that
checkpoints, and the batches workers have
read, stay within the ledger (`Bounded`). A checkpoint is then never ahead of the
high-water mark, so a generation that takes over at it is at least as far as the one
it retires, and the compare on the checkpoint makes every commit a step forward. All other
steps promote nobody (`Demoted`) and keep the checkpoints (`Advanced`), which is
what `Undisturbed` takes. For `WorkDiminishes`, `WorkInv` says that a batch at hand holds
events and begins where the checkpoint was or before: a commit then passes at least one event, and
a conflict means that the checkpoint has passed the batch's beginning. `RowsInv` says what the rows are: those of a generation whose
checkpoint is n are `Prefix(n)`. A batch that starts at the checkpoint makes the longer
prefix of it (`BatchExtends`), event by event (`ApplyExtends`; the sequence number
of each next event of a stream is larger, so none is skipped), and an append changes
no prefix that is there (`PrefixKept`). The fold over the batch is unfolded by the
least counterexample (`LeastNatural`, `EveryNatural`), since induction over an operator
is out of the prover's reach. `SizesInv` adds the bounds for `TypeOK`.

**Sessions** (`AgentSessionProofs`). `Inv` types the stream and the memory of the
runtimes, and every call that was dispatched is on the stream. How a session ends needs
`OrderInv`, which holds as long as it has not ended: in each turn only the last step has
work under way, either the step itself or the first of its calls without an outcome
(`Ordered`), and later turns are untouched; drives are at turns that were sent; and a
drive that has the session to itself is at the last step of the last turn. `Ordered` holds
for any number of runtimes, because replay refuses what would break it: a drive that goes
through calls of a step which another one has continued finds nothing pending
(`PendingIsLast`). So when such a drive fails, closing its step or marking its call leaves nothing
open but in older turns (`NothingOpen`), and replay takes the terminal event. The exception
for a missing provider needs nothing more: that step leaves an unopened step behind, which is
what the property says. A death between two appends closes steps and marks calls in the order
of the settlement, which keeps `Ordered`. A call that threw while there is one turn fails the
session in the same turn of the runtime, so one that is left marked as in doubt
was left by a death (`crashes > 0`).

**Workflows** (`WorkflowOrchestrationProofs`). `RunInv` holds of each run: where it is
(`PlaceOK`), what the holder of the claim has checkpointed (`ClaimOK`), that the
groups before its own have completed (`DoneOK`), and that its children have, but for
the group it is at (`KidsOK`). `CheckpointsInv` is `CompletedIsComplete`; it survives
a takeover because `ClaimOK` and `DoneOK` are about children, not about who forked them, and
children that ended stay as they ended (`Grows`). `RootInv` adds to
`RootStaysSettled` that the supervisor's answer came after its own tasks, and
that a parent that ended attaches no child. A run in the middle of a group holds no
promise about the claim, only about what it has called (`CalledType`); `LateForkIsLast` follows
from `ClaimOK`: the holder of the claim of a released workflow has returned or was cancelled, so
it never reaches the look at the claim again.

**Messages** (`MessageTransportProofs`). `RowsInv` relates the committed rows to those the
open transaction sees: both respect the bounds, the latter are fresh at the
transaction's time, and what has ended in the former has ended in the latter. Each operation is
a function of the rows, so what it returns is stated once (`SentResult`,
`FlushedResult`, ...), for nested calls and for calls of their own. `PresenceInv` says that
an answered subscription is claimed and waits no more.

**Imports** (`CatalogImportProofs`). `ChainStands` is inductive once the batches have their
types (`ChainInv`). Applying a batch puts a new commit on top of the active one
(`ApplyExtends`); rolling back takes the active one off and returns to the one it
stood on, which nothing else stands on (`RollbackShortens`). `CatalogsInv` strengthens
`CatalogHoldsSource`: the version of an entry is there and holds its content (`IsBound`), which
later imports keep because versions are only appended. A fresh batch binds what did
not change to what the catalog below it binds, and what changed to the version
`Recorded` appends or has. `ArtifactsFollowCatalog` is inductive by its side, on all plans.

Only model-checked: liveness (`EveryCallSettles`, `HandlesSettle`, `CloseReturns`,
`CancellationSettles`, `RunsEnd`), which rests on fairness and
`ENABLED`, out of the prover's reach. The three violations are TLC's as well.

## Findings

**A request that cannot be cancelled may be stranded by `close()`**
(`GovernedSchedulerStranded`). `close({cancelQueued: true, cancelRunning: true})`,
as the native MCP server and the governed CLI actions call it, withdraws the
cancellable requests from the queue and leaves a non-cancellable one. While the
withdrawn ones are cancelled the barrier holds the pump back; when the last of
them is released and nothing is running, the `finally` at scheduler.js:310 does
not pump, because the scheduler no longer accepts, and only tries to resolve
the drain, which fails because the queue is not empty. The request is never
started, its promise never resolves, and `close()` never returns, although
`packages/tool-runtime/README.md:13` calls the promise the source of the eventual
terminal outcome. `HandlesSettle` and `CloseReturns` hold with exactly this case
excepted. A second `close({cancelQueued: true})` would pump and start it. With
`close()` and no options, which nothing in the repository calls, even a cancellable
request behind a cancellation is stranded in the same way.

**A workflow that was taken over may leave a child nobody drives**
(`WorkflowOrchestrationOrphan`). A run dies after forking a child; another one
reclaims the workflow, and one of its spawns is refused before it has adopted
that child. Its teardown and its orphan check (workflow-engine.js:412-423) go over
`active.children`, the children it spawned itself. It releases the workflow as
failed, after which nobody may reclaim it, and the child stays without a terminal event
and without a driver, where `packages/agent-orchestration/README.md:7` says
"returning with an active orphan is forbidden". `OwnChildrenSettled` is what does hold.

**A spawn is not fenced by the claim** (`WorkflowOrchestrationFence`). `#spawn` looks at the
claim (workflow-engine.js:251) and then lets the provider fork the child. The fork is a
transaction of its own: `forkSession` reads the parent again and appends at the version it finds
(session-event-store.js:402, 436), and replay accepts `child.attached` whoever holds the claim
(replay.js:619-630). A run whose claim expires and is taken over in between still forks, where
`packages/agent-orchestration/README.md:9` says "spawn, checkpoint and release remain
fenced by the captured claim", and the A8 checkpoint says the same. Checkpoint and release do
carry the claim. What holds is `LateForkIsLast`.

## Observed, not run

Met while modelling; the models are built as the code is, and their properties
say where they except it.

* *A new turn over unsettled work.* After a crash, `send` opens a new turn while an
  older turn still has an open model step or tool execution. The new drive settles
  its own work only, replay refuses every terminal event while older work is open
  (replay.js:134), so `send` rejects and the session has no outcome until somebody
  cancels it (runtime.js:1027; `packages/agent-runtime/README.md:10` promises
  replay, resume or fail closed). `Abandoned` is this case, and the reason why
  `UnansweredToolFailsSession` speaks of the first turn.
* *A death between an outcome in doubt and the failure it means.* The settlement of a cancellation
  records every open execution as uncertain (runtime.js:383) and only then fails the session (415);
  a call that threw is recorded (720) and then the session fails (727). After a death in between, the
  next drive finds an execution that has its outcome: it cancels the session cleanly, or goes on with
  the turn, which may complete. Nobody remembers that the outcome was in doubt but the
  stream. `AnsweredStep` excepts exactly this: an outcome already in doubt, and a death.
* *A resume without the provider.* `#streamStep` looks the provider up outside its `try` (573). If the registry of
  a resuming process lacks it, the drive throws with the step open, its catch cannot fail the session
  (replay.js:134), and the session waits for a process that has the provider or for a cancellation (`Unopened`).
* *Cancelling a workflow releases it first.* A crash between the release and the
  teardown leaves children that no run may reclaim.
* *Renames end in refusal.* After a rename the catalog entry keeps the artifact id
  that was derived from its old path. Every later plan that keeps the file derives the
  id anew and is refused (repository-port.js:276-297), a re-import of the same
  commit included; ambiguous renames are refused at once. In the model such plans
  change nothing.
* *One key, two methods.* A retry of an `execute` by `cancelQueued`, or the reverse, has another default
  causation id (runtime.js:455 and 319) and is answered with a scope conflict instead of the recorded
  outcome. `ReplyAgreesWithLedger` permits it, since that answer claims no outcome.
* *A stale plan is not always noticed.* `IMPORT_PLAN_STALE` is raised for a missing
  entry only; a `noop` planned on another catalog binds the source to a version with
  other content (governance-repository.js:294-305). Hence `fresh`.
* *A re-import reports a batch that is not active.* The commit of a superseded or rolled-back
  batch returns the report stored then (199-212); a rolled-back commit is never imported again.
* *Rollback publishes drafts.* Returning to a catalog marks all its artifacts
  published (550), those of unparsed sources included; the in-memory repository marks them drafts.

## Not modelled

* Contract and schema validation, envelopes, redaction, hashing, contexts,
  compaction, policy lattices, lineage: functions of documents, without
  interleaving.
* Metrics and `snapshot()` of the scheduler, `listRuns` and `health` of the
  projections: they read.
* `appendBatch`, archiving and idempotent re-appends of the ledger; of the
  session store its tables, exports and the recovery plan of compactions. A fork is the
  attachment of a child in `WorkflowOrchestration`. Event ids of executions are fresh.
* The tool runtime: it coalesces only invocations of one session, turn and tool call
  (`operationSignature`), so what is shared has one owner; and the managed governance
  client, whose answers are advisory beside the local result. Both are in the Plan.
* Of the control plane: readiness, shadow and release evidence, which is only
  inserted, authorization, and the HTTP server. The in-memory repository is not the one modelled.
* A clock that throws. Between the start facts and dispatch (runtime.js:557) it
  would make a started operation answer as a rejection; the operation stays in
  doubt in the ledger.
* Durable events for requests the scheduler drops when it halts: the code
  writes none, and the scheduler module has no ledger to show it.
* Process supervision, MCP transports, HTTP, CLIs, installers, dashboards: I/O.

## Plan

1. `ToolRuntime` over `GovernedScheduler`: coalescing, cancellation and dispose by
   one of several invocations; a composition in which the port is
   `GovernedExecution` for a few operations, so that halts can be held against the ledger.
2. `GovernanceClient`: circuit breaker, retries and snapshot promotion under concurrent
   queries.
3. `forkSession` as one batch over two session streams, with appends to either
   under way; children of children under the supervisor.
4. Proofs: what the liveness properties rest on, as far as it is a matter of steps, as
   `WorkDiminishes` does for the projections: the places of a call or a run only go forward, so that
   nothing but the fairness is left to TLC; the same invariants for the modules above,
   first that invocations of one owner share an operation, and the composition's
   refinement of `AtMostOnceOperation` through the scheduler.
