# A TLA+ model of OpenGameAgent

OpenGameAgent runs language-model characters inside games. A host process keeps
one *runtime* per session; every character is an *actor* with an agent, a durable
transcript and a lane of runs; what a character does to the game world is an
*Action*, kept in a durable journal and executed by the game engine. This
directory models the parts of that system whose correctness depends on
interleavings, failures and retries, checks them with TLC and proves what matters
most with TLAPS.

Contents: [inventory](#inventory) · [modules](#modules) · [runs](#runs) ·
[bounds](#bounds) · [fairness](#fairness) · [findings](#findings) ·
[other observations](#other-observations) · [proofs](#proofs) ·
[not modelled](#not-modelled) · [plan](#plan)

## Inventory

Paths are under `src/packages/` unless they start with `src/`.

| Component | State | Operations | What is hard | What makes it correct |
|---|---|---|---|---|
| Action journal (`actions`: `in-memory-journal.ts`, `transitions.ts`, `validation.ts`) | one record per operation (status, attempt, claim, receipt, goal settlement), conflict barriers, admission order | `ensure`, `nextDelivery`, `recoverDelivery`, `recordReceipt`, `reconcile`, `settleGoalProjection`, `purgeTerminal` | leases that lapse while the game still executes; late, repeated and lost receipts; runs closed in flight; actors contending for keys | one effect per Action, truthful outcomes, exact barriers, settled is final, no claim held for ever |
| Action coordinator and tool (`coordinator.ts`, `reliable-action-tool.ts`, `change-notifier.ts`) | waiters, leases | `submit`, `waitForSettlement`, polling | a change between a read and the wait for it | no lost wakeup; a tool result reports what became of the Action |
| Approvals (`approvals.ts`) | request with a revision: pending, approved, rejected, consumed, expired | `request`, `decide`, `consume`, `expire`, `purgeTerminal` | expiry racing a decision; a stale revision | an approval is consumed at most once, and only as decided |
| Goal projection (`action-goal-projector.ts`, `extensions/goal-*.ts`) | goals with revisioned steps | `projectPending`, `advanceFromHost` | a crash between advancing and settling | a goal advances exactly once per succeeded Action |
| Runtime (`runtime/src/runtime.ts`) | registered actors, lanes, ready list, counters, admission state, retirements, closures | `registerActors`, `retireActor`, `start`, `submit`, `resumeDeferred`, `abandonDeferred`, `abortRun`, `abortAll`, `stopAdmission`, `waitForIdle` | one FIFO mutex held across awaits, and synchronous entry points that do not take it; failing appends; the drain | bounds, FIFO lanes, no lost wakeup, no run lost or started twice, exact drain |
| Event store and delivery (`in-memory-event-store.ts`, `bounded-async-queue.ts`, the event stream of `server`, the reader of `client`) | canonical events per stream, run projections, closed authorities; one bounded queue per subscription | `append`, `closeAuthority`, `purge`, subscribe, replay, reconnect | purges and overflow between two reads; a stream that breaks anywhere | one end per run; every visible event once and in order, or a reported gap |
| Game agent and durable transcript (`agent/src/game-agent.ts`, `durable-transcript.ts`, `durable-tool-execution.ts`, `transcript-*.ts`) | active run, deferred operation, records under a revision | `start`, `resumeDeferred`, `abandonDeferred`, `abortRun`, the loop, `restore`, compaction | a crash, a lost answer or a failed append between any two writes; transcript and events are two stores | every restore is accepted; no tool takes effect before its intent is on record; both stores agree |
| Delegation (`delegation`) | delegations, leases, table of active child runs | `run`, `recover`, `cancel`, `renew` | overlapping workers; the child outlives its lease; foreground nesting holds slots | the last holder settles; capacity is returned; no nest waits on itself |
| Schedules, mailbox, signals (`extensions`) | revisioned records, leases, retirements | create, advance, claim, renew, complete, abandon, cancel, retire, purge | duplicated calls, expired leases, clocks that run backwards, retirement in two phases | FIFO, at-least-once delivery with one settlement, no signal overlooked |
| Evolution (`extensions/behavior-*`) | proposals, versions, registries, changes | `propose`, `review`, `activate`, `rollback`, purge | what a call read may be stale after its policy answered | decided once; the log explains what is active |
| Media jobs (`media`) | job, attempts, provider handles, bundles | `submit`, `reconcile`, `cancel`, `restart` | a provider call whose answer is lost | no silent resubmission; settled is final |
| Memory (`memory`) | memories, embeddings, vector index, tracking of partitions | changes, recall, rebuild, background preparation | an index prepared while its memories change | a recall is offered every memory it should |
| Attachments and resources (`attachments`, `resources`) | content-addressed files | publish, read, collect | crashes between write, rename and synchronisation; collection during publication | a reference that is kept stays readable |
| Server and client (`server`, `client`) | SSE streams, session state | HTTP handlers; `RuntimeRunSession` | three concurrent streams that reconnect | what the player decided stays decided; the session settles |
| Engine pumps (`src/engines/unity`, `unreal`, `godot`) | execution permit, deadline | poll, execute, inspect, report | deadline racing execution; main-thread callbacks | the world changes only under a live claim, and is reported honestly |
| SQLite stores (`storage-sqlite`) | tables behind each store above | one transaction per operation | claims planned outside the transaction that commits them | the same behaviour as the in-memory stores |
| Interactions, context and metrics, realtime, speech, artifacts, characters, extension kit, integrations, health, devtools, credentials, protocol | mostly data transformation and input/output | | | see [not modelled](#not-modelled) |

How they interact. The client submits an input through the server to
`GameRuntime.submit`. The runtime admits a run, appends `run.queued` to the event
store, and its pump starts the actor's `GameAgent` when the lane is at the head of
the ready list and an execution slot is free. The agent calls a model, commits its
transcript, and executes tools; a reliable Action tool may ask the player for
approval, puts an intent in the Action journal and waits. The engine's pump asks
the coordinator for deliveries, executes them in the game and reports receipts; a
delivery whose claim lapsed is reconciled or replayed, and a succeeded Action may
advance a Goal. A model provider may answer *deferred*: the run is then suspended
and its actor's lane waits until the host resumes or abandons it. Characters send
each other mail, wait for signals, have schedules and delegate tasks to other
actors; all of these are leased records of the extension stores.

`PROJECT.json` lists every component and, under `hazards`, the places where
something can go wrong that a test would hardly reach, each with the properties
that would catch it.

## Modules

A definition that follows a function of the code has its name. Definitions whose
comment begins with "Mutant" are plausible mistakes in that code; they are used only
to show that a property can fail.

| Module | Models | Composed with |
|---|---|---|
| `GameRuntime` | the run scheduler with the part of the event store and of the agents it depends on | `MCRuntime` (hosts), `GameRuntimeProofs` |
| `ActionJournal` | the journal, the run authority and, as an external part, the game that executes what it dispatches | `MCProgress`, `ServiceProofs` |
| `SqliteActionJournal` | its tables | refines `ActionJournal` |
| `ActionApprovalRecords`, `ActionApprovals` | approval records, and the store of them in memory | |
| `ReliableAction` | the reliable Action tool over the SQLite authority: approval, admission, waiting, recovery | refines `ActionApprovals`; `ActionPathProofs` |
| `EngineActionPump` | the Unity pump and the permits it hands to the game | `ActionPathProofs` |
| `GoalRecords`, `GoalStore`, `GoalService`, `SqliteGoalStore` | goals, their store, the projector and the service, the tables | tables refine `GoalStore` |
| `EventDelivery` | subscription, replay, queue, connection and reconnecting reader of one client | |
| `RunSession` | a client's session with one run: three observers, approvals, abort, close | |
| `DurableTranscript` | one actor with a durable transcript, its canonical events, crashes and restores | |
| `RunStores`, `SqliteRunStores` | event store, transcript store and job store, in memory and as tables | tables refine |
| `MediaJobs` | the media service, its admission and its callers | `MCAgent`, `ServiceProofs` |
| `MailboxStore`, `SqliteMailboxStore`, `MailboxRegistry` | the mailbox, its tables, and the registry of run leases over it | both refine `MailboxStore` |
| `SignalStore`, `SqliteSignalStore` | signals and waits, and their tables | tables refine `SignalStore` |
| `ScheduleStore`, `SqliteScheduleStore`, `ScheduledSignalDispatcher` | schedules, their tables, the dispatcher that turns occurrences into signals | tables refine; the dispatcher extends the store; `ServiceProofs` |
| `DelegationStore`, `SqliteDelegationStore`, `DelegationManager`, `DelegationNesting` | delegated tasks, their tables, `run`/`recover`/`cancel` of a process, foreground nesting over the runtime's lanes | tables refine; the manager extends the store; `GameRuntimeProofs`, of the nesting `ServiceProofs` |
| `MemoryAuthority`, `SqliteMemoryAuthority`, `GameMemory` | what a memory authority promises, its tables, the service with its indexes | tables refine |
| `BehaviorStore`, `BehaviorEvolution`, `SqliteBehaviorStore` | behaviour skills: store, service, tables | tables refine |
| `ImmutableFiles` | content-addressed files, their directories and crashes | |
| `MCRuntime`, `MCMessaging`, `MCActions`, `MCAgent`, `MCDeferredWork`, `MCKnowledge`, `MCProgress` | small instances for TLC | |

Each MC module composes several small *sessions* (`store` in `MCMessaging`, the
`host` record in `MCRuntime`): a behaviour chooses one in its initial state and
then takes only that one's steps, the other components staying as they were
opened. An instance whose constant definitions depend on its constants (`GoalBounds`) is
instantiated directly as well, for TLC evaluates such a definition once per module that
is only extended. A property of the MC module is guarded by the session it is about; one of a
module it EXTENDS is about that component, which rests in the other sessions.

### How the code becomes steps

* **JavaScript.** One segment between two awaits runs at a time, so a segment is
  an action. Operations under a mutex that do not await anything that interleaves
  are one action. In `GameRuntime` the FIFO mutex `this.scheduler` is held across
  awaits of the event store: `mutex` is the queue of sections, only its head makes
  steps, and the synchronous entry points (`start`, `retireActor`,
  `stopAdmission`, `abortAll`, the first part of `abandonDeferred`) and the agents
  interleave with it. `pump` contains no await: while `pumping` holds, only pump
  steps happen.
* **SQLite.** A write transaction is one action. Where the code reads a plan
  outside the transaction that commits it (mailbox, schedules), the plan is a
  variable of the connection and other connections act in between.
* **Time.** Operational times are the caller's: every request carries any instant
  of a small set, so clocks may be late, early or run backwards. In
  `ActionJournal` and `EngineActionPump` time is the set of tokens whose lease has
  lapsed. `EngineActionPump` has one assumption more, that the engine's clock is not
  behind the journal's: `TrySetExecutionDeadline` (`AuthoritativeActionPump.cs:481`)
  subtracts the engine's own `UtcNow` from the server's expiry, so that a slow engine clock
  moves the deadline behind the lapse. What is said of the pump holds under it.
* **Failure.** A write may fail before or after it took effect, a connection may
  break between any two frames, a process may stop between any two steps; which of
  these a session has is a constant of its module (`Lapses`, `MaxStops`,
  `MaxCrashes`, `storeFails`, `evidenceFails`). Requests a store refuses change nothing and are not
  steps, but for those that fail half-way: `settle`, `abandon` and `cancel` of the
  in-memory delegations delete the lease before they count the revision.
* **External parts** are modelled by how the code uses them and marked external in
  `PROJECT.json`: the game (it commits or refuses an attempt at any time, also
  after the claim has lapsed, and answers honestly or not at all), the model and
  media providers, Pi's agent loop, the file system, hosts.

### Correspondence of the larger modules

| Code | `GameRuntime` |
|---|---|
| `start`, `submit`, `admit` | `start`, `submit`, `AdmissionEnters`, `SubmitSection`, `AdmitSection` |
| `markReady`, `pump`, `settle`, `removeQueuedRun` | the same names; the loop body is `PumpSkips`, `PumpEmptyLane`, `PumpActivates`, its exit `PumpReturns` |
| `finish`, `finishStartFailure` | `FinishSection`, `finishStartFailure` |
| `abortRun`, `abortQueuedRun`, `abortEveryRun` | `abortRun`, `AbortActive`, `AbortQueued` and `AbortSettles` (its two appends), `AbortSkips`, `AbortsDone`, `abortAll`, `abortEveryRun` |
| `resumeDeferred`, `abandonDeferred` | `resumeDeferred`, `ResumeSection`; `abandonDeferred`, `AbandonSection`, `AgentAbandons`, `AgentAbandoned`, `AbandonedSection`, `ReadySection` |
| `registerActors`, `retireActor`, `retireRegisteredActor` | `registerActors`, `RegistrationEnds`; `retireActor`, `RetireSection`, the abort steps, `RetireContinues`, `ReleaseSection`, `UnretireSection` |
| `stopAdmission`, `waitForIdle`, `isIdle`, `notifyIdle` | `stopAdmission`, `idle`, `isIdle`, `notifyIdle` |
| `GameAgent.execute`, `recordDeferredAssistant` | `AgentEnds`, `AgentDefers`, `AgentFetches` |

In `ActionJournal`, `records` is the journal's map from operation ID to record,
`conflicts` the barrier of each key, `admissions` and `tokens` the sequence and claim
counters, `closed` the runs whose authority is closed. Every journal method is one
action, including what it does on the way: `nextDelivery` retires closed pending
Actions, expires due claims, and then delivers a reconciliation, claims an Action,
or finds nothing. `issued` and `recovering` remember what workers were handed,
`effects` and `fenced` what the game did with each claim token. An honest answer
stays honest, so a delayed or repeated message is one given later or again, and a
lost one is never given; no network is needed.

`DurableTranscript` writes records as `durable-transcript.ts` does, and its `restore`
is the whole of scan, repair and reconciliation with the canonical events: a state
in which `actor.stage = "refused"` is one in which the code throws. `Lapses` names the
faults: the process stops (`crash`), a commit is lost, or made and not acknowledged
(`lost`, `stored`), the event store fails (`event`), or the sink of provider evidence
does (`evidence`). `contradicted` is a history variable, of the runs whose end was
written otherwise than a restore of the transcript at that moment would have it.

In `DelegationManager` every await of `run` may reject (`runThrows`), and the catch block is
the code's: an abort cancels the task, a lease error is passed on, any other one gives the task
back while no handle is held and settles it `executor_failed` from then on.

Every other module names, in the comment above each action, the method it models;
`map` in `PROJECT.json` gives the lines.

## Runs

| Run | Question |
|---|---|
| `runtime` | Aborts, failing appends, retirement and registration again, a run that defers and is resumed or abandoned, work behind it: are counters, lanes, ready list and drain exact, is no wakeup lost, is no input executed twice? |
| `runtime_progress` | Does `abortAll` always drain, even if no model ever answers; does every admitted run get its turn if they do? |
| `messaging` | Mailbox, signals, their tables and the registry: FIFO, one settlement, finality, no signal overlooked, tables implement maps. |
| `actions` | The Action tool with its approval, the Goal projector, the pump, the client's event stream and its run session, the tables of approvals, Goals and Actions. |
| `agent` | The Agent's transcript through deferrals, aborts, lost writes and crashes; media jobs; the tables of both and of events. |
| `deferred_work` | Schedules, their dispatchers, delegations, the manager and nesting; both stores' tables. |
| `knowledge` | Memory with its indexes, behaviour skills, content-addressed files; their tables. |
| `progress` | Two Actions that contend for one key; the journal, the pump, the event stream and the run session settle. |
| `runtime_abandon_window`, `transcript_abort_resume`, `client_pages`, `delivery_purges` | Counterexamples, see [findings](#findings). |

The properties, in the words of the code:

* `LanesExact`: the lanes hold exactly the ready runs, each once; an active run is its
  actor's only one; `queuedRuns` and `activeActors` count what they stand for and
  respect their bounds; the drain promise is neither missed nor early.
  `WorkConserving`: no wakeup of a lane is lost. `StartedAtMostOnce`: an input is
  given to the agent at most once. `PausedBehindDeferral`: the pump never starts a
  run that the agent refuses, and a pending operation's run has not ended.
  `AbortAllDrains`, `AdmittedRunsSettle`: liveness.
* `ConflictOwnership`: the conflict table names exactly the claimed and uncertain
  Actions. `AtMostOneEffect`: an Action changes the world at most once.
  `OutcomeTruthful`: *succeeded* means it did, *pending* and *failed* that it did not
  and will not. `SettledIsFinal`, `ClaimsResolve` and `Settles`.
* `ApprovalSpentOnce`: an Action that needs consent is admitted together with the
  approval it spends, and a call's transcript tells the truth about its Action.
  `NoDecisionOverlooked`: no call sleeps through the decision it waits for.
  `ActionAdvancesOnce`: a settled Action advances its Goal once, over all stops and
  retries, by its own evidence; a retired partition's Goals stay closed. `ChangesRecorded`: the world changes only under a live claim, and the
  journal records what happened. `NothingSkipped`: the client yields what it may
  see, in order, or is told of a gap. `DecidedStaysDecided`: the run session.
* `FifoSettlement`, `SettlementFinal`, `NoSignalOverlooked`: the mailbox and signals.
* `RestoreAccepted`: wherever the process stops, whichever writes fail and whatever a
  player aborts, what is stored can be restored, unless one of three things is on record:
  a run ended otherwise than its transcript had it (`contradicted`), a deferred run was closed
  in the transcript before its turn was or within another's (`ClosedOutOfTurn`), or a run was
  started within the turn another had left open (`StartedWithinTurn`). All three come from
  the code itself, see [observations](#other-observations); no fourth is reached.
  `ToolOutcomesTruthful`: no tool takes effect before its intent is on record, and
  none that did is answered as not started. `RegistersInAgreement`: transcript and
  canonical events say the same of every deferred run, and a run ends once.
  `SubmittedOnce`: a media attempt is submitted once, no change of a job is refused for
  what another call made of it, and no place with the provider is lost or idle while a
  call waits. `AttemptsFinal`: an attempt stays as it was settled, and given up.
* `ScheduledOnce`: every occurrence of a schedule is generated once, its plan's number
  of times, no tick is missed and the last delivery settles. `LastHolderSettles`: the
  last to have claimed a task settles it, and a running task has a lease or has used up its
  revisions. `RunsSettle`: `run` gives back what it holds whichever await rejects, and a task's
  outcome tells what its child came to, `executor_failed` excepted. `NestingDrains`,
  `SignalBeforeCompletion`: nesting and the dispatcher.
* `RecallComplete`, `BehaviorReviewed`, `KeptReadable`: memory, evolution, files.
* `ImplementsStores`, `ImplementsInMemory`: every transaction on the SQLite tables is a
  step of the in-memory store, through the refinement mappings of the `Sqlite*`
  modules, and leaves rows that pass their validation on the next load; of the behaviour
  proposals exactly those fail it whose version was purged before them.

Deadlock is not checked: a session in which nothing is left to do stops.

## Bounds

The MC modules give every constant beside the instance it belongs to. What they
have to reach:

* *Runtime*: two actors, up to four runs, one execution slot, a queue of two places:
  slot and queue are exhausted, lanes have more than one run, the ready list more
  than one key. Each host combines the operations whose interleaving it asks about.
* *Journal*: two claims and two admissions for two Actions on one key: a claim, its
  replay and a contender; `CandidateLimit` 1, so that scans stop before the end.
* *Tool*: two calls of one Action, while the clocks pass the approval's deadline
  and the game's authority changes once. *Goals*: two workers, one
  step. *Pump*: two tokens, one retry, one restart, an Action of either policy.
* *Event delivery*: five events, one hidden, one oversized, pages of two, a queue of
  one place and one reconnection: overflow, a page that ends within the stream, a gap.
* *Transcript*: two runs with two parallel tool calls and two lapses, with aborts (`tools`) or
  with compaction and purges (`compaction`); two runs of one turn
  that defer (`deferral`), or one of two turns (`resumed`), with all five kinds of fault, three
  of them, aborts of runs and of queued resumes, and every end of a resumed run: a repair is
  itself interrupted, and a fault meets what an earlier one left.
* *Media*: two callers and one place. One session has a queue of one, two outputs with room
  for one, a crash, and callers that may give up; the other no queue and two attempts of a job.
* *Messaging, schedules, delegations*: one or two lanes, two records, two or three
  tokens, instants `0..2`: a lease lapses, is taken over and answered late under a
  clock that runs backwards; the per-recipient and batch limits are reached. The revisions of
  a delegation end at 6, which a task that is claimed, bound, deferred, claimed again and
  settled just reaches; one that is renewed or given back more often runs out of revisions. With two
  calls of a task (`manager`) they stop one short of that, and of two tasks (`shared`) one
  reaches it while the other makes one step, or both are settled. The SQLite rows end at 4.
* *Memory*: one memory and two callers with crashes; two partitions with room to
  track one. *Files*: two objects, two publishers, one crash.

Symmetry is used for callers, workers, tokens, identifiers and connections, which
occur only in sets and are never compared by order; not in the runs with liveness.

## Fairness

* `ActionJournal!Fairness`: workers poll, the game decides an attempt it is asked
  to inspect, and definite answers arrive. The engine pumps poll in a loop and
  repeat an inspection until it is answered; nothing is assumed about receipts.
* `GameRuntime!Fairness`: the pump and the sections run because the event loop runs
  what has been scheduled (weak fairness). Agents and registrations complete outside
  the mutex; the pump's steps disable them again and again, so strong fairness is
  needed to say that a promise that is settled has its callbacks run. An agent that
  was asked to abort ends its run, because `abortAccepted` aborts the signal that
  every model and tool call takes; that a model call ends by itself is assumed only
  for a host with `modelsAnswer`.
* `EngineActionPump!PumpFairness`: frames go on, and a server that can be reached
  answers (`SF` on `delivered`, since requests may fail in between).
* `EventDelivery!DeliveryFairness`, `RunSession!SessionFairness`: the event loops of
  server and client go on; nothing is assumed of the host's callbacks but that an
  event handler returns, and nothing of the player.

## Findings

1. `runtime_abandon_window`: between the transcript commit and the terminal event of
   an abandonment the agent has no pending operation but is still busy. `markReady`
   (`runtime/src/runtime.ts:893`) looks only at the former; the section that follows
   a refused retirement can make the lane ready, and the queued run fails. The test
   at `runtime/test/game-runtime.test.ts:1372` expects it to complete.
2. `transcript_abort_resume` (one lapse, a crash, and `Aborts` of runs): when a resumed deferred run is aborted during a durable
   tool call, the code leaves the call and its turn open and still appends
   `deferred.run.closed`; every later restore throws. `agent/README.md:102` promises
   that the call remains open for repair by a fresh restore.
3. `client_pages`: the approvals observer of `RuntimeRunSession` enters a page into
   `pendingApprovals` before it announces the first; when a decision changes that set
   meanwhile, `continue poll` skips the rest, which is never announced.
4. `delivery_purges`: `replayEvents` (`runtime/src/runtime.ts:729`) reads the retained
   bounds and then the page; a purge between the two goes unnoticed and the client
   continues without a gap, against `runtime/README.md:133`.

## Other observations

Seen in the code while modelling; the models contain the behaviour unless noted,
and the properties are stated for sessions without it where they would fail.

* *Stale ready key*: `retireRegisteredActor` (`runtime.ts:1290`) removes the actor's key from
  `readyActorSet` but not from `readyActorKeys`. If the actor is registered again
  while the old entry waits, its lane is listed twice and the second entry may start a
  run behind one that has deferred (compare `game-runtime.test.ts:1468`).
* *Abort of a queued resume* (`runtime.ts:709`): `abortAll` and `abortRun` end a queued
  resume as if it were a queued prompt; its canonical run is over while its operation
  stays pending (`runtime/README.md:113` says that pending operations remain explicit
  state), and the next registration refuses the two (`runtime.ts:842`).
* *Evidence of a deferral*: if the provenance sink fails to settle the attempt after
  `deferred.opened` was committed (`game-agent.ts:456`), the run ends as failed while its operation
  is pending. A resume is refused, and so is every registration after a restart, against
  `agent/README.md:202`, which lets a host resume what is pending. TLC shows it in seven steps
  with `Lapses = {"evidence"}`. The same contradiction follows when the commit of
  `deferred.opened` or `deferred.run.closed` was made but not acknowledged, or when the closing
  write of a resumed run fails after its abort: these are `contradicted`.
  `PausedBehindDeferral` is stated for hosts that have none of this, nor the stale key, nor finding 1.
* *An outage of the event store within a turn* leaves the turn open and the Agent usable
  (`game-agent-lifecycle.test.ts:1364` has the first half); the next run's records begin
  inside that turn (`StartedWithinTurn`), and no restore accepts them.
* *A repair behind a pending operation*: `restore` (`durable-transcript.ts:433`) appends the
  missing `deferred.run.closed` of one run after another run has opened its operation; the
  next restore refuses what this one wrote (`ClosedOutOfTurn`).
* *Resumed runs*: a resumed run whose next provider request fails before any record is
  closed under turn *t*+1 (`event-projector.ts:64-66`), and no restore accepts it; the
  same with unresolved tool results or a failed `turn.closed`: again `ClosedOutOfTurn`. The set
  `ResumedFails` of `DurableTranscript` says which of these a session has; the sessions of the
  run have all. A purge after a deferred run
  may retain `turn.closed`, checkpoint and `deferred.run.closed`, which the scan refuses.
  An aborted resumed run whose `deferred.run.closed` fails is aborted in the canonical
  events and failed in the transcript after repair.
* *Delegations at the largest revision*: in memory, `abandon`, `cancel`, `complete` and `fail`
  (`in-memory-store.ts:199`, `208`, `247`) delete the lease and then throw: the task stays *running*
  without a worker, and no claim can count a revision any more. On SQLite the transaction is rolled
  back. *`executor_failed`*: if `bindRun` or the clock rejects after the child was submitted
  (`manager.ts:267`), the task is settled as failed while its child still runs, or waits.
* *Delegations that wait on each other*: `create` (`manager.ts:90`) demands more actor slots than
  `maxDepth`. That is enough for one nest of foreground delegations whose targets do not
  delegate in a circle. Two roots that delegate at once (`maxDepth` 1, two slots), or a target that
  delegates back to a waiting actor, leave every slot or lane with a run that waits, until a
  host aborts one: TLC reaches such states when `Roots` and `Authorized` allow them.
* *Image attachments*: `publish` (`local-image-attachment-store.ts`, about 353–366) returns
  what it finds in place without synchronising its directory; with crashes
  `KeptReadable` fails for this store (`attachments/README.md:21`), which is why its
  session has none and the theorem has the hypothesis `Survives`. On Windows
  `syncDirectory` does nothing; the model is POSIX.
* *Approvals*: the in-memory `consume` does not check that consumption follows the
  decision. *Goals*: a projection stays blocked after a crash between advance and
  settlement until the host resolves it; an identifier may be used again after a purge.
* *Stores*: the in-memory event store accepts a second `run.queued`; that events may be
  purged is the host's obligation. An advance in memory may take a
  schedule to its largest count of occurrences (`in-memory-schedule-store.ts:360`), after which
  every advance that reaches its next tick throws; the SQLite store rolls back an advance that
  would leave such a schedule active, because it reads its occurrences with their schedule
  before it commits, so it never stores one.
* *Proposals without their version* (`sqlite-evolution-store.ts:994`): once `purgeInactiveVersions` has taken
  the version an activated proposal led to, `getProposal` and every page of `listProposals` that reaches
  the row throw `invalid_behavior_activation_link`, until `purgeProposals` deletes it; the in-memory
  store returns the proposal. A decision or activation of it is refused by both, with another error.
* *Other stores*: A signal purged between its record and a retry is recorded again.
* *Left out because nothing here depends on it*: a patch of a memory that is refused after it
  named a partition to move to is counted on one partition, not on two (`memory/src/service.ts:194`),
  and index writes do not fail by themselves, only with a crash; a receipt of the game's transaction
  that says rejected or unknown (`AuthoritativeActionAdapter.cs:145`).
* *Media*: a reconciliation that contradicts leaves the attempt *settling*. *Client*: the
  reconnect attempts of an event stream are counted over its whole life.

## Proofs

All theorems hold for every value of the constants allowed by the named assumption of
the module (`JournalAssumption`, `RuntimeAssumption`, `MailboxAssumption`,
`SignalAssumption`, `DeliveryAssumption`, ...): sets of identifiers of any size, limits
that are positive or natural as the code's validation requires. TLC evaluates each
assumption on the instances of the runs.

**Action journal** (`ServiceProofs`). `TypeCorrect`, `ConflictTableExact` and
`ConflictsExclude` rest on `TypeOK` and the fact that the conflict table changes only
with a status (`AcquireOwnership`, `ReleaseOwnership`, `MaintenanceOwnership`).
`EffectsAtMostOnce` and `OutcomesTruthful` need the inductive invariant of
`AllAccounted`: receipts number the claims of an Action, no two records hold one token,
every recovery and every effect happened under a claim the journal granted, and what a
record says agrees with what became of the world. From it also `SettledStaysSettled`,
`ClosedRunsStayClosed`, `RecordsPassLoad` and `RunsDispatchSerially`.

**Media jobs** (`MediaJobs`, proved in `ServiceProofs`). `MediaSound` has six parts.
`StoreSound`: each stored job is one its store accepts, and no two share an attempt.
`CallsSound`: the types of calls; what a call publishes was yielded. `Exclusive`: of an attempt
about to be created nobody else knows; one call at most holds the claim of an attempt, nobody
asked to start it, and it is not queued; a request to cancel is about an attempt that was given
up and has a handle. `QueuedUnasked`, `AskedAtMostOnce`, and `PlacesSound`: who waits does so in
an order, and places are full while somebody waits. Every change that an answer, an abort or a
cancellation makes of an attempt is `Kept`, whatever the attempt has become since the call read
it (`MarksKept`, `OutputsKept`, `CancellationKept`, ...): the result is accepted, is not queued
again, keeps its handle, stays given up and stays settled. `StoreKept` carries this to a job,
`CallStep` to a step of one call among others. The invariant gives `SubmissionsOnce`, and what
every step makes of the jobs (`Evolves`) gives `SettledAttemptsFinal`. Hypothesis
(`MediaAssumption`): finitely many callers and outputs, outputs numbered.

**Scheduler** (`GameRuntimeProofs`). `SchedulerInv` = `TypeOK` ∧ `MutexBook` ∧ `RunBook` ∧
`ActorBook` ∧ `LaneBook` ∧ `CapacityExact` ∧ `IdleBook`: what each queued section of the mutex
presumes, where each run is, what an actor's registration allows, what is in its lane, what
the counters count and who waits for the drain. It gives `RuntimeTypeCorrect`, `BooksAgree` and
`StartsOnce`. `ReadyBook` (a resume is first in its lane; whoever has work is awake or will
be woken by a queued section; slots are used) is inductive relative to it and gives
`NoWakeupLost`; `PauseBook` gives `PausedWhileDeferred` for the hosts described under
[observations](#other-observations).

**Event delivery** (`EventDelivery`, proved in `ActionPathProofs`). `DeliveredInOrder`, with
`DeliveryInv`: the frames on the wire chain, the queue is consecutive, and the cursor of each
party is the end of what was sent to it. Hypothesis: no purge between the two reads (`~PurgeAnywhere`; finding 4).

**Signals** (`SignalStore`, `SqliteSignalStore`). `NoneOverlooked` and `OutcomesFinal` from `SignalInv`:
no waiting wait accepts a recorded signal, matched waits keep their evidence, fan-out is
bounded. `TablesImplementStore` proves the refinement transaction by transaction, with the
well-formedness of the rows; `RowsAlwaysLoad` is transferred along it.

**Mailbox** (`MailboxRegistry`, which also holds the store's theorems). `MailboxInv` adds to the
properties what a token proves: a token was handed out once, every proof on record belongs to a
delivery handed out, a confirmed completion is the proof its message was settled with and a
confirmed abandonment is no proof any more. It gives `SettledInOrder`, `SettledOnce` and
`SettledStays`. `RegistryUsesStore` shows that each step of the registry is one of the
store's or leaves it alone; `RegistryInv` then gives `NoSettledEntry` and `NoLateTool`: an
acknowledgement is only written for a receipt whose proof is on record, so the registry's entry
of that receipt is removed in the same section, and a holder of a live lease was never
acknowledged.

**Delegation** (`DelegationStore` and `DelegationManager`, proved in `GameRuntimeProofs`). `StoreInv`: a key
names one record, who runs a task has claimed it, and records, leases and settled tokens
agree, up to a record that has used up its revisions and lost its lease. Every change but a creation and a purge
replaces one record (`ReplacedKeeps`) or, at the limit, loses a lease (`LeaseLostKeeps`), which
gives `LastClaimWins` and `TaskOutcomesFinal`. `ManagerUsesStore` shows that each step of
the manager is one of the store's or leaves it alone. `CapacityComesBack` needs `CallsInv`
(what a call holds of the capacity at each of its awaits), `ChildInv` (a child that has
ended stays as it ended) and what a call has learnt of its child when it is about to settle
(`Learns`): the code of a failure is the child's end, and `executor_failed` is written only
behind a handle. Hypotheses (`ManagerAssumption`): finitely many calls and tasks,
a run id for every task, and that the manager's codes are codes.

**Nesting** (`DelegationNesting`, proved in `ServiceProofs`). `NestSound`: the unfinished runs of a nest are a
chain, one per depth; each but the last is active, waits for the next, and stands on an actor of a
lower rank than those below it. If every active run waits, the last run is queued, on an actor that
no run above it can hold, and the active runs have different depths below its own, so at most
`maxDepth` places are taken: `OneNestDrains`, for any actors, runs, depth and capacity that
`create` accepts. Hypotheses: one nest at a time (`OneNest`) and targets that do not delegate in a
circle (`Downward`); [without either](#other-observations) it is false.

**Schedules** (`ScheduleStore`, proved in `ServiceProofs`). `ClockInv`: an active schedule's
next tick is the tick of its next ordinal and lies ahead of the clock, the history of a
schedule is the run of its first ordinals, and the advances lie end to end. `DueIsRun` shows
that an advance generates a run of ordinals, as long as ticks and maximum allow, `RanksDiffer`
that the queue's order gives each its own key. `DeliveryInv`: the token of a lease, and the one
that settled, belong to the last delivery; an occurrence that was acknowledged is never pending
again. They give `OrdinalsOnce`. Hypothesis (`ScheduleAssumption`): a plan without an interval
has the maximum 1, as drafts are normalized.

**Behaviour** (`BehaviorEvolution`, which also holds the store's theorems). `StoreInv` says
what each record is and adds to `HistoryExplains` that numbers and keys grow, that a
proposal a version came from is activated, and that a change names a version already
given, so no later version can take its number; `HistoryAlwaysExplains` proves it of the
store under any calls. For the service, `VerdictsOK` keeps a verdict for every proposal
ever made, purged or not, and `CallsOK` says that the proposal a review read is the one
whose verdict it decides; `AlwaysReviewed` follows for any callers, contents and limits.

**Files** (`ImmutableFiles`). `AlwaysSecure` is the inductive invariant: whatever a
publication has put in place, and every reference the host keeps, has durable bytes
below a durable directory, under a durable name where the store promises to survive
crashes. It gives `KeptStayReadable`.

**Action path** (`ActionPathProofs`, what lies around the journal on an Action's way). *Tool*: `ToolInv` says what
a call knows (an approval ID since it read the game's authority, no consent needed on the path
without approval), what a revision tells of a row (pending is 1, approved 2, so a third change is
the last), that a consumed row was spent and whatever was spent has its Action under the same
authority, that the only call of an Operation whose Action is on file has admitted it, and that a
call waiting with an up-to-date snapshot has nothing to read or a notify still to come.
It gives `SpentOnce`, `TruthfulTranscripts`, `DecisionsSeen` and `ApprovalRowsAlwaysLoad`, and
`TableImplementsApprovals`, the refinement of `ActionApprovals`. Hypothesis: `ToolParameters`
(at least one authority, a positive duration as `approvals.ts` validates, an Action for each call).
*Pump*: `PumpInv` says that nothing names a token newer than the journal's, that while the pump
executes a claim it is the journal's, not lapsed before the deadline, and every other execution
context belongs to an earlier epoch, and that evidence on its way tells the truth about the world;
it gives `PumpRecordsChanges`, which states the run's `ChangesRecorded` for any number of claims, retries,
restarts and Actions of either policy.
*Goal*: `GoalInv` says that a Goal on file bears a name that was given, that a Goal an Action
advanced has left the revision the Action was bound to, that a fingerprint names an Action that
did advance, and of each call of projector and service what it read: that Goal still, at that
revision, or a later one. An ID is never given twice (`nameGoal`: hosts derive it from the tool
call), without which a purge could bring a revision back. It gives
`ActionAdvancesItsGoalOnce`, which states the run's `ActionAdvancesOnce` for any number of workers.
*Run session*: four invariants, kept apart because few steps touch each. `DecidedInv` says that what
was decided here was asked and is no longer open at the server, and that a page an outstanding wait
carries is free of it unless a decision has overtaken the wait, which `approvalMutation` then tells;
`PendingInv` that the pending approvals are the last page less what was decided since; `AbortInv` and
`StreamInv` that an abort and the run's last event close it; `WithinInv` that an observer once settled
stays so. They give `DecisionsStay`, for any page size and number of approvals and turns.
Out of the prover's reach, and model-checked only: all liveness (`ClaimsResolve`, `Settles`,
`AbortAllDrains`, `AdmittedRunsSettle`; fairness and `ENABLED`); what is a fold or a
recursion over sequences of records (`RestoreAccepted` and what rests on the transcript's
scan), which needs induction over data. Model-checked only so far: the agent and its transcript, memory, and the remaining SQLite refinements.

## Not modelled

`PROJECT.json` gives the reason for each component. In short: provider adapters,
speech, realtime voice, image decoding, schemas and generated clients, personas and
worldbooks, health, devtools and credentials are input and output or data
transformation; interactions are a validation layer over mailbox and signals;
artifacts are sequential documents. Of the runtime, `replaceActor`, authority closure
(`closeAuthority`, `drainClosedAuthority`), event subscriptions and steering controls
are left out; of the server, authentication, rates and the routes that only pass a call
on; of the pumps, those of Godot and Unreal, which follow the protocol of the Unity pump.
Payloads, byte limits and list cursors are abstracted everywhere.

## Plan

1. Authority closure and `replaceActor` of the runtime, with the event store's projections:
   a closure that failed half-way is completed by repetition.
2. Proofs for the transcript and its repair, then the refinement of the mailbox, Goal, schedule and journal tables.
3. The extension reloader's activation and rollback; realtime voice turns.
