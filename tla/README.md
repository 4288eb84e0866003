# Verification of senawa

senawa runs authored workflows with coding agents: a supervisor service drives
*runs* through *phases*, starts agents' turns and git operations as *effects*,
and keeps everything that must survive a crash in SQLite. This directory holds
TLA+ models of its core, the TLC runs that check them on small instances, and
TLAPS proofs of their safety for every instance. Paths below are relative to `src/`.

## 1. Inventory

| part | source | state | operations | what makes it correct |
|---|---|---|---|---|
| effect runner | `packages/runtime/src/runner.ts` | nothing durable; a batch's plan, claims and observations | `runBatch`: plan, `persistIntent`, `claimEffectAttempt`, host call, `commitEffect` | an effect starts once, settles once, is never lost |
| runner authority | `packages/storage-sqlite/src/index.ts` 7380-8480, 9468-9601 | leases, commands, intents, claims, outcomes, budgets, capacities, escalations, scopes | one immediate transaction per call, fenced by the run's lease | only the lease's holder writes; money and slots equal what is open |
| run controller | `packages/supervisor/src/run-controller.ts` | none | `runOnceAsync`: acquire, drain commands, run a batch, failure policy, release | a failure fences its task; the lease does not outlive a quiet cycle |
| effect hosts | `packages/execution-host/src/copilot-worker-effect-host.ts`, `durable-workspace-effect-host.ts` | live sessions; integration attempts | `dispatch`, `inspect`, `cancel` | an answer is never more than the host knows |
| run control, human authority | `storage-sqlite/src/index.ts` 6691-7226 | `run_control_state`, allowance resolutions | `pause-run`, `resume-run`, `end-run`, `grant-allowance` | an ending run stops admission and ends when quiescent |
| task scopes, failure policy | `runtime/src/scheduler.ts`, `task-currentness.ts`, `index.ts` 12157-12418 | scope generations, context digests | fence, take over | nothing current comes from behind a fence |
| supervisor command queue | `packages/supervisor/src/command-queue.ts` | commands, receipts, wakes, events | accept, claim, complete, acknowledge | every accepted command takes effect once; no wake is lost |
| supervisor service | `packages/supervisor/src/service.ts`, `recovery.ts` | pump state in memory | pump, wake, drain, stop | every runnable run gets its turn |
| run driver | `apps/senawa/src/daemon.ts`, `advance-run.ts`, `dispatch-driver.ts`, `fan-out-driver.ts`, `production-scheduler.ts` | phase attempts, run records | advance, dispatch, close, finish | one live attempt per phase; a run ends only when done |
| context broker | `packages/runtime/src/context-broker.ts` and the three command bridges | dispatches, submissions, grants, outboxes | register, submit, reconcile, deliver | a submission counts once, against the context it was made in |
| command authority | `packages/runtime/src/authority.ts` | commands, results, barriers | submit, replay | idempotent by command |
| workspace integration | `packages/runtime/src/workspace-authority.ts`, `execution-host/src/git-*.ts`, `index.ts` 8594-9466 | integration attempts, slots, barriers | claim slot, assemble, publish, record barrier | one publication per target at a time; none lost or doubled |
| remote delivery | `packages/supervisor/src/remote-connector.ts`, `apps/control-plane/src/authority.ts`, `index.ts` 2536-3670 | cursors, reports, bindings | poll, authorise, execute, report, acknowledge | at most one execution per remote command |
| amendments | `packages/kernel/src/amendments.ts` | proposals, decisions | propose, fence, quiesce, apply | no work of the old definition after the new one applies |
| kernel | `packages/kernel/src/*.ts` | pure | readiness, gates, completion, fan-out, iteration, budgets | agrees with its definition |
| data flow, configuration, protocol, http and portal, worker session, command line, reporting and testing | see `PROJECT.json` | mostly immutable or outside the process | | |

How they interact: a command or a wake makes a run runnable; the service picks
it; the controller takes the run's lease, drains the command queue, lets the
driver queue runner commands, and has the runner settle effects through the
hosts; accepted submissions flow back from the broker's outboxes as commands.
All shared state is in SQLite, each transaction is `BEGIN IMMEDIATE`, and every
lease-holder's write asserts the lease's owner and fence.

The hard behaviour is in between the transactions: a supervisor that stalls and
wakes up after a takeover, a host call whose answer is lost, a fence or an end
that falls between planning and commit, an error in one of a batch's commits, a
crash between any two of these. `PROJECT.json` lists each at its line under
"hazards", with the property that covers it or the reason none does yet.

## 2. Modules

Four components, each over modules of its own. They meet in the tables: the
effects of a cycle are one step of `SupervisorService` and `FencedRunner` in
detail; the dispatches `RunDriver` registers are the effects the runner starts;
`Integration` has the runner around its host, one effect per cycle.

| component | tables | behaviour | promise | proofs |
|---|---|---|---|---|
| effects of one run | `RunnerAuthority` | `FencedRunner` | `EffectLedger` | `FencedRunnerTypes`, `FencedRunnerMemory`, `FencedRunnerProofs` |
| command queue and service | `CommandQueue` | `SupervisorService` | `CommandLedger` | `SupervisorServiceTypes`, `SupervisorServiceProofs` |
| integration of worktrees | `IntegrationAuthority` | `Integration` | `IntegrationLedger` | `IntegrationTypes`, `IntegrationProofs` |
| a run's way through its phases | `RunRecords`, `WorkBroker` | `RunDriver` | `PhaseLedger` | `RunDriverProofs` |

`MCFencedRunner`, `MCSupervisorService`, `MCIntegration` and `MCRunDriver` hold
the constants for TLC. A ledger has no leases, processes or crashes in it; its
component implements it (`LedgerSpec`).

### Effects of one run

Each transaction is one step, since it is serialised by SQLite. Each host call
is two or more: the lease check of `hostContext` (`EnterDispatch`), the call
(`CallDispatch`), the work itself (`WorkEnds`), the answer (`AnswerDispatch`)
or its loss (`LoseResponse`). An `Owner` is one incarnation of the service
process. `pc`, `held`, `plan`, `seen`, `own`, `stage` and `failed` are what a
cycle has on its stack; `Crash` and `Throw` lose them and leave the tables.

    runOnceAsync                   BeginCycle, Throw, FinishCycle
    scheduleRunnerTransitions      PlannedReconciles, PlannedStarts, PlannedKind
    preparePlan / persistIntent    PersistIntent, Escalate, RefuseIntent
    preparePlan / claimEffectAttempt   Claim, SkipClaim, RefuseClaim
    selectEffectAttemptAction      AttemptAction
    observeClaimedAction           EnterDispatch .. AbortSibling
    commitEffect                   CommitEffect, LoseCommit
    #applyFailurePolicy            ApplyFailurePolicy
    installDurableTaskScopeFences  InstallFences (FenceTask, ApplyFailurePolicy)
    fenceRunForEnding              EndRun, EndRunThrows

What the model abstracts, and why that is sound for its properties:

- A lease's expiry is its flag `live`; `Expire` may clear it while the owner is
  at work, which is the hazard. Renewal is the absence of `Expire`.
- A task's scope is accepting until it is fenced, and a fence stays. The other
  way a scope changes, its takeover by a later attempt, is in `WorkBroker`.
- Attempt identities are unique to a cycle; `own` holds the intents it wrote.
- A cycle that would plan nothing is elided. The schedule is computed in the
  step that takes the lease; changes between that and the first claim are the
  same as changes after it, since planning only reads.
- Answers of `persistIntent`, `claimEffectAttempt` and `commitEffect` that a
  cycle of the lease's holder cannot get (an existing intent, a waiting
  escalation, no free slot, a replay of a settled effect) are left out. That it
  cannot get them is not assumed: `MemoryAgrees` says so and is proved.
- A batch's observations are concurrent; its commits follow the plan's order
  after all of them, as in `runBatch`.
- One budget unit, one capacity ("writer"), one admission cohort. An operation
  uses any amount up to what it reserved.
- A worker host answers a dispatch with "completed" or "cancelled" only, and an
  inspection never with "missing"; a workspace host may answer "missing", and
  its work is not followed into its own durable stages.
- The failure policy's cancellation requests repeat those its fences made;
  `ApplyFailurePolicy` is one step because it only reads before the fences.
- `updateContext`, receipts, events and projections are left out.
  `recordRunFinished`, the driver's way to end a run, is in `RunDriver`;
  `EndingIsOrderly` speaks of `end-run`.

### Command queue and service

Each operator of `CommandQueue` is one transaction of
`SqliteSupervisorAuthority`; `SupervisorService` says who calls it and when.

    start, its cycles and listeners    Start, StartupRecovered, ReportRunning, StartupFails
    #runCycle                          BeginCycle, SettleStep
    runOnceAsync                       AcquireStep, EffectsStep, ReleaseStep
    drainRunOnce                       ClaimStep, ExecuteStep, AnswerStep
    the broker's outbox                RecordCompletion, DeliverInline, DeliverStep, MarkStep
    wake and its pump                  SubmitCommand, RequestWake, PumpEnds
    #deferUntilLeaseExpires            Defer, RetryFires
    recover, recoverRunOnce            RequestRecovery, BeginRecovery, DirectRecover
    drain, stop, a crash               Drain, FinishDrain, Stop, Crash

- The daemon is one thread: what happens between two awaits is one step for its
  own handlers; other processes interleave with every transaction.
- A fence and an expiry are only ever compared, so the model keeps the result:
  `holder` is whose grant is the lease row as it stands, a claim is held or
  lapsed.
- The command authority remembers a command it has executed: `applied` counts
  what took effect.
- Timestamps, status, logs and repository registration are left out.

### Integration of worktrees

One action per transaction, Git command and host answer:

    #scheduleIntegration, runOnceAsync   Begin, Plan, Observed, CommitEffect
    #claimIntegration                    ClaimSlot
    #prepareIntegration                  Intend, MergeFails, RecordOutcome, RecordCandidate
    #validateIntegration                 Validate, EvaluationFails, RecordDecision
    #publishIntegration                  Advance, Mark, Look, Move, Recheck, RecordPublication
    #recordBarrier                       TrustBarrier, Barrier
    inspect, cancel                      Inspect, Cancel
    recordCompletionEligibility          Admit
    leases, crashes, hangs, end-run      SlotLapses, ContextLapses, RunLeaseLapses, Abort, Crash, EndRun

- A slot lapses no later than the context of the host call that claimed it, and
  the context no later than the run's lease, as their expiry times go.
- A run has one phase and one graph revision, its members are captured, and
  only senawa commits to the branch. A run's base is registered by `Register`;
  production never sets `baseRevision` on the seeds it makes.

### A run's way through its phases

`RunRecords` has `RuntimeAuthority`'s commands, which are answered once,
`WorkBroker` the context broker's transactions, both as operators on values.
`RunDriver` has the processes that use them.

    closeEndedAttempts             CloseEnded
    dispatchPhase, dispatchAttempt DispatchMember, RetryAborted, RetrySpent, OpenAttempt
    answers to questions           CarryAnswers, MarkAnswered, SatisfyRequirements
    deliverFacts                   DeliverFact
    the gate and its sensors       ReadGate, MeasureRed, MeasureGreen, Help
    close-phase, start-phase       Close, StartNext
    recordRunFinished              RecordFinished
    #scheduleRepository            StartAgent
    admitSubmission                AgentHandsIn, AgentAsks, AgentReturns
    the completion bridge          BridgeAccepts, ExecuteCompletion
    a person                       StartByHand, Steer, Answer, DecideCandidate

- A driver reads the records once and acts on what it read. What it does
  without awaiting is one step; a dispatch is registered, opened and marked in
  three transactions, each delivery and closing command is one, and it may stop
  between any two. It awaits the gate's sensors with old readings.
- A hand-in stands for the required outputs and the completion. Members are in
  the graph from the start: fan-out and amendments are not modelled. Readings
  are told apart by their verdict. Overrides and the fail-fast check of a
  phase's members are left out.
- `phase_attempts` and `registerDispatch` are one step, so are the bridge's
  acceptance and its acknowledgement. Repository mode only.

## 3. Runs

| run | question | checks |
|---|---|---|
| `Takeover.cfg` | one worker's turn, two incarnations, fence, deadline, pause, end | `WorkersStartOnce`, `ClaimsFollowLease`, `MemoryAgrees`, `FencedEffectsAreCancelled`, `OutcomesAdvance`, `FreshResultsPrecedeFences`, `EveryEffectSettles` |
| `Writers.cfg` | a turn and a workspace effect compete for one slot | `TypeOK`, `ReservationsMatchOpenIntents`, `WithinLimits` |
| `Budget.cfg` | two turns that exceed the budget together, grants, partial use | `WithinLimits`, `LedgerSpec` |
| `Cohort.cfg` | an undisturbed supervisor and a fail-fast batch | `EndingIsOrderly`, `EndingRunEnds`, `FailuresFenceTheirTask` |
| `Supervisor.cfg` | two commands, two incarnations of the daemon and a direct recovery | `TypeOK`, `AcknowledgedMeansDone`, `ReceiptsTellHistory`, `TakenInOrder`, `DrainedIsStill`, `OnlyTheHolderAnswers`, `LedgerSpec` |
| `Retries.cfg` | a daemon beside a direct recovery that may die with the lease | `WokenServiceAnswers`, `DrainEnds` |
| `Integration.cfg` | two runs, two daemons, one of which crashes and hangs | `TypeOK`, `GatedBeforePublished`, `OneIntegrationAtATime`, `TrustedAgrees`, `CompletionAfterIntegration`, `OnlyUnderTheSlot`, `LedgerSpec` |
| `Lifecycle.cfg` | two phases, two drivers, a question, a steering, a decision | `TypeOK`, `ClosedOnItsEvidence`, `AnswersGoForward`, `EndedIsComplete`, `TriesWithinCeiling`, `TurnsAreNotTaken`, `LedgerSpec` |

Bounds, none of which the proofs need:

- effects: two incarnations, two operations, two tasks; one reconciliation
  before an effect is settled (the code's commands allow 3: the count only
  delays the settlement); `QuietFence = 1`: crashes, expiries and pauses strike
  during the first tenancy of the lease, so the second owner meets everything
  the first can leave behind, and liveness is asked once they stop.
- service: two commands of one run, one of them delivered by the outbox, one
  leaving an effect; two cycles per loop; one operation that throws. Two
  commands are the fewest with an order, three processes the fewest that take a
  run over twice.
- integration: two runs with one attempt each, one reconciliation; the faulty
  daemon crashes anywhere, and hangs past its leases in publication while the
  slot is in its first tenancy. The other one then meets every state the first
  can leave, and writes of the first that come late.
- lifecycle: two phases of one task, three ordinals, the second phase with a
  person's approval, two tries and an escalation; questions, steering, a hand
  start and a missed delivery strike its first dispatch; drivers stop between the
  gate and the closing, the closing and the next phase's start, and before an
  answer is marked.

Four runs show where the code and what the repository says of it part ways:

- `EscalationLivelock.cfg`: an escalated request counts as answered once the
  limit covers it beside what is *spent* (`index.ts` 7493-7506, 7731-7756), but
  admission also deducts what is *reserved*. Finding too little, `persistIntent`
  inserts the escalation's row a second time, its primary key refuses, and the
  cycle throws before it observes the effect it had claimed, whose settlement
  would free the reservation. Every later cycle does the same.
- `UnwitnessedCancel.cfg`: a cancellation that finds no outcome settles the
  effect as cancelled without asking the host, though an incarnation that died
  may have dispatched it; the turn may still be running.
- `EndRunFails.cfg`: `end-run` on a run with a scope the context broker
  registered updates the broker's state first, then finds the scope table to
  differ, and throws.
- `PolicyLost.cfg`: the failure policy acts on the batch's results in memory;
  a crash after the commits leaves the failed task unfenced for good.

The runs may stop when everything is settled, hence `CHECK_DEADLOCK FALSE`.
The two incarnations are interchangeable where no liveness is checked, and so
are the two drivers.

**Fairness.** Effects (`FairSpec`): `WF(Cycle(p))`, since the pump of
`service.ts` cycles as long as a run is runnable, and host calls return;
`WF(WorkEnds(o))`, since a turn has a time limit; `WF(Expire)` for a dead owner,
since leases carry a duration. Nothing is assumed of operators, fences, lost
responses or crashes. `FailuresFenceTheirTask` is checked in `Cohort.cfg` with
a single incarnation, which does not die; with crashes it fails
(`PolicyLost.cfg`).
Service (`Fairness`): weak fairness of the steps of a cycle, of the pump's end,
of the timer and of a drain's end, since the event loop turns; of expiries that
nobody renews; and strong fairness of `BeginCycle` and `BeginRecovery`, since
the service's operations wait for each other in the order they came. The other
two components have no fairness and no liveness: an integration can be stranded
and a phase can wait for a person, as the hazards say.

Every property has a faulty variant of the code beside the definition it
replaces (`GrantedFenceKept`, `AttemptActionRedispatching`, `StandingMoved`,
...), under which the property fails in the same run.

## 4. Proofs

Each safety property of a passing run, invariant or action property, and each
refinement is proved from the assumptions on the constants alone: any set of
incarnations, runs, commands, tasks, operations and attempts (finite where the
code counts them), any amounts, limits and bounds. The strengthenings were
model-checked before they were proved.

Out of the prover's reach and model-checked only is liveness under fairness:
`EveryEffectSettles`, `EndingRunEnds`, `FailuresFenceTheirTask`,
`WokenServiceAnswers`, `DrainEnds`.

### Effects of one run

| theorem | says |
|---|---|
| `TypeCorrect` | `Spec => []TypeOK` |
| `HoldersMemoryAgrees` | `Spec => []MemoryAgrees` |
| `WorkersAreStartedOnce` | `Spec => []WorkersStartOnce` |
| `BudgetIsKept` | `Spec => []WithinLimits` |
| `ClaimsAreTheHolders` | `Spec => []ClaimsFollowLease` |
| `FencedTasksWindDown` | `Spec => []FencedEffectsAreCancelled` |
| `RunsEndInOrder` | `Spec => []EndingIsOrderly` |
| `OutcomesOnlyAdvance` | `Spec => OutcomesAdvance` |
| `FencesComeAfterFreshResults` | `Spec => FreshResultsPrecedeFences` |
| `ReservationsAreTheOpenIntents` | `Spec => []ReservationsMatchOpenIntents` |
| `RunnerKeepsTheLedger` | `Spec => LedgerSpec` |

None of the fence, ending and outcome properties is inductive by
itself: a commit reopens an effect if it may write over a terminal outcome. The
strengthening is `MemoryInv`: an incarnation outside a cycle remembers nothing,
outcomes belong to intents, and `MemoryAgrees`: *while its lease holds*, what a
cycle is to claim, observe or commit is open and what it is to start has no
intent. It is inductive because taking the lease ends every other hold on it
(owner or fence differ), only the holder writes intents and outcomes, and what
it commits it takes off its plan. A cycle that lost its lease may remember
anything; `assertRunnerFence` keeps it out. A commit therefore closes an open
effect or leaves it open (`CommitOpensNothing`), from which endings, fences and
outcomes follow.

`WorkersStartOnce` adds `DispatchesAreOwned`: an intent is in the memory of at
most one incarnation, and until that one has called the host nobody has.
`FreshResultsPrecedeFences` adds `StaleClaimsWindDown`: what is claimed behind a
fence was cancelled by it, so its claim is a cancellation or a settlement.

`FencedRunnerMemory` and `FencedRunnerProofs` first sort the steps by what they
write (`MemoryWrites`, `TableWrites`); each invariant then has one case per
kind of step.

`ReservationsMatchOpenIntents` and the refinement speak of a sum over a set. A
recursive function over sets takes some order of its elements, and that the
order does not matter would be an induction over a formula. It is shown instead
with a smallest counterexample: `SumsAre` says what a sum with one element more
is, by looking at the smallest set (`WFMin` over the sizes) for which it is not
so. From then on an intent adds its amount (`PersistOpens`) and a commit takes
it away (`CommitOpensNothing`), in the budget's row as in the sum.

### Command queue and service

| theorem | says |
|---|---|
| `SupervisorTypes`, `SupervisorDrains` | `Spec => []TypeOK`, `Spec => []DrainedIsStill` |
| `KeptAlways` | `Spec => []Kept`, the inductive invariant |
| `ReceiptsAreHistory` | `Spec => []ReceiptsTellHistory` |
| `WakesAreAcknowledgedLast` | `Spec => []AcknowledgedMeansDone` |
| `CommandsAreTakenInOrder` | `Spec => []TakenInOrder` |
| `HoldersAnswer` | `Spec => OnlyTheHolderAnswers` |
| `SupervisorKeepsTheLedger` | `Spec => LedgerSpec` |
| `CommandsTakeEffectOnce` | at most one effect, and it precedes the answer |

Types alone are not inductive: that a cycle is where it may be depends on which
process runs the loop. `Typed` adds `CyclesFit`, `ServiceUp`, `NoRetry` and
`DrainedIsStill`. `OneTransaction` then says that a step is at most one of the
queue's transactions, so the queue's invariants have one case per transaction.
`Kept` adds that a terminal command was applied (`Bookkept`), that what a cycle
executes was claimed and what it answers was applied, although another process
may have done both meanwhile (`CarriedOut`), and that the holder of a lease is
the one its row names (`HolderIsLeased`). The acknowledgement of wakes needs
that no acknowledgement passes its generation (`WakesBounded`), the order that
places count the accepted commands (`PlacesCount`), whence `IsFiniteSet(Command)`.

### Integration of worktrees

| theorem | says |
|---|---|
| `IntegrationTypeCorrect` | `Spec => []TypeOK` |
| `OnlyGatedWorkIsPublished` | `Spec => []GatedBeforePublished` |
| `IntegrationsExclude` | `Spec => []OneIntegrationAtATime` |
| `TrustFollowsTheBranch` | `Spec => []TrustedAgrees` |
| `CompletionFollowsIntegration` | `Spec => []CompletionAfterIntegration` |
| `AttemptsChangeUnderTheSlot` | `Spec => OnlyUnderTheSlot` |
| `IntegrationKeepsTheLedger` | `Spec => LedgerSpec` |
| `GivenUpWorkStaysOff` | what is on the branch is never given up |

`Safe` is the invariant for the state properties: with the types, what a
service still goes by when its leases are gone (`Leased`, `Ownership`), that a
stage of the host stands on the record it needs (`Evidence`), and that a verdict
"new" of the branch is about a commit that is there (`Trusting`).
The refinement needs `Sound`. The hard part is that work which was given up
never reaches the branch, and that work on it is never given up: the branch
moves without the slot being asked, and a cancellation may come from the next
daemon. Three more invariants exclude it: stages follow one another and one
service merges at a time (`Staged`); a cancellation is asked for only of an
ended run (`Asking`); and an attempt that is on the branch or may still be put
there, in a state that can be cancelled, is carried by the service that holds
its run's lease (`Carried`).
`Register` maps to `Begin`, `Move` to `Integrate`, the barrier to `Accept`, a
record of a failure to `Drop`; all else stutters.

### A run's way through its phases

| theorem | says |
|---|---|
| `RunTypeCorrect` | `Spec => []TypeOK` |
| `PhasesCloseOnTheirEvidence` | `Spec => []ClosedOnItsEvidence` |
| `EndedRunsAreComplete` | `Spec => []EndedIsComplete` |
| `AnswersReachALaterAttempt` | `Spec => []AnswersGoForward` |
| `RunningAgentsKeepTheirTask` | `Spec => TurnsAreNotTaken` |
| `TriesStayWithinTheCeiling` | `Spec => TriesWithinCeiling` |
| `RunKeepsTheLedger` | `Spec => LedgerSpec` |
| `ClosuresAreFinal`, `OrdinalsAreConsecutive`, `HandedWorkKeepsItsTask` | what follows from the invariants below |

Commands first: `CompletionDoes` .. `TransitionDoes` say what each of
`RuntimeAuthority`'s commands does to the records, whatever the driver that
gives it has read. `JudgementStep` sorts the steps by what they do to the
judgement of a phase: assess a completion, judge, decide, close, start the next.

- `Evidence`: a candidate covers the completions the authority holds, of work
  that was handed in, and a driver's reading is of its phase. Closing and ending
  follow, and the refinement: a driver judges, a completion withdraws a rejected
  judgement, `Close` closes, `StartNext` advances.
- `Forward`: what a driver carries was asked by an earlier attempt.
- `Scoped`: the holder of a task is its newest attempt, and it was taken from
  the one before for a reason that lasts (`Witnessed`, `Exhausted`).
- `Ceiling`: a driver that counted the tries, awaited the sensors and dispatches
  with the old count stays within the ceiling, although another one may have
  dispatched meanwhile. Ordinals have no gaps (`Consecutive`), and the driver
  means to take the next one after those it counted (`Counted`): a try it has
  not counted has that ordinal or a later one, and then its own is refused.

## 5. Plan

Done: the four components and the proofs of all their safety properties.
Still to do, in this order:

1. Amendments: their proposals, fences, quiescence and application over
   `RunDriver`'s records, and the members a fan-out adds.
2. `RemoteDelivery`: poll, authorise, execute, report, acknowledge under loss,
   duplication and expiry, with a ledger of deliveries.
3. Kernel operators (ready frontier, gates, completion, fan-out, budgets)
   against reference definitions over bounded inputs.
4. More of the service's liveness: the pump serves the first runnable run of a
   sorted list, which the hazards describe, over two runs.

Not planned: routing, rendering, codecs, configuration, the worker's SDK
session, backup and reset (pure functions or I/O), and the in-memory twin of
the authority, which is a test double. `PROJECT.json` lists each part that is
not modelled with the reason, and each hazard no property covers.
