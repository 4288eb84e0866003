---------------------------- MODULE FencedRunner ----------------------------
(***************************************************************************)
(* The supervisor's effect cycle: AsyncFencedRunner                        *)
(* (packages/runtime/src/runner.ts) as SupervisorRunController.runOnceAsync*)
(* (packages/supervisor/src/run-controller.ts) drives it, over the durable *)
(* RunnerAuthority and an effect host.  Each owner is one incarnation of   *)
(* the service process; it runs one cycle at a time, and each of its       *)
(* transactions, host calls and host answers is a step of its own, so two  *)
(* incarnations interleave wherever the code can lose the processor.       *)
(*                                                                         *)
(* A cycle that plans nothing only takes and releases the lease; such      *)
(* cycles are left out.                                                    *)
(***************************************************************************)
EXTENDS RunnerAuthority, FiniteSetsExt

CONSTANTS
  BatchSize,      \* transitions per cycle while the run is running
  FailurePolicy,  \* "none", "continue" or "fail-fast"
  AmendedTask,    \* tasks an approved amendment may fence
  TimedOp,        \* operations whose command carries a deadline
  QuietFence,     \* crashes, expiries and pauses end with this lease fence
  GrantSizes      \* the increases a grant-allowance command may ask for

ASSUME RunnerAssumption ==
  /\ BatchSize \in Nat \ {0}
  /\ FailurePolicy \in {"none", "continue", "fail-fast"}
  /\ AmendedTask \subseteq Task /\ TimedOp \subseteq Op
  /\ QuietFence \in Nat
  /\ GrantSizes \subseteq Nat \ {0}

VARIABLES
  pc,       \* "idle", "running" or "dead", per owner
  held,     \* the fence the cycle's lease carries
  plan,     \* what the cycle planned and has not committed or skipped
  seen,     \* the fenced tasks in the snapshot the cycle loaded
  own,      \* the operations whose intent this cycle wrote
  stage,    \* how far the cycle has taken each operation it claimed
  failed,   \* worker operations this batch reported as failed
  overdue,  \* operations whose deadline has passed
  work,     \* the effect host: what became of the operation's work
  calls,    \* the effect host: how often dispatch was entered
  endRaised \* an authorised end-run command threw instead of committing

cycleVars == <<pc, held, plan, seen, own, stage, failed>>
hostVars == <<work, calls>>
vars == <<durableVars, cycleVars, overdue, hostVars, endRaised>>

----------------------------------------------------------------------------
(* Values *)

PlanKinds == {"none", "urgent", "reconcile", "start", "started"}

\* "dispatch" .. "settlement" is a claimed action whose host call is still to
\* come, "entering" a dispatch past its last lease check, "called" an
\* outstanding dispatch, "lost" one whose response was lost, a status an
\* observation ready to commit, "error" an observation that threw.
Stages == {"none", "entering", "called", "lost", "error"} \cup Origins \cup Statuses

Works == {"none", "running", "completed", "stopped"}

NoPlan == [o \in Op |-> "none"]
NoStage == [o \in Op |-> "none"]

TypeOK ==
  /\ DurableTypeOK
  /\ pc \in [Owner -> {"idle", "running", "dead"}]
  /\ held \in [Owner -> Nat]
  /\ plan \in [Owner -> [Op -> PlanKinds]]
  /\ seen \in [Owner -> SUBSET Task]
  /\ own \in [Owner -> SUBSET Op]
  /\ stage \in [Owner -> [Op -> Stages]]
  /\ failed \in [Owner -> SUBSET Op]
  /\ overdue \subseteq Op
  /\ work \in [Op -> Works]
  /\ calls \in [Op -> Nat]
  /\ endRaised \in BOOLEAN

Init ==
  /\ DurableInit
  /\ pc = [p \in Owner |-> "idle"]
  /\ held = [p \in Owner |-> 0]
  /\ plan = [p \in Owner |-> NoPlan]
  /\ seen = [p \in Owner |-> {}]
  /\ own = [p \in Owner |-> {}]
  /\ stage = [p \in Owner |-> NoStage]
  /\ failed = [p \in Owner |-> {}]
  /\ overdue = {}
  /\ work = [o \in Op |-> "none"]
  /\ calls = [o \in Op |-> 0]
  /\ endRaised = FALSE

----------------------------------------------------------------------------
(* Planning a batch: scheduleRunnerTransitions *)

CancelRequired(o) == o \in cancelled \/ o \in overdue

BatchLimit == IF mode = "running" THEN BatchSize ELSE 1

\* The effects without a terminal outcome, those to cancel first.
ReconcilesBefore(a, b) ==
  IF CancelRequired(a) = CancelRequired(b) THEN a < b ELSE CancelRequired(a)
PlannedReconciles ==
  {o \in OpenIntents :
     Cardinality({a \in OpenIntents : ReconcilesBefore(a, o)}) < BatchLimit}

\* Commands that may start: not started, not waiting on a budget decision,
\* and in a scope that still accepts claims.
IsWaiting(o) == o \in escalated /\ ~IsAnswered(o)
Startable == {o \in queued \ intents : ~IsWaiting(o) /\ ~IsFenced(o)}
\* Writers take the free slots in operation order; the others need none.
Fitting ==
  {o \in Startable : o \in WriterOp =>
     Cardinality({a \in Startable \cap WriterOp : a < o}) < FreeSlots}
PlannedStarts ==
  {o \in Fitting : Cardinality({a \in Fitting : a < o})
                     < BatchLimit - Cardinality(PlannedReconciles)}

PlannedKind(o) ==
  CASE o \in PlannedReconciles /\ CancelRequired(o) -> "urgent"
    [] o \in PlannedReconciles /\ ~CancelRequired(o) -> "reconcile"
    [] o \in PlannedStarts -> "start"
    [] OTHER -> "none"

\* The batch works through its plan in this order.
Rank(kind) == CASE kind = "urgent" -> 0
                [] kind = "reconcile" -> 1
                [] OTHER -> 2
IsFirst(p, o, ops) ==
  /\ o \in ops
  /\ \A a \in ops \ {o} :
       \/ Rank(plan[p][o]) < Rank(plan[p][a])
       \/ Rank(plan[p][o]) = Rank(plan[p][a]) /\ o < a

\* What is still to be claimed.
Planned(p) == {o \in Op : plan[p][o] # "none" /\ stage[p][o] = "none"}
IsNext(p, o) == IsFirst(p, o, Planned(p))

----------------------------------------------------------------------------
(* One cycle *)

\* runOnceAsync acquires the run lease, then loads the snapshot and plans.
BeginCycle(p) ==
  /\ pc[p] = "idle"
  /\ Runnable
  /\ AcquireLease(p)
  /\ PlannedReconciles \cup PlannedStarts # {}
  /\ pc' = [pc EXCEPT ![p] = "running"]
  /\ held' = [held EXCEPT ![p] = GrantedFence]
  /\ plan' = [plan EXCEPT ![p] = [o \in Op |-> PlannedKind(o)]]
  /\ seen' = [seen EXCEPT ![p] = fenced]
  /\ UNCHANGED <<mode, fenced, queued, intents, claim, outcome, cancelled,
                 escalated, resolved, budgetVars, own, stage, failed,
                 overdue, hostVars, endRaised>>

\* What the cycle had planned, loaded or claimed lives in memory only.
ForgetMemory(p) ==
  /\ held' = [held EXCEPT ![p] = 0]
  /\ plan' = [plan EXCEPT ![p] = NoPlan]
  /\ seen' = [seen EXCEPT ![p] = {}]
  /\ own' = [own EXCEPT ![p] = {}]
  /\ stage' = [stage EXCEPT ![p] = NoStage]
  /\ failed' = [failed EXCEPT ![p] = {}]

Forget(p) ==
  /\ pc' = [pc EXCEPT ![p] = "idle"]
  /\ ForgetMemory(p)

\* A cycle that throws leaves the lease as it is.
Throw(p) ==
  /\ Forget(p)
  /\ UNCHANGED <<durableVars, overdue, hostVars, endRaised>>

Drop(p, o) == plan' = [plan EXCEPT ![p][o] = "none"]
SkipPlanned(p, o) ==
  /\ Drop(p, o)
  /\ UNCHANGED <<durableVars, pc, held, seen, own, stage, failed, overdue,
                 hostVars, endRaised>>

----------------------------------------------------------------------------
(* persistIntent.  Its answers for a command that already has an intent or *)
(* a waiting escalation, or finds no free slot, are for callers that plan  *)
(* nothing: a cycle plans no such start, and nobody else can write an      *)
(* intent while its lease holds.                                           *)

Starting(p, o) == pc[p] = "running" /\ IsNext(p, o) /\ plan[p][o] = "start"

AcceptsEffect(o) == mode = "running" /\ ~IsFenced(o)

\* The lease is gone, the run or the scope takes no new effect, or the
\* command escalated before and its escalation row cannot be inserted twice:
\* the transaction throws and the batch ends with it.
RefuseIntent(p, o) ==
  /\ Starting(p, o)
  /\ \/ ~HoldsLease(p, held[p])
     \/ ~AcceptsEffect(o)
     \/ Amount[o] > Available /\ o \in escalated
  /\ Throw(p)

Admissible(p, o) ==
  /\ Starting(p, o)
  /\ HoldsLease(p, held[p])
  /\ AcceptsEffect(o)

Escalate(p, o) ==
  /\ Admissible(p, o)
  /\ Amount[o] > Available
  /\ o \notin escalated
  /\ escalated' = escalated \cup {o}
  /\ Drop(p, o)
  /\ UNCHANGED <<lease, mode, fenced, queued, intents, claim, outcome,
                 cancelled, resolved, budgetVars, pc, held, seen, own,
                 stage, failed, overdue, hostVars, endRaised>>

PersistIntent(p, o) ==
  /\ Admissible(p, o)
  /\ Amount[o] <= Available
  /\ HasSlot(o)
  /\ intents' = intents \cup {o}
  /\ reserved' = reserved + Amount[o]
  /\ occupied' = occupied + SlotsOf(o)
  /\ own' = [own EXCEPT ![p] = @ \cup {o}]
  /\ plan' = [plan EXCEPT ![p][o] = "started"]
  /\ UNCHANGED <<lease, mode, fenced, queued, claim, outcome, cancelled,
                 escalated, resolved, limit, spent, pc, held, seen, stage,
                 failed, overdue, hostVars, endRaised>>

----------------------------------------------------------------------------
(* claimEffectAttempt.  Its replay of a settled effect is likewise for      *)
(* other callers: only the lease's holder settles effects.                  *)

ToClaim == {"urgent", "reconcile", "started"}
Claiming(p, o) == pc[p] = "running" /\ IsNext(p, o) /\ plan[p][o] \in ToClaim

ActionOf(p, o) == AttemptAction(o, CancelRequired(o), o \in own[p])

\* The caller passes the scope of the snapshot it loaded.
SeesScope(p, o) == (TaskOf[o] \in seen[p]) <=> IsFenced(o)

RefuseClaim(p, o) ==
  /\ Claiming(p, o)
  /\ ~HoldsLease(p, held[p]) \/ ~SeesScope(p, o)
  /\ Throw(p)

Claimable(p, o) ==
  Claiming(p, o) /\ HoldsLease(p, held[p]) /\ SeesScope(p, o)

\* A claim under the fence of the caller's own lease answers "busy".
IsBusy(p, o) == claim[o].fence = held[p]
SkipClaim(p, o) ==
  /\ Claimable(p, o)
  /\ IsBusy(p, o)
  /\ SkipPlanned(p, o)

Claim(p, o) ==
  /\ Claimable(p, o)
  /\ ~IsBusy(p, o)
  /\ claim' = [claim EXCEPT ![o] =
       [owner |-> p, fence |-> held[p],
        origin |-> ActionOf(p, o), stale |-> IsFenced(o)]]
  /\ stage' = [stage EXCEPT ![p][o] = ActionOf(p, o)]
  /\ UNCHANGED <<lease, mode, fenced, queued, intents, outcome, cancelled,
                 escalated, resolved, budgetVars, pc, held, plan, seen, own,
                 failed, overdue, hostVars, endRaised>>

----------------------------------------------------------------------------
(* Observing: observeClaimedAction, for all claimed operations at once      *)

Observing(p) == pc[p] = "running" /\ Planned(p) = {}

\* Under fail-fast an unsuccessful observation of a worker cycle's batch
\* aborts the signal its siblings share.  A batch of one passes no policy.
CohortAborted(p) ==
  /\ FailurePolicy = "fail-fast" /\ BatchSize > 1
  /\ \E o \in Op : stage[p][o] \in {"failed", "cancelled"}

Working(p, o) == Observing(p) /\ ~CohortAborted(p)

Advance(p, o, to) == stage' = [stage EXCEPT ![p][o] = to]
Observe(p, o, to) ==
  /\ Advance(p, o, to)
  /\ UNCHANGED <<durableVars, pc, held, plan, seen, own, failed, overdue,
                 endRaised>>

\* A settlement asks nobody: it closes the effect from what is recorded.
Settle(p, o) ==
  /\ Working(p, o)
  /\ stage[p][o] = "settlement"
  /\ Observe(p, o, IF outcome[o].status = "none" THEN "cancelled" ELSE "failed")
  /\ UNCHANGED hostVars

\* hostContext asserts the lease before every host call; a stale lease is
\* the one error that is not taken for a lost response.
LoseFence(p, o) ==
  /\ Working(p, o)
  /\ stage[p][o] \in {"dispatch", "inspection", "cancellation", "lost"}
  /\ ~HoldsLease(p, held[p])
  /\ Observe(p, o, "error")
  /\ UNCHANGED hostVars

EnterDispatch(p, o) ==
  /\ Working(p, o)
  /\ stage[p][o] = "dispatch"
  /\ HoldsLease(p, held[p])
  /\ Observe(p, o, "entering")
  /\ UNCHANGED hostVars

\* The lease may be lost between its check and the call itself.
CallDispatch(p, o) ==
  /\ Working(p, o)
  /\ stage[p][o] = "entering"
  /\ Observe(p, o, "called")
  /\ work' = [work EXCEPT ![o] = IF @ = "none" THEN "running" ELSE @]
  /\ calls' = [calls EXCEPT ![o] = @ + 1]

\* A worker turn answers "completed" only with an accepted completion and
\* "cancelled" for every other ending.
DispatchAnswers(o) ==
  CASE work[o] = "completed" -> {"completed"}
    [] work[o] = "stopped" ->
         IF o \in WorkerOp THEN {"cancelled"} ELSE {"cancelled", "failed"}
    [] OTHER -> {}
AnswerDispatch(p, o) ==
  /\ Working(p, o)
  /\ stage[p][o] = "called"
  /\ \E status \in DispatchAnswers(o) : Observe(p, o, status)
  /\ UNCHANGED hostVars

\* The call throws, or its answer is lost on the way back.
LoseResponse(p, o) ==
  /\ Working(p, o)
  /\ \/ stage[p][o] = "called"
     \/ stage[p][o] = "cancellation" /\ HoldsLease(p, held[p])
  /\ Observe(p, o, "lost")
  /\ UNCHANGED hostVars

\* A worker host knows an accepted completion and whether a session exists,
\* and never answers "missing"; the workspace host answers from its records.
InspectAnswers(o) ==
  CASE work[o] = "completed" -> {"completed"}
    [] work[o] = "none" -> IF o \in WorkerOp THEN {"unknown"} ELSE {"missing"}
    [] work[o] = "running" ->
         {"active", "unknown"} \cup (IF o \in WorkerOp THEN {} ELSE {"missing"})
    [] OTHER -> IF o \in WorkerOp THEN {"active", "unknown"}
                                  ELSE {"missing", "unknown", "cancelled"}

\* A missing effect is dispatched again; an inspection that throws is unknown.
Inspect(p, o) ==
  /\ Working(p, o)
  /\ stage[p][o] = "inspection"
  /\ HoldsLease(p, held[p])
  /\ \E answer \in InspectAnswers(o) \cup {"unknown"} :
       Observe(p, o, IF answer = "missing" THEN "dispatch" ELSE answer)
  /\ UNCHANGED hostVars

\* After a lost response a missing effect is not dispatched again.  (Faulty
\* variant: its absence is taken for an observation.)
InspectLostVerbatim(p, o) ==
  /\ Working(p, o)
  /\ stage[p][o] = "lost"
  /\ HoldsLease(p, held[p])
  /\ \E answer \in InspectAnswers(o) : Observe(p, o, answer)
  /\ UNCHANGED hostVars
InspectLost(p, o) ==
  /\ Working(p, o)
  /\ stage[p][o] = "lost"
  /\ HoldsLease(p, held[p])
  /\ \E answer \in InspectAnswers(o) \cup {"unknown"} :
       Observe(p, o, IF answer = "missing" THEN "unknown" ELSE answer)
  /\ UNCHANGED hostVars

\* A worker host stops the session or cannot say; the workspace host records
\* the cancellation, or cannot say while a publication is under way.
CancelWork(p, o) ==
  /\ Working(p, o)
  /\ stage[p][o] = "cancellation"
  /\ HoldsLease(p, held[p])
  /\ \/ /\ Observe(p, o, "cancelled")
        /\ work' = [work EXCEPT ![o] =
             IF @ = "running" /\ o \in WorkerOp THEN "stopped" ELSE @]
     \/ /\ Observe(p, o, "unknown")
        /\ work' = work
  /\ calls' = calls

\* The aborted siblings are observed as cancelled; an aborted dispatch stops.
AbortSibling(p, o) ==
  /\ Observing(p)
  /\ CohortAborted(p)
  /\ stage[p][o] \in {"entering", "called", "lost"} \cup Origins
  /\ Observe(p, o, "cancelled")
  /\ work' = [work EXCEPT ![o] =
       IF @ = "running" /\ stage[p][o] = "called" THEN "stopped" ELSE @]
  /\ calls' = calls

----------------------------------------------------------------------------
(* Committing in the plan's order, once every observation has settled       *)

AllObserved(p) ==
  /\ Observing(p)
  /\ \A o \in Op : stage[p][o] \in {"none", "error"} \cup Statuses

Observed(p) == {o \in Op : stage[p][o] \in Statuses}
Committing(p, o) == AllObserved(p) /\ IsFirst(p, o, Observed(p))

\* (Faulty variant: the commit trusts the caller.)
OwnsClaimUnchecked(p, o) == TRUE
OwnsClaim(p, o) ==
  HoldsLease(p, held[p]) /\ claim[o].owner = p /\ claim[o].fence = held[p]

\* advanceRunControlToEndedIfQuiescent, after o's outcome is written.  (Faulty
\* variants: the first settlement ends the run; no settlement does.)
EndIfQuiescentEarly(o) == mode' = IF mode = "ending" THEN "ended" ELSE mode
EndIfQuiescentNever(o) == mode' = mode
EndIfQuiescent(o) ==
  mode' = IF mode = "ending" /\ OpenIntents \subseteq {o} THEN "ended" ELSE mode

\* commitEffect.  A terminal outcome returns the reservation, books what the
\* host reported (everything, if it reported nothing) and frees the slot.
CommitEffect(p, o) ==
  /\ Committing(p, o)
  /\ OwnsClaim(p, o)
  /\ LET status == stage[p][o]
         settles == status \in Terminal
     IN
     /\ outcome' = [outcome EXCEPT ![o] =
          [status |-> status, attempts |-> NextAttempts(o, status),
           origin |-> claim[o].origin,
           fresh |-> claim[o].stale = IsFenced(o)]]
     /\ IF settles
        THEN /\ reserved >= Amount[o] /\ occupied >= SlotsOf(o)
             /\ reserved' = reserved - Amount[o]
             /\ \E used \in 0..Amount[o] : spent' = spent + used
             /\ occupied' = occupied - SlotsOf(o)
             /\ EndIfQuiescent(o)
        ELSE UNCHANGED <<reserved, spent, occupied, mode>>
     /\ failed' = [failed EXCEPT ![p] =
          @ \cup (IF status = "failed" THEN {o} \cap WorkerOp ELSE {})]
  /\ claim' = [claim EXCEPT ![o] = NoClaim]
  /\ Drop(p, o)
  /\ Advance(p, o, "none")
  /\ UNCHANGED <<lease, fenced, queued, intents, cancelled, escalated,
                 resolved, limit, pc, held, seen, own, overdue,
                 hostVars, endRaised>>

\* The commit throws: lease or claim lost.  The batch goes on and throws last.
LoseCommit(p, o) ==
  /\ Committing(p, o)
  /\ ~OwnsClaim(p, o)
  /\ Observe(p, o, "error")
  /\ UNCHANGED hostVars

AllCommitted(p) ==
  Observing(p) /\ \A o \in Op : stage[p][o] \in {"none", "error"}
HasErrors(p) == \E o \in Op : stage[p][o] = "error"

\* The errors of the batch are thrown once its last commit is through.
ThrowErrors(p) ==
  AllCommitted(p) /\ HasErrors(p) /\ Throw(p)

\* #applyFailurePolicy after a batch that reported worker failures: "continue"
\* fences the tasks that failed, "fail-fast" every task of the admission.
\* The cancellations it then requests were already requested by the fences.
FailedTasks == {TaskOf[o] : o \in {a \in intents : outcome[a].status = "failed"}}
\* (Faulty variant: only the tasks whose effects are still open.)
PolicyTasksOpen == {TaskOf[o] : o \in OpenIntents}
PolicyTasks == IF FailurePolicy = "continue" THEN FailedTasks
                                             ELSE {TaskOf[o] : o \in intents}
ApplyFailurePolicy(p) ==
  /\ AllCommitted(p) /\ ~HasErrors(p)
  /\ FailurePolicy # "none"
  /\ failed[p] # {}
  /\ InstallFences(PolicyTasks \ fenced)
  /\ failed' = [failed EXCEPT ![p] = {}]
  /\ UNCHANGED <<lease, mode, queued, intents, claim, outcome, escalated,
                 resolved, budgetVars, pc, held, plan, seen, own, stage,
                 overdue, hostVars, endRaised>>

\* A cycle that did not throw releases the lease, if it still has it.
FinishCycle(p) ==
  /\ AllCommitted(p) /\ ~HasErrors(p)
  /\ FailurePolicy # "none" => failed[p] = {}
  /\ lease' = IF HoldsLease(p, held[p]) THEN [lease EXCEPT !.live = FALSE]
                                        ELSE lease
  /\ Forget(p)
  /\ UNCHANGED <<mode, fenced, queued, intents, claim, outcome, cancelled,
                 escalated, resolved, budgetVars, overdue, hostVars, endRaised>>

----------------------------------------------------------------------------
(* Everything else that reaches the run                                     *)

Disturbed == lease.fence <= QuietFence

\* enqueueIdempotent, from the production scheduler.
Enqueue(o) ==
  /\ mode = "running"
  /\ o \notin queued
  /\ queued' = queued \cup {o}
  /\ UNCHANGED <<lease, mode, fenced, intents, claim, outcome, cancelled,
                 escalated, resolved, budgetVars, cycleVars, overdue,
                 hostVars, endRaised>>

PassDeadline(o) ==
  /\ o \in (TimedOp \cap queued) \ overdue
  /\ overdue' = overdue \cup {o}
  /\ UNCHANGED <<durableVars, cycleVars, hostVars, endRaised>>

\* An approved amendment fences a task's scope.
FenceTask(t) ==
  /\ t \in AmendedTask \ fenced
  /\ InstallFences({t})
  /\ UNCHANGED <<lease, mode, queued, intents, claim, outcome, escalated,
                 resolved, budgetVars, cycleVars, overdue, hostVars, endRaised>>

\* grant-allowance resolves one escalation and raises the limit.
GrantAllowance(o) ==
  /\ mode \in {"running", "paused"}
  /\ o \in escalated \ resolved
  /\ \E increase \in GrantSizes :
       /\ limit + increase <= Ceiling
       /\ limit' = limit + increase
  /\ resolved' = resolved \cup {o}
  /\ UNCHANGED <<lease, mode, fenced, queued, intents, claim, outcome,
                 cancelled, escalated, reserved, spent, occupied, cycleVars,
                 overdue, hostVars, endRaised>>

SetMode(from, to) ==
  /\ mode = from
  /\ mode' = to
  /\ UNCHANGED <<lease, fenced, queued, intents, claim, outcome, cancelled,
                 escalated, resolved, budgetVars, cycleVars, overdue,
                 hostVars, endRaised>>
PauseRun == Disturbed /\ SetMode("running", "paused")
ResumeRun == SetMode("paused", "running")

\* end-run.  The scopes the context broker knows are fenced in its own state
\* first; mirroring that state into the scope table, whose rows still accept
\* claims, throws.
AcceptingContext == ContextTask \ fenced
EndRun ==
  /\ mode \in {"running", "paused"}
  /\ AcceptingContext = {}
  /\ fenced' = Task
  /\ cancelled' = cancelled \cup OpenIntents
  /\ mode' = IF OpenIntents = {} THEN "ended" ELSE "ending"
  /\ UNCHANGED <<lease, queued, intents, claim, outcome, escalated, resolved,
                 budgetVars, cycleVars, overdue, hostVars, endRaised>>
EndRunThrows ==
  /\ mode \in {"running", "paused"}
  /\ AcceptingContext # {}
  /\ endRaised' = TRUE
  /\ UNCHANGED <<durableVars, cycleVars, overdue, hostVars>>

\* The effect host finishes a piece of work, or its session ends without it.
WorkEnds(o) ==
  /\ work[o] = "running"
  /\ \E end \in {"completed", "stopped"} : work' = [work EXCEPT ![o] = end]
  /\ UNCHANGED <<durableVars, cycleVars, overdue, calls, endRaised>>

\* A lease runs out: its owner is gone, or too slow to renew it.
Expire ==
  /\ lease.live
  /\ Disturbed \/ pc[lease.owner] = "dead"
  /\ lease' = [lease EXCEPT !.live = FALSE]
  /\ UNCHANGED <<mode, fenced, queued, intents, claim, outcome, cancelled,
                 escalated, resolved, budgetVars, cycleVars, overdue,
                 hostVars, endRaised>>

\* An incarnation dies for good; another one takes its place.
Crash(p) ==
  /\ Disturbed
  /\ pc[p] # "dead"
  /\ \E q \in Owner \ {p} : pc[q] # "dead"
  /\ pc' = [pc EXCEPT ![p] = "dead"]
  /\ ForgetMemory(p)
  /\ UNCHANGED <<durableVars, overdue, hostVars, endRaised>>

----------------------------------------------------------------------------
(* The specification *)

Plan(p, o) ==
  \/ RefuseIntent(p, o) \/ Escalate(p, o) \/ PersistIntent(p, o)
  \/ RefuseClaim(p, o) \/ SkipClaim(p, o) \/ Claim(p, o)

Effect(p, o) ==
  \/ Settle(p, o) \/ LoseFence(p, o)
  \/ EnterDispatch(p, o) \/ CallDispatch(p, o) \/ AnswerDispatch(p, o)
  \/ Inspect(p, o) \/ InspectLost(p, o)
  \/ CancelWork(p, o) \/ AbortSibling(p, o)

Commit(p, o) == CommitEffect(p, o) \/ LoseCommit(p, o)

CloseCycle(p) == ThrowErrors(p) \/ ApplyFailurePolicy(p) \/ FinishCycle(p)

Cycle(p) ==
  \/ BeginCycle(p)
  \/ \E o \in Op : Plan(p, o) \/ Effect(p, o) \/ Commit(p, o)
  \/ CloseCycle(p)

Environment ==
  \/ \E o \in Op : Enqueue(o) \/ PassDeadline(o) \/ GrantAllowance(o) \/ WorkEnds(o)
  \/ \E t \in Task : FenceTask(t)
  \/ PauseRun \/ ResumeRun \/ EndRun \/ EndRunThrows
  \/ Expire
  \/ \E p \in Owner : Crash(p) \/ (\E o \in Op : LoseResponse(p, o))

Next == (\E p \in Owner : Cycle(p)) \/ Environment

Spec == Init /\ [][Next]_vars

\* The pump of a living supervisor keeps cycling, a worker's turn has a time
\* limit, and the lease of a dead owner runs out.
Fairness ==
  /\ \A p \in Owner : WF_vars(Cycle(p))
  /\ \A o \in Op : WF_vars(WorkEnds(o))
  /\ WF_vars(Expire /\ pc[lease.owner] = "dead")

FairSpec == Spec /\ Fairness

----------------------------------------------------------------------------
(* Safety properties *)

\* The sum of what a set of operations reserves.
Reservations(ops) == MapThenSumSet(LAMBDA o : Amount[o], ops)

\* Every open intent holds exactly its reservation and its writer slot, and a
\* settled one holds nothing: persistIntent and commitEffect keep the budget
\* and capacity rows equal to what the intents without a terminal outcome
\* reserve, whatever crashed or raced in between.
ReservationsMatchOpenIntents ==
  /\ reserved = Reservations(OpenIntents)
  /\ occupied = Cardinality(OpenIntents \cap WriterOp)

\* persistIntent and commitEffect never let the money spent and promised pass
\* the limit, nor the writers at work pass the writer capacity.
WithinLimits ==
  /\ spent + reserved <= limit
  /\ occupied <= WriterLimit

\* selectEffectAttemptAction dispatches only for the attempt that wrote the
\* intent, and the worker host never reports "missing": no crash, takeover or
\* stalled incarnation makes a worker's turn start twice.
WorkersStartOnce == \A o \in WorkerOp : calls[o] <= 1

\* claimEffectAttempt takes "busy" for the answer that one attempt of the
\* current lease is already at work: no claim outlives a later fence's claims,
\* and a claim under the current fence is the lease owner's.
ClaimsFollowLease ==
  \A o \in Op :
    /\ claim[o].fence <= lease.fence
    /\ claim[o].fence = lease.fence /\ lease.fence > 0
         => claim[o].owner = lease.owner

\* installDurableTaskScopeFences cancels what is open and persistIntent admits
\* nothing new, so an effect of a fenced task never stays open uncancelled.
FencedEffectsAreCancelled ==
  \A o \in OpenIntents : IsFenced(o) => o \in cancelled

\* fenceRunForEnding and advanceRunControlToEndedIfQuiescent: a run that is
\* ending has fenced every task, and an ended one has no open effect left.
EndingIsOrderly ==
  /\ mode \in {"ending", "ended"} => fenced = Task
  /\ mode = "ended" => OpenIntents = {}

\* commitEffect never rewrites a terminal outcome and never counts
\* reconciliations down or past the command's limit.
OutcomesAdvance ==
  [][\A o \in Op :
       /\ IsTerminal(o) => outcome'[o] = outcome[o]
       /\ outcome'[o].attempts \in outcome[o].attempts..MaxReconciliation]_vars

\* requireTaskScopeCurrentness at claim and at commit: a result of ordinary
\* work recorded as current was committed before its task was fenced.  Only
\* the winding down of an effect claimed behind the fence is current there.
FreshResultsPrecedeFences ==
  [][\A o \in Op :
       (/\ outcome'[o] # outcome[o]
        /\ outcome'[o].fresh
        /\ outcome'[o].origin \in {"dispatch", "inspection"})
       => ~IsFenced(o)]_vars

(* Why they hold *)

\* assertRunnerFence lets a cycle write only while its lease holds, and for
\* that long its memory agrees with the tables: what it is to claim, observe or
\* commit is still open, what it is to start has no intent yet.  A cycle that
\* lost its lease may remember anything.
MemoryAgrees ==
  \A p \in Owner, o \in Op :
    /\ stage[p][o] # "none" => plan[p][o] \in ToClaim
    /\ HoldsLease(p, held[p]) =>
         /\ plan[p][o] \in ToClaim => o \in OpenIntents
         /\ plan[p][o] = "start" => o \notin intents

\* runOnceAsync keeps a cycle's plan, claims and intents on its stack alone:
\* an incarnation that is not in a cycle remembers none of them.
IdleRemembersNothing ==
  \A p \in Owner :
    pc[p] # "running" => plan[p] = NoPlan /\ stage[p] = NoStage /\ own[p] = {}

\* claimEffectAttempt and commitEffect take effects on from their intents.
OutcomesHaveIntents ==
  \A o \in Op : outcome[o].status # "none" => o \in intents

\* commitEffect counts from zero up to the command's limit.
AttemptsAreBounded ==
  \A o \in Op :
    /\ outcome[o].attempts <= MaxReconciliation
    /\ outcome[o].status = "none" => outcome[o].attempts = 0

\* An effect claimed behind the fence of its task was cancelled with it, so
\* selectEffectAttemptAction only winds it down.
StaleClaimsWindDown ==
  \A o \in Op : claim[o].stale => claim[o].origin \in {"cancellation", "settlement"}

\* One incarnation at most remembers having written an intent.
IntentsAreOwned ==
  /\ \A p \in Owner : own[p] \subseteq intents
  /\ \A p, q \in Owner : p # q => own[p] \cap own[q] = {}
  /\ \A p \in Owner, o \in Op : o \in own[p] => plan[p][o] \in {"started", "none"}

\* Until that incarnation's one dispatch, the host has not heard of the turn.
DispatchIsOwned(p, o) ==
  /\ stage[p][o] \in {"dispatch", "entering"} => o \in own[p] /\ calls[o] = 0
  /\ (/\ o \in own[p]
      /\ plan[p][o] = "started"
      /\ stage[p][o] = "none") => calls[o] = 0

DispatchesAreOwned ==
  /\ IntentsAreOwned
  /\ \A o \in WorkerOp : o \notin intents => calls[o] = 0
  /\ \A p \in Owner, o \in WorkerOp : DispatchIsOwned(p, o)

(* Liveness *)

\* The runner reconciles every persisted effect to a terminal outcome, across
\* crashes, lost leases, lost responses and an unreachable host.
EveryEffectSettles == \A o \in Op : (o \in intents) ~> IsTerminal(o)

\* A run that is ending ends once its open effects have been settled.
EndingRunEnds == (mode = "ending") ~> (mode = "ended")

(* What the repository says of the runner *)


\* index.ts:7495 of storage-sqlite: "what a request waits for is the room, and
\* one with room is no longer waiting" -- the work it asked for gets started.
RequestsWithRoomStart ==
  \A o \in Op :
    (o \in escalated /\ IsAnswered(o)) ~>
      (o \in intents \/ ~IsAnswered(o) \/ ~AcceptsEffect(o))

\* redesign-1/implementation-log.md:5021 and 5024: "Supervisor failure handling
\* runs after every all-settled batch while the run lease remains live", a
\* writer failure "therefore survives restart as a task fence".
FailuresFenceTheirTask ==
  \A o \in WorkerOp : (outcome[o].status = "failed") ~> IsFenced(o)

\* human-authority.test.ts:820: an authorised end-run on a running run is
\* answered "completed"; it does not throw.
EndRunCommits == ~endRaised

(* The abstract ledger of effects this specification implements *)

Ledger == INSTANCE EffectLedger
            WITH open <- OpenIntents, settled <- intents \ OpenIntents
LedgerSpec == Ledger!Spec
=============================================================================
