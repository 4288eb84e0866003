------------------------- MODULE FencedRunnerTypes -------------------------
(***************************************************************************)
(* Type correctness of the runner, for any owners, operations, tasks and   *)
(* limits: no transaction, host answer, crash or expiry takes a table or a *)
(* cycle's memory out of the values the code can store there.              *)
(***************************************************************************)
EXTENDS FencedRunner, TLAPS

\* The empty database and the idle incarnations are well typed.
LEMMA InitTypeOK == Init => TypeOK
<1> SUFFICES ASSUME Init PROVE TypeOK
  OBVIOUS
<1>1. lease \in Leases
  BY DEF Init, DurableInit, Leases
<1>2. claim \in [Op -> Claims]
  BY DEF Init, DurableInit, Claims, NoClaim, Origins
<1>3. outcome \in [Op -> Outcomes]
  BY DEF Init, DurableInit, Outcomes, NoOutcome, Origins
<1>4. limit \in Nat /\ reserved \in Nat /\ spent \in Nat /\ occupied \in Nat
  BY BudgetAssumption DEF Init, DurableInit
<1>5. DurableTypeOK
  BY <1>1, <1>2, <1>3, <1>4 DEF Init, DurableInit, DurableTypeOK, Modes
<1>6. /\ plan \in [Owner -> [Op -> PlanKinds]]
      /\ stage \in [Owner -> [Op -> Stages]]
      /\ work \in [Op -> Works]
  BY DEF Init, NoPlan, NoStage, PlanKinds, Stages, Works
<1> QED
  BY <1>5, <1>6 DEF Init, TypeOK

----------------------------------------------------------------------------
(* The pieces the steps share *)

\* What an incarnation forgets when its cycle ends or it dies stays typed.
LEMMA ForgetMemoryTypes ==
  ASSUME TypeOK, NEW p \in Owner, ForgetMemory(p)
  PROVE  /\ held' \in [Owner -> Nat]
         /\ plan' \in [Owner -> [Op -> PlanKinds]]
         /\ seen' \in [Owner -> SUBSET Task]
         /\ own' \in [Owner -> SUBSET Op]
         /\ stage' \in [Owner -> [Op -> Stages]]
         /\ failed' \in [Owner -> SUBSET Op]
<1>1. NoPlan \in [Op -> PlanKinds]
  BY DEF NoPlan, PlanKinds
<1>2. NoStage \in [Op -> Stages]
  BY DEF NoStage, Stages
<1> QED
  BY <1>1, <1>2 DEF ForgetMemory, TypeOK

\* Leaving a cycle, whether it finished or threw.
LEMMA ForgetTypes ==
  ASSUME TypeOK, NEW p \in Owner, Forget(p)
  PROVE  /\ pc' \in [Owner -> {"idle", "running", "dead"}]
         /\ held' \in [Owner -> Nat]
         /\ plan' \in [Owner -> [Op -> PlanKinds]]
         /\ seen' \in [Owner -> SUBSET Task]
         /\ own' \in [Owner -> SUBSET Op]
         /\ stage' \in [Owner -> [Op -> Stages]]
         /\ failed' \in [Owner -> SUBSET Op]
<1>1. ForgetMemory(p)
  BY DEF Forget
<1>2. pc' \in [Owner -> {"idle", "running", "dead"}]
  BY DEF Forget, TypeOK
<1> QED
  BY <1>1, <1>2, ForgetMemoryTypes

\* A cycle that throws changes no table.
LEMMA ThrowTypeOK ==
  ASSUME TypeOK, NEW p \in Owner, Throw(p)
  PROVE  TypeOK'
<1>1. Forget(p)
  BY DEF Throw
<1> QED
  BY <1>1, ForgetTypes DEF Throw, TypeOK, DurableTypeOK, durableVars,
     budgetVars, hostVars

\* Taking an operation off the plan.
LEMMA DropTypes ==
  ASSUME TypeOK, NEW p \in Owner, NEW o \in Op, Drop(p, o)
  PROVE  plan' \in [Owner -> [Op -> PlanKinds]]
BY DEF Drop, TypeOK, PlanKinds

\* Taking an operation on to another stage.
LEMMA AdvanceTypes ==
  ASSUME TypeOK, NEW p \in Owner, NEW o \in Op, NEW to \in Stages,
         Advance(p, o, to)
  PROVE  stage' \in [Owner -> [Op -> Stages]]
BY DEF Advance, TypeOK

\* An observation changes the stage alone, besides the host's variables.
LEMMA ObserveTypeOK ==
  ASSUME TypeOK, NEW p \in Owner, NEW o \in Op, NEW to \in Stages,
         Observe(p, o, to),
         work' \in [Op -> Works], calls' \in [Op -> Nat]
  PROVE  TypeOK'
<1>1. stage' \in [Owner -> [Op -> Stages]]
  BY AdvanceTypes DEF Observe
<1> QED
  BY <1>1 DEF Observe, TypeOK, DurableTypeOK, durableVars, budgetVars

\* An observation that leaves the host alone.
LEMMA ObserveHostTypeOK ==
  ASSUME TypeOK, NEW p \in Owner, NEW o \in Op, NEW to \in Stages,
         Observe(p, o, to), UNCHANGED hostVars
  PROVE  TypeOK'
<1>1. work' \in [Op -> Works] /\ calls' \in [Op -> Nat]
  BY DEF hostVars, TypeOK
<1> QED
  BY <1>1, ObserveTypeOK

----------------------------------------------------------------------------
(* One lemma per step of a cycle *)

\* Taking the lease and planning.
LEMMA BeginCycleTypeOK ==
  ASSUME TypeOK, NEW p \in Owner, BeginCycle(p)
  PROVE  TypeOK'
<1>1. lease' \in Leases
  BY DEF BeginCycle, TypeOK, DurableTypeOK, AcquireLease, GrantedFence, Leases
<1>2. held' \in [Owner -> Nat]
  BY DEF BeginCycle, TypeOK, DurableTypeOK, GrantedFence, Leases
<1>3. plan' \in [Owner -> [Op -> PlanKinds]]
  BY DEF BeginCycle, TypeOK, PlannedKind, PlanKinds
<1>4. /\ pc' \in [Owner -> {"idle", "running", "dead"}]
      /\ seen' \in [Owner -> SUBSET Task]
  BY DEF BeginCycle, TypeOK, DurableTypeOK
<1> QED
  BY <1>1, <1>2, <1>3, <1>4 DEF BeginCycle, TypeOK, DurableTypeOK, budgetVars,
     hostVars

\* Admission: the escalation, or the intent with its reservation and slot.
LEMMA AdmitTypeOK ==
  ASSUME TypeOK, NEW p \in Owner, NEW o \in Op,
         Escalate(p, o) \/ PersistIntent(p, o)
  PROVE  TypeOK'
<1>1. CASE Escalate(p, o)
  <2>1. plan' \in [Owner -> [Op -> PlanKinds]]
    BY <1>1, DropTypes DEF Escalate
  <2> QED
    BY <1>1, <2>1 DEF Escalate, TypeOK, DurableTypeOK, budgetVars, hostVars
<1>2. CASE PersistIntent(p, o)
  <2>1. plan' \in [Owner -> [Op -> PlanKinds]]
    BY <1>2 DEF PersistIntent, TypeOK, PlanKinds
  <2>2. reserved' \in Nat /\ occupied' \in Nat
    BY <1>2, BudgetAssumption DEF PersistIntent, TypeOK, DurableTypeOK, SlotsOf
  <2>3. intents' \subseteq Op /\ own' \in [Owner -> SUBSET Op]
    BY <1>2 DEF PersistIntent, TypeOK, DurableTypeOK
  <2> QED
    BY <1>2, <2>1, <2>2, <2>3 DEF PersistIntent, TypeOK, DurableTypeOK, hostVars
<1> QED
  BY <1>1, <1>2

\* The claim's action is one of the four.
LEMMA ActionOfType ==
  ASSUME NEW p \in Owner, NEW o \in Op
  PROVE  ActionOf(p, o) \in Origins
BY DEF ActionOf, AttemptAction, Origins

\* A claim, granted under the caller's fence.
LEMMA ClaimTypeOK ==
  ASSUME TypeOK, NEW p \in Owner, NEW o \in Op, Claim(p, o)
  PROVE  TypeOK'
<1>1. ActionOf(p, o) \in Origins
  BY ActionOfType
<1>2. claim' \in [Op -> Claims]
  BY <1>1 DEF Claim, TypeOK, DurableTypeOK, Claims, IsFenced
<1>3. stage' \in [Owner -> [Op -> Stages]]
  BY <1>1 DEF Claim, TypeOK, Stages
<1> QED
  BY <1>2, <1>3 DEF Claim, TypeOK, DurableTypeOK, budgetVars, hostVars

\* Planning as a whole.
LEMMA PlanTypeOK ==
  ASSUME TypeOK, NEW p \in Owner, NEW o \in Op, Plan(p, o)
  PROVE  TypeOK'
<1>1. CASE RefuseIntent(p, o) \/ RefuseClaim(p, o)
  BY <1>1, ThrowTypeOK DEF RefuseIntent, RefuseClaim
<1>2. CASE SkipClaim(p, o)
  <2>1. plan' \in [Owner -> [Op -> PlanKinds]]
    BY <1>2, DropTypes DEF SkipClaim, SkipPlanned
  <2> QED
    BY <1>2, <2>1 DEF SkipClaim, SkipPlanned, TypeOK, DurableTypeOK,
       durableVars, budgetVars, hostVars
<1> QED
  BY <1>1, <1>2, AdmitTypeOK, ClaimTypeOK DEF Plan

\* Every observation ends in a stage the code knows.
LEMMA EffectTypeOK ==
  ASSUME TypeOK, NEW p \in Owner, NEW o \in Op, Effect(p, o)
  PROVE  TypeOK'
<1>1. CASE Settle(p, o) \/ LoseFence(p, o) \/ EnterDispatch(p, o)
  <2>1. PICK to \in {"cancelled", "failed", "error", "entering"} :
          Observe(p, o, to) /\ UNCHANGED hostVars
    BY <1>1 DEF Settle, LoseFence, EnterDispatch
  <2>2. to \in Stages
    BY DEF Stages, Statuses, Terminal
  <2> QED
    BY <2>1, <2>2, ObserveHostTypeOK
<1>2. CASE CallDispatch(p, o)
  <2>1. Observe(p, o, "called") /\ "called" \in Stages
    BY <1>2 DEF CallDispatch, Stages
  <2>2. work' \in [Op -> Works] /\ calls' \in [Op -> Nat]
    BY <1>2 DEF CallDispatch, TypeOK, Works
  <2> QED
    BY <2>1, <2>2, ObserveTypeOK
<1>3. CASE AnswerDispatch(p, o)
  <2>1. DispatchAnswers(o) \subseteq {"completed", "cancelled", "failed"}
    BY DEF DispatchAnswers
  <2>2. PICK to \in {"completed", "cancelled", "failed"} :
          Observe(p, o, to) /\ UNCHANGED hostVars
    BY <1>3, <2>1 DEF AnswerDispatch
  <2>3. to \in Stages
    BY DEF Stages, Statuses, Terminal
  <2> QED
    BY <2>2, <2>3, ObserveHostTypeOK
<1>4. CASE Inspect(p, o) \/ InspectLost(p, o)
  <2>1. InspectAnswers(o) \subseteq
          {"completed", "active", "unknown", "cancelled", "missing"}
    BY DEF InspectAnswers
  <2>2. PICK to \in {"completed", "active", "unknown", "cancelled", "dispatch"} :
          Observe(p, o, to) /\ UNCHANGED hostVars
    BY <1>4, <2>1 DEF Inspect, InspectLost
  <2>3. to \in Stages
    BY DEF Stages, Statuses, Terminal, Origins
  <2> QED
    BY <2>2, <2>3, ObserveHostTypeOK
<1>5. CASE CancelWork(p, o) \/ AbortSibling(p, o)
  <2>1. PICK to \in {"cancelled", "unknown"} : Observe(p, o, to)
    BY <1>5 DEF CancelWork, AbortSibling
  <2>2. to \in Stages
    BY DEF Stages, Statuses, Terminal
  <2>3. work' \in [Op -> Works] /\ calls' \in [Op -> Nat]
    BY <1>5 DEF CancelWork, AbortSibling, TypeOK, Works
  <2> QED
    BY <2>1, <2>2, <2>3, ObserveTypeOK
<1> QED
  BY <1>1, <1>2, <1>3, <1>4, <1>5 DEF Effect

\* Reconciliations stay a number.
LEMMA NextAttemptsType ==
  ASSUME TypeOK, NEW o \in Op, NEW status
  PROVE  NextAttempts(o, status) \in Nat
<1>1. outcome[o].attempts \in Nat
  BY DEF TypeOK, DurableTypeOK, Outcomes
<1> QED
  BY <1>1, LimitAssumption DEF NextAttempts

\* The commit returns no more than was reserved, so the budget rows stay
\* numbers.
LEMMA CommitTypeOK ==
  ASSUME TypeOK, NEW p \in Owner, NEW o \in Op, Commit(p, o)
  PROVE  TypeOK'
<1>1. CASE LoseCommit(p, o)
  <2>1. "error" \in Stages
    BY DEF Stages
  <2> QED
    BY <1>1, <2>1, ObserveHostTypeOK DEF LoseCommit
<1>2. CASE CommitEffect(p, o)
  <2>1. stage[p][o] \in Statuses
    BY <1>2 DEF CommitEffect, Committing, IsFirst, Observed
  <2>2. claim[o] \in Claims
    BY DEF TypeOK, DurableTypeOK
  <2>3. [status |-> stage[p][o], attempts |-> NextAttempts(o, stage[p][o]),
         origin |-> claim[o].origin,
         fresh |-> claim[o].stale = IsFenced(o)] \in Outcomes
    BY <2>1, <2>2, NextAttemptsType DEF Outcomes, Claims, IsFenced
  <2>4. outcome' \in [Op -> Outcomes]
    BY <1>2, <2>3 DEF CommitEffect, TypeOK, DurableTypeOK
  <2>5. claim' \in [Op -> Claims]
    BY <1>2 DEF CommitEffect, TypeOK, DurableTypeOK, Claims, NoClaim, Origins
  <2>6. reserved' \in Nat /\ spent' \in Nat /\ occupied' \in Nat
    <3>1. CASE stage[p][o] \in Terminal
      <4>1. /\ reserved >= Amount[o] /\ occupied >= SlotsOf(o)
            /\ reserved' = reserved - Amount[o]
            /\ occupied' = occupied - SlotsOf(o)
            /\ \E used \in 0..Amount[o] : spent' = spent + used
        BY <1>2, <3>1 DEF CommitEffect
      <4>2. SlotsOf(o) \in Nat /\ Amount[o] \in Nat
        BY BudgetAssumption DEF SlotsOf
      <4> QED
        BY <4>1, <4>2 DEF TypeOK, DurableTypeOK
    <3>2. CASE stage[p][o] \notin Terminal
      BY <1>2, <3>2 DEF CommitEffect, TypeOK, DurableTypeOK
    <3> QED
      BY <3>1, <3>2
  <2>7. mode' \in Modes
    BY <1>2 DEF CommitEffect, EndIfQuiescent, TypeOK, DurableTypeOK, Modes
  <2>8. /\ plan' \in [Owner -> [Op -> PlanKinds]]
        /\ stage' \in [Owner -> [Op -> Stages]]
    <3>1. "none" \in Stages
      BY DEF Stages
    <3> QED
      BY <1>2, <3>1, DropTypes, AdvanceTypes DEF CommitEffect
  <2>9. failed' \in [Owner -> SUBSET Op]
    BY <1>2 DEF CommitEffect, TypeOK
  <2> QED
    BY <1>2, <2>4, <2>5, <2>6, <2>7, <2>8, <2>9
       DEF CommitEffect, TypeOK, DurableTypeOK, hostVars
<1> QED
  BY <1>1, <1>2 DEF Commit

\* Closing a cycle: errors, the failure policy, the release of the lease.
LEMMA CloseCycleTypeOK ==
  ASSUME TypeOK, NEW p \in Owner, CloseCycle(p)
  PROVE  TypeOK'
<1>1. CASE ThrowErrors(p)
  BY <1>1, ThrowTypeOK DEF ThrowErrors
<1>2. CASE ApplyFailurePolicy(p)
  <2>1. PolicyTasks \subseteq Task
    BY TaskAssumption DEF PolicyTasks, FailedTasks, TypeOK, DurableTypeOK
  <2>2. fenced' \subseteq Task /\ cancelled' \subseteq Op
    BY <1>2, <2>1 DEF ApplyFailurePolicy, InstallFences, OpenIntentsOf,
       OpenIntents, TypeOK, DurableTypeOK
  <2>3. failed' \in [Owner -> SUBSET Op]
    BY <1>2 DEF ApplyFailurePolicy, TypeOK
  <2> QED
    BY <1>2, <2>2, <2>3 DEF ApplyFailurePolicy, TypeOK, DurableTypeOK,
       budgetVars, hostVars
<1>3. CASE FinishCycle(p)
  <2>1. Forget(p)
    BY <1>3 DEF FinishCycle
  <2>2. lease' \in Leases
    BY <1>3 DEF FinishCycle, TypeOK, DurableTypeOK, Leases
  <2> QED
    BY <1>3, <2>1, <2>2, ForgetTypes DEF FinishCycle, TypeOK, DurableTypeOK,
       budgetVars, hostVars
<1> QED
  BY <1>1, <1>2, <1>3 DEF CloseCycle

\* Everything a cycle does.
LEMMA CycleTypeOK ==
  ASSUME TypeOK, NEW p \in Owner, Cycle(p)
  PROVE  TypeOK'
BY BeginCycleTypeOK, PlanTypeOK, EffectTypeOK, CommitTypeOK, CloseCycleTypeOK
   DEF Cycle

----------------------------------------------------------------------------
(* The rest of the system *)

\* Operators, deadlines, amendments, the effect host, expiry and crashes.
LEMMA EnvironmentTypeOK ==
  ASSUME TypeOK, Environment
  PROVE  TypeOK'
<1>1. ASSUME NEW o \in Op, Enqueue(o) \/ PassDeadline(o) PROVE TypeOK'
  BY <1>1 DEF Enqueue, PassDeadline, TypeOK, DurableTypeOK, durableVars,
     budgetVars, cycleVars, hostVars
<1>2. ASSUME NEW o \in Op, GrantAllowance(o) PROVE TypeOK'
  <2>1. limit' \in Nat
    BY <1>2, RunnerAssumption DEF GrantAllowance, TypeOK, DurableTypeOK
  <2> QED
    BY <1>2, <2>1 DEF GrantAllowance, TypeOK, DurableTypeOK, cycleVars, hostVars
<1>3. ASSUME NEW o \in Op, WorkEnds(o) PROVE TypeOK'
  <2>1. work' \in [Op -> Works]
    BY <1>3 DEF WorkEnds, TypeOK, Works
  <2> QED
    BY <1>3, <2>1 DEF WorkEnds, TypeOK, DurableTypeOK, durableVars, budgetVars,
       cycleVars
<1>4. ASSUME NEW t \in Task, FenceTask(t) PROVE TypeOK'
  <2>1. fenced' \subseteq Task /\ cancelled' \subseteq Op
    BY <1>4 DEF FenceTask, InstallFences, OpenIntentsOf, OpenIntents, TypeOK,
       DurableTypeOK
  <2> QED
    BY <1>4, <2>1 DEF FenceTask, TypeOK, DurableTypeOK, budgetVars, cycleVars,
       hostVars
<1>5. CASE PauseRun \/ ResumeRun
  BY <1>5 DEF PauseRun, ResumeRun, SetMode, TypeOK, DurableTypeOK, Modes,
     budgetVars, cycleVars, hostVars
<1>6. CASE EndRun
  <2>1. mode' \in Modes /\ fenced' \subseteq Task /\ cancelled' \subseteq Op
    BY <1>6 DEF EndRun, OpenIntents, Modes, TypeOK, DurableTypeOK
  <2> QED
    BY <1>6, <2>1 DEF EndRun, TypeOK, DurableTypeOK, budgetVars, cycleVars,
       hostVars
<1>7. CASE EndRunThrows
  BY <1>7 DEF EndRunThrows, TypeOK, DurableTypeOK, durableVars, budgetVars,
     cycleVars, hostVars
<1>8. CASE Expire
  <2>1. lease' \in Leases
    BY <1>8 DEF Expire, TypeOK, DurableTypeOK, Leases
  <2> QED
    BY <1>8, <2>1 DEF Expire, TypeOK, DurableTypeOK, budgetVars, cycleVars,
       hostVars
<1>9. ASSUME NEW p \in Owner, Crash(p) PROVE TypeOK'
  <2>1. ForgetMemory(p) /\ pc' \in [Owner -> {"idle", "running", "dead"}]
    BY <1>9 DEF Crash, TypeOK
  <2> QED
    BY <1>9, <2>1, ForgetMemoryTypes DEF Crash, TypeOK, DurableTypeOK,
       durableVars, budgetVars, hostVars
<1>10. ASSUME NEW p \in Owner, NEW o \in Op, LoseResponse(p, o) PROVE TypeOK'
  <2>1. "lost" \in Stages
    BY DEF Stages
  <2> QED
    BY <1>10, <2>1, ObserveHostTypeOK DEF LoseResponse
<1> QED
  BY <1>1, <1>2, <1>3, <1>4, <1>5, <1>6, <1>7, <1>8, <1>9, <1>10
     DEF Environment

\* A step that changes nothing.
LEMMA StutterTypeOK ==
  ASSUME TypeOK, UNCHANGED vars
  PROVE  TypeOK'
BY DEF vars, durableVars, budgetVars, cycleVars, hostVars, TypeOK, DurableTypeOK

\* Whatever owners, operations, tasks and limits there are, every table of
\* SqliteRunnerAuthority, every cycle of AsyncFencedRunner and the effect
\* host only ever hold values of their types.
THEOREM TypeCorrect == Spec => []TypeOK
<1>1. TypeOK /\ [Next]_vars => TypeOK'
  BY CycleTypeOK, EnvironmentTypeOK, StutterTypeOK DEF Next
<1> QED
  BY InitTypeOK, <1>1, PTL DEF Spec
============================================================================
