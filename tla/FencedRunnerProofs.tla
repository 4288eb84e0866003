------------------------- MODULE FencedRunnerProofs -------------------------
(***************************************************************************)
(* The safety of the runner, for any number of incarnations, operations    *)
(* and tasks and any limits.                                               *)
(*                                                                         *)
(* The fences, the orderly end and the outcomes hold because only the      *)
(* holder of the lease settles or admits effects, and its memory agrees    *)
(* with the tables (FencedRunnerMemory).  A cycle that lost its lease may  *)
(* remember anything; the fence keeps it out of the tables.                *)
(*                                                                         *)
(* So the budget and capacity rows stay what the open intents add up to,   *)
(* and the runner keeps the ledger of EffectLedger.  A sum is taken in an  *)
(* order CHOOSE picks; that the order makes no difference is shown by the  *)
(* smallest set for which it would.                                        *)
(***************************************************************************)
EXTENDS FencedRunnerMemory, FiniteSetTheorems, NaturalsInduction,
        WellFoundedInduction

\* What decides the safety properties.
tables == <<lease, mode, fenced, intents, claim, outcome, cancelled,
            limit, reserved, spent, occupied>>

----------------------------------------------------------------------------
(* The steps that write the tables                                          *)

\* Planning writes an intent or a claim, or nothing that matters here.
LEMMA PlanWrites ==
  ASSUME NEW p \in Owner, NEW o \in Op, Plan(p, o)
  PROVE  PersistIntent(p, o) \/ Claim(p, o) \/ UNCHANGED tables
BY DEF Plan, RefuseIntent, Escalate, RefuseClaim, SkipClaim, SkipPlanned,
   Throw, tables, durableVars, budgetVars

\* Observing writes no table.
LEMMA EffectWritesNothing ==
  ASSUME NEW p \in Owner, NEW o \in Op, Effect(p, o) \/ LoseResponse(p, o)
  PROVE  UNCHANGED tables
<1>1. ASSUME NEW to, Observe(p, o, to) PROVE UNCHANGED tables
  BY <1>1 DEF Observe, tables, durableVars, budgetVars
<1>2. \E to : Observe(p, o, to)
  BY DEF Effect, Settle, LoseFence, EnterDispatch, CallDispatch,
     AnswerDispatch, Inspect, InspectLost, CancelWork, AbortSibling,
     LoseResponse
<1> QED
  BY <1>1, <1>2

\* Every step of the system is one of these, or writes no table.
LEMMA TableWrites ==
  ASSUME [Next]_vars
  PROVE  \/ UNCHANGED tables
         \/ \E p \in Owner : \/ BeginCycle(p) \/ FinishCycle(p)
                             \/ ApplyFailurePolicy(p)
         \/ \E p \in Owner, o \in Op :
              PersistIntent(p, o) \/ Claim(p, o) \/ CommitEffect(p, o)
         \/ \E o \in Op : GrantAllowance(o)
         \/ \E t \in Task : FenceTask(t)
         \/ PauseRun \/ ResumeRun \/ EndRun \/ Expire
<1>1. CASE UNCHANGED vars
  BY <1>1 DEF vars, durableVars, budgetVars, tables
<1>2. ASSUME NEW p \in Owner, Cycle(p)
      PROVE  \/ UNCHANGED tables
             \/ BeginCycle(p) \/ FinishCycle(p) \/ ApplyFailurePolicy(p)
             \/ \E o \in Op : PersistIntent(p, o) \/ Claim(p, o) \/ CommitEffect(p, o)
  <2>1. ASSUME NEW o \in Op, LoseCommit(p, o) PROVE UNCHANGED tables
    BY <2>1 DEF LoseCommit, Observe, tables, durableVars, budgetVars
  <2>2. ASSUME ThrowErrors(p) PROVE UNCHANGED tables
    BY <2>2 DEF ThrowErrors, Throw, tables, durableVars, budgetVars
  <2> QED
    BY <1>2, <2>1, <2>2, PlanWrites, EffectWritesNothing
       DEF Cycle, Commit, CloseCycle
<1>3. ASSUME NEW o \in Op, Enqueue(o) \/ PassDeadline(o) \/ WorkEnds(o)
      PROVE  UNCHANGED tables
  BY <1>3 DEF Enqueue, PassDeadline, WorkEnds, tables, durableVars, budgetVars
<1>4. ASSUME EndRunThrows PROVE UNCHANGED tables
  BY <1>4 DEF EndRunThrows, tables, durableVars, budgetVars
<1>5. ASSUME NEW p \in Owner, Crash(p) PROVE UNCHANGED tables
  BY <1>5 DEF Crash, tables, durableVars, budgetVars
<1> QED
  BY <1>1, <1>2, <1>3, <1>4, <1>5, EffectWritesNothing DEF Next, Environment

----------------------------------------------------------------------------
(* Budget and capacity                                                      *)

\* commitEffect on the budget row: a settlement moves part of its reservation
\* to the money spent and frees its slot.
LEMMA CommitBudget ==
  ASSUME TypeOK, NEW p \in Owner, NEW o \in Op, CommitEffect(p, o)
  PROVE  /\ limit' = limit
         /\ spent' + reserved' <= spent + reserved
         /\ occupied' <= occupied
<1>1. Amount[o] \in Nat /\ SlotsOf(o) \in Nat
  BY BudgetAssumption DEF SlotsOf
<1>2. limit' = limit
  BY DEF CommitEffect
<1>3. CASE stage[p][o] \in Terminal
  <2>1. /\ reserved' = reserved - Amount[o]
        /\ occupied' = occupied - SlotsOf(o)
        /\ \E used \in 0..Amount[o] : spent' = spent + used
    BY <1>3 DEF CommitEffect
  <2> QED
    BY <1>1, <1>2, <2>1 DEF TypeOK, DurableTypeOK
<1>4. CASE stage[p][o] \notin Terminal
  BY <1>2, <1>4 DEF CommitEffect, TypeOK, DurableTypeOK
<1> QED
  BY <1>3, <1>4

\* Each step keeps the budget and the writer capacity within their limits.
LEMMA WithinLimitsStep ==
  ASSUME TypeOK, TypeOK', WithinLimits, [Next]_vars
  PROVE  WithinLimits'
<1>1. CASE UNCHANGED <<limit, reserved, spent, occupied>>
  BY <1>1 DEF WithinLimits
<1>2. ASSUME NEW p \in Owner, NEW o \in Op, PersistIntent(p, o)
      PROVE  WithinLimits'
  <2>1. Amount[o] \in Nat
    BY BudgetAssumption
  <2>2. spent' + reserved' <= limit'
    BY <1>2, <2>1 DEF PersistIntent, Available, WithinLimits, TypeOK, DurableTypeOK
  <2>3. occupied' <= WriterLimit
    BY <1>2, LimitAssumption DEF PersistIntent, HasSlot, FreeSlots, SlotsOf,
       WithinLimits, TypeOK, DurableTypeOK
  <2> QED
    BY <2>2, <2>3 DEF WithinLimits
<1>3. ASSUME NEW p \in Owner, NEW o \in Op, CommitEffect(p, o)
      PROVE  WithinLimits'
  <2>1. /\ limit' = limit
        /\ spent' + reserved' <= spent + reserved
        /\ occupied' <= occupied
    BY <1>3, CommitBudget
  <2>2. /\ {spent, reserved, limit, occupied} \subseteq Nat
        /\ {spent', reserved', limit', occupied'} \subseteq Nat
    BY DEF TypeOK, DurableTypeOK
  <2> QED
    BY <2>1, <2>2, LimitAssumption DEF WithinLimits
<1>4. ASSUME NEW o \in Op, GrantAllowance(o) PROVE WithinLimits'
  <2>1. PICK increase \in GrantSizes : limit' = limit + increase
    BY <1>4 DEF GrantAllowance
  <2>2. /\ increase \in Nat
        /\ UNCHANGED <<reserved, spent, occupied>>
    BY <1>4, RunnerAssumption DEF GrantAllowance
  <2> QED
    BY <2>1, <2>2 DEF WithinLimits, TypeOK, DurableTypeOK
<1>5. ASSUME NEW p \in Owner,
             BeginCycle(p) \/ FinishCycle(p) \/ ApplyFailurePolicy(p)
      PROVE  WithinLimits'
  BY <1>5, <1>1 DEF BeginCycle, FinishCycle, ApplyFailurePolicy, budgetVars
<1>6. ASSUME NEW p \in Owner, NEW o \in Op, Claim(p, o) PROVE WithinLimits'
  BY <1>6, <1>1 DEF Claim, budgetVars
<1>7. ASSUME NEW t \in Task, FenceTask(t) PROVE WithinLimits'
  BY <1>7, <1>1 DEF FenceTask, budgetVars
<1>8. CASE PauseRun \/ ResumeRun \/ EndRun \/ Expire
  BY <1>8, <1>1 DEF PauseRun, ResumeRun, SetMode, EndRun, Expire, budgetVars
<1>9. CASE UNCHANGED tables
  BY <1>9, <1>1 DEF tables
<1> QED
  BY <1>2, <1>3, <1>4, <1>5, <1>6, <1>7, <1>8, <1>9, TableWrites

\* persistIntent and commitEffect keep what is spent and promised within the
\* limit, and the writers at work within their capacity, whatever the amounts,
\* the limits and the incarnations that race, crash or lose their lease.
THEOREM BudgetIsKept == Spec => []WithinLimits
<1>1. Init => WithinLimits
  BY BudgetAssumption, LimitAssumption DEF Init, DurableInit, WithinLimits
<1>2. TypeOK /\ TypeOK' /\ WithinLimits /\ [Next]_vars => WithinLimits'
  BY WithinLimitsStep
<1> QED
  BY TypeCorrect, <1>1, <1>2, PTL DEF Spec

----------------------------------------------------------------------------
(* Leases and claims                                                        *)

\* Claims are written by the lease's holder under the lease's fence, and a
\* lease that changes hands takes the next fence.
LEMMA ClaimsFollowLeaseStep ==
  ASSUME TypeOK, ClaimsFollowLease, [Next]_vars
  PROVE  ClaimsFollowLease'
<1>1. CASE UNCHANGED <<lease, claim>>
  BY <1>1 DEF ClaimsFollowLease
<1>2. lease \in Leases /\ claim \in [Op -> Claims]
  BY DEF TypeOK, DurableTypeOK
<1>3. ASSUME NEW p \in Owner, BeginCycle(p) PROVE ClaimsFollowLease'
  <2>1. claim' = claim
    BY <1>3 DEF BeginCycle
  <2>2. \/ lease'.fence = lease.fence /\ lease'.owner = lease.owner
        \/ lease'.fence = lease.fence + 1
    BY <1>3, <1>2 DEF BeginCycle, AcquireLease, LeaseAvailable, GrantedFence, Leases
  <2> QED
    BY <2>1, <2>2, <1>2 DEF ClaimsFollowLease, Leases, Claims
<1>4. ASSUME NEW p \in Owner, NEW o \in Op, Claim(p, o) PROVE ClaimsFollowLease'
  <2>1. lease' = lease
    BY <1>4 DEF Claim
  <2>2. claim'[o].fence = lease.fence /\ claim'[o].owner = lease.owner
    BY <1>4, <1>2 DEF Claim, Claimable, HoldsLease
  <2>3. \A a \in Op \ {o} : claim'[a] = claim[a]
    BY <1>4, <1>2 DEF Claim
  <2> QED
    BY <2>1, <2>2, <2>3, <1>2 DEF ClaimsFollowLease, Leases
<1>5. ASSUME NEW p \in Owner, NEW o \in Op, CommitEffect(p, o)
      PROVE  ClaimsFollowLease'
  <2>1. lease' = lease
    BY <1>5 DEF CommitEffect
  <2>2. claim'[o].fence = 0
    BY <1>5, <1>2 DEF CommitEffect, NoClaim
  <2>3. \A a \in Op \ {o} : claim'[a] = claim[a]
    BY <1>5, <1>2 DEF CommitEffect
  <2> QED
    BY <2>1, <2>2, <2>3, <1>2 DEF ClaimsFollowLease, Leases
<1>6. ASSUME claim' = claim, lease'.fence = lease.fence, lease'.owner = lease.owner
      PROVE  ClaimsFollowLease'
  BY <1>6 DEF ClaimsFollowLease
<1>7. ASSUME NEW p \in Owner, FinishCycle(p) \/ ApplyFailurePolicy(p)
      PROVE  ClaimsFollowLease'
  BY <1>7, <1>6, <1>2 DEF FinishCycle, ApplyFailurePolicy, Leases
<1>8. CASE Expire
  BY <1>8, <1>6, <1>2 DEF Expire, Leases
<1>9. ASSUME NEW p \in Owner, NEW o \in Op, PersistIntent(p, o)
      PROVE  ClaimsFollowLease'
  BY <1>9, <1>1 DEF PersistIntent
<1>10. ASSUME NEW o \in Op, GrantAllowance(o) PROVE ClaimsFollowLease'
  BY <1>10, <1>1 DEF GrantAllowance
<1>11. ASSUME NEW t \in Task, FenceTask(t) PROVE ClaimsFollowLease'
  BY <1>11, <1>1 DEF FenceTask
<1>12. CASE PauseRun \/ ResumeRun \/ EndRun
  BY <1>12, <1>1 DEF PauseRun, ResumeRun, SetMode, EndRun
<1>13. CASE UNCHANGED tables
  BY <1>13, <1>1 DEF tables
<1> QED
  BY <1>3, <1>4, <1>5, <1>7, <1>8, <1>9, <1>10, <1>11, <1>12, <1>13, TableWrites

\* claimEffectAttempt may take a claim under its own fence for one that is at
\* work: no claim is ever ahead of the lease, and one under the lease's fence
\* is its owner's.
THEOREM ClaimsAreTheHolders == Spec => []ClaimsFollowLease
<1>1. Init => ClaimsFollowLease
  BY DEF Init, DurableInit, ClaimsFollowLease, NoClaim
<1>2. TypeOK /\ ClaimsFollowLease /\ [Next]_vars => ClaimsFollowLease'
  BY ClaimsFollowLeaseStep
<1> QED
  BY TypeCorrect, <1>1, <1>2, PTL DEF Spec

----------------------------------------------------------------------------
(* Fenced tasks and the end of a run                                        *)

\* A commit closes its own effect or leaves it open, and opens none.
LEMMA CommitOpensNothing ==
  ASSUME TypeOK, MemoryAgrees, NEW p \in Owner, NEW o \in Op, CommitEffect(p, o)
  PROVE  /\ OpenIntents' \subseteq OpenIntents
         /\ stage[p][o] \in Terminal => OpenIntents' = OpenIntents \ {o}
         /\ stage[p][o] \notin Terminal => OpenIntents' = OpenIntents
<1>1. o \in OpenIntents
  BY CommittedIsOpen
<1>2. intents' = intents /\ intents \subseteq Op
  BY DEF CommitEffect, TypeOK, DurableTypeOK
<1>3. /\ outcome'[o].status = stage[p][o]
      /\ \A a \in Op \ {o} : outcome'[a] = outcome[a]
  BY DEF CommitEffect, TypeOK, DurableTypeOK
<1> QED
  BY <1>1, <1>2, <1>3 DEF OpenIntents, IsTerminal

\* Fencing cancels what is open; admission stops behind the fence.
LEMMA FencedEffectsStep ==
  ASSUME TypeOK, MemoryAgrees, FencedEffectsAreCancelled, [Next]_vars
  PROVE  FencedEffectsAreCancelled'
<1>1. ASSUME OpenIntents' \subseteq OpenIntents, UNCHANGED <<fenced, cancelled>>
      PROVE  FencedEffectsAreCancelled'
  BY <1>1 DEF FencedEffectsAreCancelled, IsFenced
<1>2. ASSUME UNCHANGED <<intents, outcome>> PROVE OpenIntents' = OpenIntents
  BY <1>2 DEF OpenIntents, IsTerminal
<1>3. ASSUME NEW p \in Owner, NEW o \in Op, PersistIntent(p, o)
      PROVE  FencedEffectsAreCancelled'
  <2>1. /\ OpenIntents' \subseteq OpenIntents \cup {o}
        /\ UNCHANGED <<fenced, cancelled>>
    BY <1>3 DEF PersistIntent, OpenIntents, IsTerminal
  <2>2. ~IsFenced(o)
    BY <1>3 DEF PersistIntent, Admissible, AcceptsEffect
  <2> QED
    BY <2>1, <2>2 DEF FencedEffectsAreCancelled, IsFenced
<1>4. ASSUME NEW tasks, InstallFences(tasks), UNCHANGED <<intents, outcome>>
      PROVE  FencedEffectsAreCancelled'
  BY <1>2, <1>4 DEF InstallFences, OpenIntentsOf, FencedEffectsAreCancelled, IsFenced
<1>5. ASSUME NEW p \in Owner, ApplyFailurePolicy(p)
      PROVE  FencedEffectsAreCancelled'
  BY <1>4, <1>5 DEF ApplyFailurePolicy
<1>6. ASSUME NEW t \in Task, FenceTask(t) PROVE FencedEffectsAreCancelled'
  BY <1>4, <1>6 DEF FenceTask
<1>7. CASE EndRun
  BY <1>2, <1>7 DEF EndRun, FencedEffectsAreCancelled
<1>8. ASSUME NEW p \in Owner, NEW o \in Op, CommitEffect(p, o)
      PROVE  FencedEffectsAreCancelled'
  BY <1>1, <1>8, CommitOpensNothing DEF CommitEffect
<1>9. ASSUME NEW p \in Owner, BeginCycle(p) \/ FinishCycle(p)
      PROVE  FencedEffectsAreCancelled'
  BY <1>1, <1>2, <1>9 DEF BeginCycle, FinishCycle
<1>10. ASSUME NEW p \in Owner, NEW o \in Op, Claim(p, o)
       PROVE  FencedEffectsAreCancelled'
  BY <1>1, <1>2, <1>10 DEF Claim
<1>11. ASSUME NEW o \in Op, GrantAllowance(o) PROVE FencedEffectsAreCancelled'
  BY <1>1, <1>2, <1>11 DEF GrantAllowance
<1>12. CASE PauseRun \/ ResumeRun \/ Expire \/ UNCHANGED tables
  BY <1>1, <1>2, <1>12 DEF PauseRun, ResumeRun, SetMode, Expire, tables
<1> QED
  BY <1>3, <1>5, <1>6, <1>7, <1>8, <1>9, <1>10, <1>11, <1>12, TableWrites

\* installDurableTaskScopeFences and fenceRunForEnding cancel what is open in a
\* task they fence, and persistIntent admits nothing behind the fence, however
\* the fencing falls between the steps of a cycle.
THEOREM FencedTasksWindDown == Spec => []FencedEffectsAreCancelled
<1>1. Init => FencedEffectsAreCancelled
  BY DEF Init, DurableInit, FencedEffectsAreCancelled, OpenIntents
<1>2. TypeOK /\ MemoryInv /\ FencedEffectsAreCancelled /\ [Next]_vars
        => FencedEffectsAreCancelled'
  BY FencedEffectsStep DEF MemoryInv
<1> QED
  BY TypeCorrect, MemoryInvariant, <1>1, <1>2, PTL DEF Spec

\* A run ends behind its fences, and only once nothing is open.
LEMMA EndingStep ==
  ASSUME TypeOK, MemoryAgrees, EndingIsOrderly, [Next]_vars
  PROVE  EndingIsOrderly'
<1>1. ASSUME OpenIntents' \subseteq OpenIntents, mode' = mode, fenced \subseteq fenced',
             fenced' \subseteq Task
      PROVE  EndingIsOrderly'
  BY <1>1 DEF EndingIsOrderly
<1>2. ASSUME UNCHANGED <<intents, outcome>> PROVE OpenIntents' = OpenIntents
  BY <1>2 DEF OpenIntents, IsTerminal
<1>3. fenced \subseteq Task
  BY DEF TypeOK, DurableTypeOK
<1>4. ASSUME NEW p \in Owner, NEW o \in Op, PersistIntent(p, o)
      PROVE  EndingIsOrderly'
  BY <1>4 DEF PersistIntent, Admissible, AcceptsEffect, EndingIsOrderly
<1>5. ASSUME NEW p \in Owner, NEW o \in Op, CommitEffect(p, o)
      PROVE  EndingIsOrderly'
  <2>1. /\ OpenIntents' \subseteq OpenIntents
        /\ stage[p][o] \in Terminal => OpenIntents' = OpenIntents \ {o}
        /\ fenced' = fenced
    BY <1>5, CommitOpensNothing DEF CommitEffect
  <2>2. CASE stage[p][o] \in Terminal
    <3>1. mode' = IF mode = "ending" /\ OpenIntents \subseteq {o} THEN "ended" ELSE mode
      BY <1>5, <2>2 DEF CommitEffect, EndIfQuiescent
    <3> QED
      BY <2>1, <2>2, <3>1 DEF EndingIsOrderly
  <2>3. CASE stage[p][o] \notin Terminal
    BY <1>1, <1>3, <1>5, <2>1, <2>3 DEF CommitEffect
  <2> QED
    BY <2>2, <2>3
<1>6. ASSUME NEW p \in Owner, ApplyFailurePolicy(p) PROVE EndingIsOrderly'
  <2>1. PolicyTasks \subseteq Task
    BY TaskAssumption DEF PolicyTasks, FailedTasks, TypeOK, DurableTypeOK
  <2> QED
    BY <1>1, <1>2, <1>3, <1>6, <2>1 DEF ApplyFailurePolicy, InstallFences
<1>7. ASSUME NEW t \in Task, FenceTask(t) PROVE EndingIsOrderly'
  BY <1>1, <1>2, <1>3, <1>7 DEF FenceTask, InstallFences
<1>8. CASE EndRun
  <2>1. OpenIntents' = OpenIntents /\ fenced' = Task
    BY <1>2, <1>8 DEF EndRun
  <2>2. mode' = IF OpenIntents = {} THEN "ended" ELSE "ending"
    BY <1>8 DEF EndRun
  <2> QED
    BY <2>1, <2>2 DEF EndingIsOrderly
<1>9. CASE PauseRun \/ ResumeRun
  BY <1>9 DEF PauseRun, ResumeRun, SetMode, EndingIsOrderly
<1>10. ASSUME NEW p \in Owner, BeginCycle(p) \/ FinishCycle(p)
       PROVE  EndingIsOrderly'
  BY <1>1, <1>2, <1>3, <1>10 DEF BeginCycle, FinishCycle
<1>11. ASSUME NEW p \in Owner, NEW o \in Op, Claim(p, o) PROVE EndingIsOrderly'
  BY <1>1, <1>2, <1>3, <1>11 DEF Claim
<1>12. ASSUME NEW o \in Op, GrantAllowance(o) PROVE EndingIsOrderly'
  BY <1>1, <1>2, <1>3, <1>12 DEF GrantAllowance
<1>13. CASE Expire \/ UNCHANGED tables
  BY <1>1, <1>2, <1>3, <1>13 DEF Expire, tables
<1> QED
  BY <1>4, <1>5, <1>6, <1>7, <1>8, <1>9, <1>10, <1>11, <1>12, <1>13, TableWrites

\* end-run and advanceRunControlToEndedIfQuiescent: a run is ending only behind
\* the fences of all its tasks, and never ends with an effect still open,
\* whoever settles the last one.
THEOREM RunsEndInOrder == Spec => []EndingIsOrderly
<1>1. Init => EndingIsOrderly
  BY DEF Init, DurableInit, EndingIsOrderly
<1>2. TypeOK /\ MemoryInv /\ EndingIsOrderly /\ [Next]_vars => EndingIsOrderly'
  BY EndingStep DEF MemoryInv
<1> QED
  BY TypeCorrect, MemoryInvariant, <1>1, <1>2, PTL DEF Spec

----------------------------------------------------------------------------
(* Outcomes                                                                 *)

\* Only a commit rewrites an outcome, and only its own.
LEMMA OutcomeWrites ==
  ASSUME TypeOK, [Next]_vars
  PROVE  \/ outcome' = outcome
         \/ \E p \in Owner, o \in Op :
              /\ CommitEffect(p, o)
              /\ \A a \in Op \ {o} : outcome'[a] = outcome[a]
              /\ outcome'[o] = [status |-> stage[p][o],
                                attempts |-> NextAttempts(o, stage[p][o]),
                                origin |-> claim[o].origin,
                                fresh |-> claim[o].stale = IsFenced(o)]
<1>1. ASSUME NEW p \in Owner, NEW o \in Op, CommitEffect(p, o)
      PROVE  /\ \A a \in Op \ {o} : outcome'[a] = outcome[a]
             /\ outcome'[o] = [status |-> stage[p][o],
                               attempts |-> NextAttempts(o, stage[p][o]),
                               origin |-> claim[o].origin,
                               fresh |-> claim[o].stale = IsFenced(o)]
  BY <1>1 DEF CommitEffect, TypeOK, DurableTypeOK
<1>2. ASSUME NEW p \in Owner,
             BeginCycle(p) \/ FinishCycle(p) \/ ApplyFailurePolicy(p)
      PROVE  outcome' = outcome
  BY <1>2 DEF BeginCycle, FinishCycle, ApplyFailurePolicy
<1>3. ASSUME NEW p \in Owner, NEW o \in Op, PersistIntent(p, o) \/ Claim(p, o)
      PROVE  outcome' = outcome
  BY <1>3 DEF PersistIntent, Claim
<1>4. ASSUME NEW o \in Op, GrantAllowance(o) PROVE outcome' = outcome
  BY <1>4 DEF GrantAllowance
<1>5. ASSUME NEW t \in Task, FenceTask(t) PROVE outcome' = outcome
  BY <1>5 DEF FenceTask
<1>6. CASE PauseRun \/ ResumeRun \/ EndRun \/ Expire \/ UNCHANGED tables
  BY <1>6 DEF PauseRun, ResumeRun, SetMode, EndRun, Expire, tables
<1> QED
  BY <1>1, <1>2, <1>3, <1>4, <1>5, <1>6, TableWrites

\* commitEffect's count goes up by at most one and stops at the limit.
LEMMA NextAttemptsRange ==
  ASSUME TypeOK, AttemptsAreBounded, NEW o \in Op, NEW status
  PROVE  NextAttempts(o, status) \in outcome[o].attempts..MaxReconciliation
<1>1. outcome[o].attempts \in Nat
  BY DEF TypeOK, DurableTypeOK, Outcomes
<1>2. CASE outcome[o].status = "none"
  BY <1>1, <1>2, LimitAssumption DEF NextAttempts, AttemptsAreBounded
<1>3. CASE outcome[o].status # "none"
  BY <1>1, <1>3, LimitAssumption DEF NextAttempts, AttemptsAreBounded
<1> QED
  BY <1>2, <1>3

\* Each step keeps the counts in range and leaves terminal outcomes alone.
LEMMA OutcomesAdvanceStep ==
  ASSUME TypeOK, MemoryAgrees, AttemptsAreBounded, [Next]_vars
  PROVE  /\ AttemptsAreBounded'
         /\ \A o \in Op :
              /\ IsTerminal(o) => outcome'[o] = outcome[o]
              /\ outcome'[o].attempts \in outcome[o].attempts..MaxReconciliation
<1>1. \A o \in Op : outcome[o].attempts \in outcome[o].attempts..MaxReconciliation
  BY LimitAssumption DEF AttemptsAreBounded, TypeOK, DurableTypeOK, Outcomes
<1>2. CASE outcome' = outcome
  BY <1>1, <1>2 DEF AttemptsAreBounded
<1>3. ASSUME NEW p \in Owner, NEW o \in Op, CommitEffect(p, o),
             \A a \in Op \ {o} : outcome'[a] = outcome[a],
             outcome'[o] = [status |-> stage[p][o],
                            attempts |-> NextAttempts(o, stage[p][o]),
                            origin |-> claim[o].origin,
                            fresh |-> claim[o].stale = IsFenced(o)]
      PROVE  /\ AttemptsAreBounded'
             /\ \A a \in Op :
                  /\ IsTerminal(a) => outcome'[a] = outcome[a]
                  /\ outcome'[a].attempts \in outcome[a].attempts..MaxReconciliation
  <2>1. ~IsTerminal(o)
    BY <1>3, CommittedIsOpen DEF OpenIntents
  <2>2. outcome'[o].attempts \in outcome[o].attempts..MaxReconciliation
    BY <1>3, NextAttemptsRange
  <2>3. outcome'[o].status # "none"
    BY <1>3 DEF CommitEffect, Committing, IsFirst, Observed, Statuses, Terminal
  <2>4. outcome'[o].attempts <= MaxReconciliation
    BY <2>2, LimitAssumption DEF TypeOK, DurableTypeOK, Outcomes
  <2> QED
    BY <1>1, <1>3, <2>1, <2>2, <2>3, <2>4 DEF AttemptsAreBounded
<1> QED
  BY <1>2, <1>3, OutcomeWrites

\* commitEffect never rewrites a terminal outcome, and never counts
\* reconciliations down or past the command's limit: a cycle that lost its
\* lease cannot, and the one that holds it knows what is settled.
THEOREM OutcomesOnlyAdvance == Spec => OutcomesAdvance
<1>1. Init => AttemptsAreBounded
  BY LimitAssumption DEF Init, DurableInit, NoOutcome, AttemptsAreBounded
<1>2. TypeOK /\ MemoryInv /\ AttemptsAreBounded /\ [Next]_vars
        => AttemptsAreBounded'
  BY OutcomesAdvanceStep DEF MemoryInv
<1>3. TypeOK /\ MemoryInv /\ AttemptsAreBounded /\ [Next]_vars
        => [\A o \in Op :
              /\ IsTerminal(o) => outcome'[o] = outcome[o]
              /\ outcome'[o].attempts \in outcome[o].attempts..MaxReconciliation]_vars
  BY OutcomesAdvanceStep DEF MemoryInv
<1> QED
  BY TypeCorrect, MemoryInvariant, <1>1, <1>2, <1>3, PTL DEF Spec, OutcomesAdvance

----------------------------------------------------------------------------
(* Results and fences                                                       *)

\* What is claimed behind the fence of its task was cancelled with it, so the
\* claim is for winding down.
LEMMA StaleClaimsStep ==
  ASSUME TypeOK, MemoryAgrees, FencedEffectsAreCancelled, StaleClaimsWindDown,
         [Next]_vars
  PROVE  StaleClaimsWindDown'
<1>1. CASE claim' = claim
  BY <1>1 DEF StaleClaimsWindDown
<1>2. ASSUME NEW p \in Owner, NEW o \in Op, Claim(p, o) PROVE StaleClaimsWindDown'
  <2>1. o \in OpenIntents
    BY <1>2 DEF Claim, Claimable, Claiming, MemoryAgrees
  <2>2. IsFenced(o) => ActionOf(p, o) \in {"cancellation", "settlement"}
    BY <2>1 DEF FencedEffectsAreCancelled, CancelRequired, ActionOf, AttemptAction
  <2>3. /\ claim'[o].stale = IsFenced(o) /\ claim'[o].origin = ActionOf(p, o)
        /\ \A a \in Op \ {o} : claim'[a] = claim[a]
    BY <1>2 DEF Claim, TypeOK, DurableTypeOK
  <2> QED
    BY <2>2, <2>3 DEF StaleClaimsWindDown
<1>3. ASSUME NEW p \in Owner, NEW o \in Op, CommitEffect(p, o)
      PROVE  StaleClaimsWindDown'
  <2>1. /\ claim'[o] = NoClaim
        /\ \A a \in Op \ {o} : claim'[a] = claim[a]
    BY <1>3 DEF CommitEffect, TypeOK, DurableTypeOK
  <2> QED
    BY <2>1 DEF StaleClaimsWindDown, NoClaim
<1>4. ASSUME NEW p \in Owner,
             BeginCycle(p) \/ FinishCycle(p) \/ ApplyFailurePolicy(p)
      PROVE  claim' = claim
  BY <1>4 DEF BeginCycle, FinishCycle, ApplyFailurePolicy
<1>5. ASSUME NEW p \in Owner, NEW o \in Op, PersistIntent(p, o)
      PROVE  claim' = claim
  BY <1>5 DEF PersistIntent
<1>6. ASSUME NEW o \in Op, GrantAllowance(o) PROVE claim' = claim
  BY <1>6 DEF GrantAllowance
<1>7. ASSUME NEW t \in Task, FenceTask(t) PROVE claim' = claim
  BY <1>7 DEF FenceTask
<1>8. ASSUME PauseRun \/ ResumeRun \/ EndRun \/ Expire \/ UNCHANGED tables
      PROVE  claim' = claim
  BY <1>8 DEF PauseRun, ResumeRun, SetMode, EndRun, Expire, tables
<1> QED
  BY <1>1, <1>2, <1>3, <1>4, <1>5, <1>6, <1>7, <1>8, TableWrites

\* A commit that records a fresh result of ordinary work finds no fence.
LEMMA FreshCommit ==
  ASSUME StaleClaimsWindDown, NEW p \in Owner, NEW o \in Op,
         outcome'[o] = [status |-> stage[p][o],
                        attempts |-> NextAttempts(o, stage[p][o]),
                        origin |-> claim[o].origin,
                        fresh |-> claim[o].stale = IsFenced(o)],
         outcome'[o].fresh,
         outcome'[o].origin \in {"dispatch", "inspection"}
  PROVE  ~IsFenced(o)
<1>0. outcome'[o].fresh = (claim[o].stale = IsFenced(o))
  OBVIOUS
<1>1. claim[o].stale = IsFenced(o)
  BY <1>0, Zenon
<1>2. claim[o].origin \in {"dispatch", "inspection"}
  OBVIOUS
<1>3. ~claim[o].stale
  BY <1>2 DEF StaleClaimsWindDown
<1> QED
  BY <1>1, <1>3

\* requireTaskScopeCurrentness at claim and at commit: no result of ordinary
\* work is recorded as current once the fence of its task is up, although the
\* work runs, and is observed, while fences go up.
THEOREM FencesComeAfterFreshResults == Spec => FreshResultsPrecedeFences
<1>1. Init => StaleClaimsWindDown
  BY DEF Init, DurableInit, NoClaim, StaleClaimsWindDown
<1>2. TypeOK /\ MemoryInv /\ FencedEffectsAreCancelled /\ StaleClaimsWindDown
        /\ [Next]_vars => StaleClaimsWindDown'
  BY StaleClaimsStep DEF MemoryInv
<1>3. TypeOK /\ StaleClaimsWindDown /\ [Next]_vars
        => [\A o \in Op :
              (/\ outcome'[o] # outcome[o]
               /\ outcome'[o].fresh
               /\ outcome'[o].origin \in {"dispatch", "inspection"})
              => ~IsFenced(o)]_vars
  BY OutcomeWrites, FreshCommit
<1> QED
  BY TypeCorrect, MemoryInvariant, FencedTasksWindDown, <1>1, <1>2, <1>3, PTL
     DEF Spec, FreshResultsPrecedeFences

----------------------------------------------------------------------------
(* What a set of operations reserves                                        *)

\* A nonempty set of numbers has a least one.
LEMMA LeastIs ==
  ASSUME NEW S \in SUBSET Nat, S # {}
  PROVE  \E r \in S : \A n \in S : r <= n
<1> DEFINE Less == OpToRel(<, Nat)
<1>1. IsWellFoundedOn(Less, Nat)
  BY NatLessThanWellFounded
<1>2. ASSUME NEW m \in Nat, NEW n \in Nat PROVE <<m, n>> \in Less <=> m < n
  BY DEF OpToRel
<1> HIDE DEF Less
<1>3. PICK r \in S : \A n \in S : <<n, r>> \notin Less
  BY <1>1, WFMin
<1>4. ASSUME NEW n \in S PROVE r <= n
  <2>1. r \in Nat /\ n \in Nat /\ ~(<<n, r>> \in Less)
    BY <1>3
  <2>2. ~(n < r)
    BY <1>2, <2>1
  <2> QED
    BY <2>1, <2>2
<1> QED
  BY <1>4

\* A nonempty collection of finite sets has a smallest one.
LEMMA SmallestIs ==
  ASSUME NEW C, C # {}, \A s \in C : IsFiniteSet(s)
  PROVE  \E s \in C : \A t \in C : Cardinality(s) <= Cardinality(t)
<1> DEFINE Sizes == {Cardinality(s) : s \in C}
<1>1. Sizes \in SUBSET Nat /\ Sizes # {}
  BY FS_CardinalityType
<1>2. PICK r \in Sizes : \A n \in Sizes : r <= n
  BY <1>1, LeastIs
<1> QED
  BY <1>2

\* MapThenSumSet takes the operations one by one, in an order it chooses.
Taken(s) == CHOOSE o \in s : TRUE
Adds(f, sets) ==
  f = [s \in sets |-> IF s = {} THEN 0 ELSE Amount[Taken(s)] + f[s \ {Taken(s)}]]

LEMMA ReservationsAre ==
  ASSUME NEW S
  PROVE  Reservations(S) = (CHOOSE f : Adds(f, SUBSET S))[S]
BY DEF Reservations, MapThenSumSet, MapThenFoldSet, Adds, Taken

\* There is such a sum for every finite set.
LEMMA SomeSum ==
  ASSUME NEW S, IsFiniteSet(S)
  PROVE  \E f : Adds(f, SUBSET S)
<1> DEFINE Upto(n) == {s \in SUBSET S : Cardinality(s) <= n}
<1>1. \A s \in SUBSET S : IsFiniteSet(s) /\ Cardinality(s) \in Nat
  BY FS_Subset, FS_CardinalityType
<1>2. \E f : Adds(f, Upto(0))
  <2>1. \A s \in Upto(0) : s = {}
    BY <1>1, FS_EmptySet
  <2>2. Adds([s \in Upto(0) |-> 0], Upto(0))
    BY <2>1 DEF Adds
  <2> QED
    BY <2>2
<1>3. ASSUME NEW n \in Nat, NEW f, Adds(f, Upto(n))
      PROVE  \E g : Adds(g, Upto(n + 1))
  <2> DEFINE g == [s \in Upto(n + 1) |->
                     IF s = {} THEN 0 ELSE Amount[Taken(s)] + f[s \ {Taken(s)}]]
  <2>1. ASSUME NEW s \in Upto(n + 1), s # {} PROVE s \ {Taken(s)} \in Upto(n)
    <3>1. Taken(s) \in s
      BY <2>1 DEF Taken
    <3>2. Cardinality(s \ {Taken(s)}) = Cardinality(s) - 1
      BY <1>1, <3>1, FS_RemoveElement
    <3> QED
      BY <1>1, <3>2
  <2>2. ASSUME NEW s \in Upto(n) PROVE g[s] = f[s]
    <3>1. s \in Upto(n + 1)
      BY <1>1
    <3>2. f[s] = IF s = {} THEN 0 ELSE Amount[Taken(s)] + f[s \ {Taken(s)}]
      BY <1>3 DEF Adds
    <3> QED
      BY <3>1, <3>2
  <2>3. ASSUME NEW s \in Upto(n + 1)
        PROVE  g[s] = IF s = {} THEN 0 ELSE Amount[Taken(s)] + g[s \ {Taken(s)}]
    BY <2>1, <2>2
  <2> HIDE DEF Upto
  <2>4. g = [s \in Upto(n + 1) |->
               IF s = {} THEN 0 ELSE Amount[Taken(s)] + g[s \ {Taken(s)}]]
    BY <2>3
  <2> HIDE DEF g
  <2>5. Adds(g, Upto(n + 1))
    BY <2>4 DEF Adds
  <2> QED
    BY <2>5
<1> HIDE DEF Upto
<1>4. ASSUME NEW n \in Nat PROVE \E f : Adds(f, Upto(n))
  <2> DEFINE Without == {m \in Nat : ~ \E f : Adds(f, Upto(m))}
  <2> SUFFICES ASSUME Without # {} PROVE FALSE
    OBVIOUS
  <2>1. PICK r \in Without : \A m \in Without : r <= m
    BY LeastIs
  <2>2. r # 0 /\ r - 1 \notin Without
    BY <1>2, <2>1
  <2>3. r - 1 \in Nat /\ (r - 1) + 1 = r
    BY <2>2
  <2>4. PICK f : Adds(f, Upto(r - 1))
    BY <2>2, <2>3
  <2>5. \E g : Adds(g, Upto(r))
    BY <1>3, <2>3, <2>4
  <2> QED
    BY <2>1, <2>5
<1>5. Upto(Cardinality(S)) = SUBSET S
  BY FS_Subset DEF Upto
<1> QED
  BY <1>1, <1>4, <1>5

\* The total of each subset is that of any of its operations and the rest.
AddsUp(f, S) ==
  /\ f[{}] = 0
  /\ \A s \in SUBSET S :
       f[s] \in Nat /\ \A o \in s : f[s] = Amount[o] + f[s \ {o}]

\* The order in which the operations are taken makes no difference.
LEMMA SumsAre ==
  ASSUME NEW S \in SUBSET Op, IsFiniteSet(S), NEW f, Adds(f, SUBSET S)
  PROVE  AddsUp(f, S)
<1> DEFINE Fine(s) == f[s] \in Nat /\ \A o \in s : f[s] = Amount[o] + f[s \ {o}]
           Wrong == {s \in SUBSET S : ~Fine(s)}
<1>1. \A s \in SUBSET S : f[s] = IF s = {} THEN 0
                                 ELSE Amount[Taken(s)] + f[s \ {Taken(s)}]
  BY DEF Adds
<1>2. \A s \in SUBSET S : IsFiniteSet(s)
  BY FS_Subset
<1>3. \A o \in Op : Amount[o] \in Nat
  BY BudgetAssumption
<1>4. f[{}] = 0 /\ Fine({})
  <2>1. {} \in SUBSET S
    OBVIOUS
  <2>2. f[{}] = 0
    BY <1>1, <2>1
  <2> QED
    BY <2>2
<1>5. ASSUME Wrong # {} PROVE FALSE
  <2>1. PICK s \in Wrong : \A t \in Wrong : Cardinality(s) <= Cardinality(t)
    BY <1>2, <1>5, SmallestIs
  <2>2. ASSUME NEW t \in SUBSET S, t \subseteq s, t # s PROVE Fine(t)
    <3>1. IsFiniteSet(s) /\ t \in SUBSET s
      BY <1>2, <2>1, <2>2
    <3>2. Cardinality(t) <= Cardinality(s) /\ Cardinality(t) # Cardinality(s)
      BY <2>2, <3>1, FS_Subset
    <3>3. Cardinality(t) \in Nat /\ Cardinality(s) \in Nat
      BY <1>2, <2>1, <2>2, FS_CardinalityType
    <3> QED
      BY <2>1, <2>2, <3>2, <3>3
  <2>3. s # {}
    BY <1>4, <2>1
  <2> DEFINE a == Taken(s)
  <2>4. a \in s /\ a \in Op
    BY <2>3 DEF Taken
  <2>5. f[s] = Amount[a] + f[s \ {a}]
    BY <1>1, <2>3
  <2> HIDE DEF a, Fine
  <2>6. Fine(s \ {a})
    BY <2>2, <2>4
  <2>7. f[s] \in Nat
    BY <1>3, <2>4, <2>5, <2>6 DEF Fine
  <2>8. ASSUME NEW o \in s, o # a PROVE f[s] = Amount[o] + f[s \ {o}]
    <3>1. Fine(s \ {o}) /\ Fine((s \ {a}) \ {o})
      BY <2>2, <2>4, <2>8
    <3>2. o \in s \ {a} /\ a \in s \ {o} /\ (s \ {o}) \ {a} = (s \ {a}) \ {o}
      BY <2>4, <2>8
    <3>3. /\ f[s \ {a}] = Amount[o] + f[(s \ {a}) \ {o}]
          /\ f[s \ {o}] = Amount[a] + f[(s \ {a}) \ {o}]
          /\ f[(s \ {a}) \ {o}] \in Nat
      BY <2>6, <3>1, <3>2 DEF Fine
    <3>4. Amount[o] \in Nat /\ Amount[a] \in Nat
      BY <1>3, <2>4
    <3> QED
      BY <2>5, <3>3, <3>4
  <2>9. Fine(s)
    BY <2>5, <2>7, <2>8 DEF Fine
  <2> QED
    BY <2>9
<1> QED
  BY <1>4, <1>5 DEF AddsUp

\* Sums over two sets agree on what they share.
LEMMA SumsAgree ==
  ASSUME NEW S \in SUBSET Op, IsFiniteSet(S), NEW f, Adds(f, SUBSET S),
         NEW T \in SUBSET S, NEW g, Adds(g, SUBSET T)
  PROVE  g[T] = f[T]
<1> DEFINE Wrong == {t \in SUBSET T : g[t] # f[t]}
<1>1. \A t \in SUBSET T : IsFiniteSet(t)
  BY FS_Subset
<1>2. /\ f[{}] = 0 /\ g[{}] = 0
      /\ \A t \in SUBSET T : \A o \in t :
           f[t] = Amount[o] + f[t \ {o}] /\ g[t] = Amount[o] + g[t \ {o}]
  <2>1. T \in SUBSET Op /\ IsFiniteSet(T)
    BY FS_Subset
  <2>2. AddsUp(f, S) /\ AddsUp(g, T)
    BY <2>1, SumsAre
  <2>3. \A t \in SUBSET T : t \in SUBSET S
    OBVIOUS
  <2> QED
    BY <2>2, <2>3 DEF AddsUp
<1>3. ASSUME Wrong # {} PROVE FALSE
  <2>1. PICK t \in Wrong : \A u \in Wrong : Cardinality(t) <= Cardinality(u)
    BY <1>1, <1>3, SmallestIs
  <2>2. PICK o \in t : TRUE
    BY <1>2, <2>1
  <2>3. Cardinality(t \ {o}) = Cardinality(t) - 1 /\ Cardinality(t) \in Nat
    BY <1>1, <2>2, FS_RemoveElement, FS_CardinalityType
  <2>4. g[t \ {o}] = f[t \ {o}]
    <3>1. ~(Cardinality(t) <= Cardinality(t \ {o}))
      BY <2>3
    <3>2. t \ {o} \in SUBSET T
      BY <2>1
    <3> QED
      BY <2>1, <3>1, <3>2
  <2> QED
    BY <1>2, <2>1, <2>2, <2>4
<1> QED
  BY <1>3

\* One operation more, or less, makes a difference of what it reserves.
LEMMA ReservationsAdd ==
  ASSUME NEW S \in SUBSET Op, NEW o \in S
  PROVE  /\ Reservations(S) = Amount[o] + Reservations(S \ {o})
         /\ Reservations(S \ {o}) \in Nat
<1> DEFINE T == S \ {o}
<1>1. IsFiniteSet(S) /\ IsFiniteSet(T)
  BY OpAssumption, FS_Subset
<1>2. PICK f : Adds(f, SUBSET S) /\ Reservations(S) = f[S]
  <2>1. Adds(CHOOSE f : Adds(f, SUBSET S), SUBSET S)
    BY <1>1, SomeSum
  <2> QED
    BY <2>1, ReservationsAre
<1>3. PICK g : Adds(g, SUBSET T) /\ Reservations(T) = g[T]
  <2>1. Adds(CHOOSE g : Adds(g, SUBSET T), SUBSET T)
    BY <1>1, SomeSum
  <2> QED
    BY <2>1, ReservationsAre
<1>4. T \in SUBSET S /\ T \in SUBSET Op
  OBVIOUS
<1> HIDE DEF T
<1>5. g[T] = f[T]
  BY <1>1, <1>2, <1>3, <1>4, SumsAgree
<1>6. AddsUp(f, S) /\ AddsUp(g, T)
  BY <1>1, <1>2, <1>3, <1>4, SumsAre
<1>7. f[S] = Amount[o] + f[T] /\ g[T] \in Nat
  BY <1>6 DEF T, AddsUp
<1> QED
  BY <1>2, <1>3, <1>5, <1>7 DEF T

LEMMA NothingReserved == Reservations({}) = 0
<1>1. IsFiniteSet({})
  BY FS_EmptySet
<1>2. PICK f : Adds(f, SUBSET {}) /\ Reservations({}) = f[{}]
  <2>1. Adds(CHOOSE f : Adds(f, SUBSET {}), SUBSET {})
    BY <1>1, SomeSum
  <2> QED
    BY <2>1, ReservationsAre
<1> QED
  BY <1>1, <1>2, SumsAre DEF AddsUp

----------------------------------------------------------------------------
(* The budget and capacity rows against the open intents                    *)

\* An intent that is new is open, and holds what it reserves.
LEMMA PersistOpens ==
  ASSUME TypeOK, MemoryInv, NEW p \in Owner, NEW o \in Op, PersistIntent(p, o)
  PROVE  /\ o \notin intents /\ o \notin OpenIntents
         /\ intents' = intents \cup {o} /\ OpenIntents' = OpenIntents \cup {o}
<1>1. o \notin intents
  BY DEF MemoryInv, PersistIntent, Admissible, Starting, MemoryAgrees
<1>2. ~IsTerminal(o)
  BY <1>1 DEF MemoryInv, OutcomesHaveIntents, IsTerminal, Terminal
<1>3. intents' = intents \cup {o} /\ outcome' = outcome
  BY DEF PersistIntent
<1> QED
  BY <1>1, <1>2, <1>3 DEF OpenIntents, IsTerminal

\* The steps that neither admit nor settle.
LEMMA OthersReserveNothing ==
  ASSUME [Next]_vars
  PROVE  \/ UNCHANGED <<intents, outcome, reserved, occupied, spent, limit>>
         \/ \E p \in Owner, o \in Op : PersistIntent(p, o) \/ CommitEffect(p, o)
         \/ /\ \E o \in Op : GrantAllowance(o)
            /\ UNCHANGED <<intents, outcome, reserved, occupied, spent>>
<1>1. ASSUME NEW p \in Owner,
             BeginCycle(p) \/ FinishCycle(p) \/ ApplyFailurePolicy(p)
      PROVE  UNCHANGED <<intents, outcome, reserved, occupied, spent, limit>>
  BY <1>1 DEF BeginCycle, FinishCycle, ApplyFailurePolicy, budgetVars
<1>2. ASSUME NEW p \in Owner, NEW o \in Op, Claim(p, o)
      PROVE  UNCHANGED <<intents, outcome, reserved, occupied, spent, limit>>
  BY <1>2 DEF Claim, budgetVars
<1>3. ASSUME NEW t \in Task, FenceTask(t)
      PROVE  UNCHANGED <<intents, outcome, reserved, occupied, spent, limit>>
  BY <1>3 DEF FenceTask, budgetVars
<1>4. ASSUME PauseRun \/ ResumeRun \/ EndRun \/ Expire \/ UNCHANGED tables
      PROVE  UNCHANGED <<intents, outcome, reserved, occupied, spent, limit>>
  BY <1>4 DEF PauseRun, ResumeRun, SetMode, EndRun, Expire, tables, budgetVars
<1>5. ASSUME NEW o \in Op, GrantAllowance(o)
      PROVE  UNCHANGED <<intents, outcome, reserved, occupied, spent>>
  BY <1>5 DEF GrantAllowance
<1> QED
  BY <1>1, <1>2, <1>3, <1>4, <1>5, TableWrites

\* What the writers of a set occupy, with one operation more and without.
LEMMA SlotsAdd ==
  ASSUME NEW S \in SUBSET Op, NEW o \in S
  PROVE  /\ Cardinality(S \cap WriterOp)
              = SlotsOf(o) + Cardinality((S \ {o}) \cap WriterOp)
         /\ Cardinality((S \ {o}) \cap WriterOp) \in Nat
<1>1. IsFiniteSet(S \cap WriterOp)
  BY OpAssumption, FS_Subset
<1>2. (S \ {o}) \cap WriterOp = (S \cap WriterOp) \ {o}
  OBVIOUS
<1>3. /\ IsFiniteSet((S \cap WriterOp) \ {o})
      /\ Cardinality((S \cap WriterOp) \ {o}) = IF o \in S \cap WriterOp
           THEN Cardinality(S \cap WriterOp) - 1 ELSE Cardinality(S \cap WriterOp)
  BY <1>1, FS_RemoveElement
<1>4. Cardinality(S \cap WriterOp) \in Nat /\ Cardinality((S \cap WriterOp) \ {o}) \in Nat
  BY <1>1, <1>3, FS_CardinalityType
<1>5. CASE o \in WriterOp
  BY <1>2, <1>3, <1>4, <1>5 DEF SlotsOf
<1>6. CASE o \notin WriterOp
  BY <1>2, <1>4, <1>6 DEF SlotsOf
<1> QED
  BY <1>5, <1>6

LEMMA ReservationsStep ==
  ASSUME TypeOK, MemoryInv, ReservationsMatchOpenIntents, [Next]_vars
  PROVE  ReservationsMatchOpenIntents'
<1>1. /\ reserved = Reservations(OpenIntents)
      /\ occupied = Cardinality(OpenIntents \cap WriterOp)
      /\ reserved \in Nat /\ occupied \in Nat /\ OpenIntents \in SUBSET Op
  BY DEF ReservationsMatchOpenIntents, TypeOK, DurableTypeOK, OpenIntents
<1>2. CASE UNCHANGED <<intents, outcome, reserved, occupied>>
  BY <1>2 DEF ReservationsMatchOpenIntents, OpenIntents, IsTerminal
<1>3. ASSUME NEW p \in Owner, NEW o \in Op, PersistIntent(p, o)
      PROVE  ReservationsMatchOpenIntents'
  <2>1. /\ o \notin OpenIntents /\ OpenIntents' = OpenIntents \cup {o}
        /\ reserved' = reserved + Amount[o] /\ occupied' = occupied + SlotsOf(o)
    BY <1>3, PersistOpens DEF PersistIntent
  <2> DEFINE S == OpenIntents \cup {o}
  <2>2. S \in SUBSET Op /\ o \in S /\ S \ {o} = OpenIntents
    BY <1>1, <2>1
  <2> HIDE DEF S
  <2>3. /\ Reservations(S) = Amount[o] + Reservations(OpenIntents)
        /\ Cardinality(S \cap WriterOp)
             = SlotsOf(o) + Cardinality(OpenIntents \cap WriterOp)
    BY <2>2, ReservationsAdd, SlotsAdd
  <2>4. Amount[o] \in Nat /\ SlotsOf(o) \in Nat
    BY BudgetAssumption DEF SlotsOf
  <2>5. reserved' = Reservations(S) /\ occupied' = Cardinality(S \cap WriterOp)
    BY <1>1, <2>1, <2>3, <2>4
  <2>6. OpenIntents' = S
    BY <2>1 DEF S
  <2> QED
    BY <2>5, <2>6 DEF ReservationsMatchOpenIntents
<1>4. ASSUME NEW p \in Owner, NEW o \in Op, CommitEffect(p, o)
      PROVE  ReservationsMatchOpenIntents'
  <2>1. CASE stage[p][o] \notin Terminal
    <3>1. OpenIntents' = OpenIntents
      BY <1>4, <2>1, CommitOpensNothing DEF MemoryInv
    <3>2. reserved' = reserved /\ occupied' = occupied
      BY <1>4, <2>1 DEF CommitEffect
    <3> QED
      BY <1>1, <3>1, <3>2 DEF ReservationsMatchOpenIntents
  <2>2. CASE stage[p][o] \in Terminal
    <3>1. /\ o \in OpenIntents /\ OpenIntents' = OpenIntents \ {o}
          /\ reserved' = reserved - Amount[o] /\ occupied' = occupied - SlotsOf(o)
      BY <1>4, <2>2, CommittedIsOpen, CommitOpensNothing DEF MemoryInv, CommitEffect
    <3>2. /\ Reservations(OpenIntents) = Amount[o] + Reservations(OpenIntents \ {o})
          /\ Reservations(OpenIntents \ {o}) \in Nat
          /\ Cardinality(OpenIntents \cap WriterOp)
               = SlotsOf(o) + Cardinality((OpenIntents \ {o}) \cap WriterOp)
          /\ Cardinality((OpenIntents \ {o}) \cap WriterOp) \in Nat
      BY <1>1, <3>1, ReservationsAdd, SlotsAdd
    <3>3. Amount[o] \in Nat /\ SlotsOf(o) \in Nat
      BY BudgetAssumption DEF SlotsOf
    <3>4. /\ reserved' = Reservations(OpenIntents \ {o})
          /\ occupied' = Cardinality((OpenIntents \ {o}) \cap WriterOp)
      BY <1>1, <3>1, <3>2, <3>3
    <3> QED
      BY <3>1, <3>4 DEF ReservationsMatchOpenIntents
  <2> QED
    BY <2>1, <2>2
<1> QED
  BY <1>2, <1>3, <1>4, OthersReserveNothing

\* The budget row promises the sum of what the intents without a terminal
\* outcome reserve, and the capacity row counts their writers, whatever
\* incarnations crashed, lost their lease or raced between an intent and its
\* settlement: only the holder of the lease writes either, it knows what is
\* open, and a settlement returns what the intent took.
THEOREM ReservationsAreTheOpenIntents == Spec => []ReservationsMatchOpenIntents
<1>1. Init => ReservationsMatchOpenIntents
  <2> SUFFICES ASSUME Init PROVE ReservationsMatchOpenIntents
    OBVIOUS
  <2>1. OpenIntents = {} /\ reserved = 0 /\ occupied = 0
    BY DEF Init, DurableInit, OpenIntents
  <2>2. OpenIntents \cap WriterOp = {}
    BY <2>1
  <2> QED
    BY <2>1, <2>2, NothingReserved, FS_EmptySet DEF ReservationsMatchOpenIntents
<1>2. TypeOK /\ MemoryInv /\ ReservationsMatchOpenIntents /\ [Next]_vars
        => ReservationsMatchOpenIntents'
  BY ReservationsStep
<1> QED
  BY TypeCorrect, MemoryInvariant, <1>1, <1>2, PTL DEF Spec

----------------------------------------------------------------------------
(* The ledger of effects                                                    *)

\* The runner implements the ledger: what it admits is covered by the limit
\* with everything still open, each effect is settled once for at most what it
\* reserved, and only a grant raises the limit; the leases, claims, crashes and
\* host answers in between change nothing that the ledger sees.
THEOREM RunnerKeepsTheLedger == Spec => LedgerSpec
<1> DEFINE account == <<OpenIntents, intents \ OpenIntents, spent, limit>>
<1>1. Init => Ledger!Init
  BY DEF Init, DurableInit, OpenIntents, Ledger!Init
<1>2. ASSUME TypeOK, MemoryInv, ReservationsMatchOpenIntents, [Next]_vars
      PROVE  Ledger!Next \/ UNCHANGED account
  <2>1. /\ spent \in Nat /\ reserved \in Nat /\ limit \in Nat
        /\ intents \in SUBSET Op /\ OpenIntents \subseteq intents
    BY <1>2 DEF TypeOK, DurableTypeOK, OpenIntents
  <2>2. Ledger!Promised = reserved
    <3>1. Ledger!Promised = Reservations(OpenIntents)
      BY DEF Ledger!Promised, Reservations, MapThenSumSet, MapThenFoldSet,
             Ledger!MapThenSumSet, Ledger!MapThenFoldSet
    <3> QED
      BY <1>2, <3>1 DEF ReservationsMatchOpenIntents
  <2>3. CASE UNCHANGED <<intents, outcome, reserved, occupied, spent, limit>>
    <3>1. OpenIntents' = OpenIntents
      BY <2>3 DEF OpenIntents, IsTerminal
    <3> QED
      BY <2>3, <3>1
  <2>4. ASSUME NEW p \in Owner, NEW o \in Op, PersistIntent(p, o) PROVE Ledger!Next
    <3>1. /\ o \notin intents
          /\ intents' = intents \cup {o} /\ OpenIntents' = OpenIntents \cup {o}
      BY <1>2, <2>4, PersistOpens
    <3>2. /\ Amount[o] <= Available /\ UNCHANGED <<spent, limit>>
      BY <2>4 DEF PersistIntent
    <3>3. spent + reserved + Amount[o] <= limit
      BY <2>1, <3>2, BudgetAssumption DEF Available
    <3>4. intents' \ OpenIntents' = intents \ OpenIntents
      BY <3>1
    <3>5. o \notin OpenIntents \cup (intents \ OpenIntents)
      BY <2>1, <3>1
    <3>6. Ledger!Admit(o)
      BY <2>2, <3>1, <3>2, <3>3, <3>4, <3>5 DEF Ledger!Admit
    <3> QED
      BY <3>6 DEF Ledger!Next
  <2>5. ASSUME NEW p \in Owner, NEW o \in Op, CommitEffect(p, o)
        PROVE  Ledger!Next \/ UNCHANGED account
    <3>1. intents' = intents /\ limit' = limit
      BY <2>5 DEF CommitEffect
    <3>2. CASE stage[p][o] \notin Terminal
      <4>1. OpenIntents' = OpenIntents
        BY <1>2, <2>5, <3>2, CommitOpensNothing DEF MemoryInv
      <4>2. spent' = spent
        BY <2>5, <3>2 DEF CommitEffect
      <4> QED
        BY <3>1, <4>1, <4>2
    <3>3. CASE stage[p][o] \in Terminal
      <4>1. /\ o \in OpenIntents /\ OpenIntents' = OpenIntents \ {o}
            /\ \E used \in 0..Amount[o] : spent' = spent + used
        BY <1>2, <2>5, <3>3, CommittedIsOpen, CommitOpensNothing DEF MemoryInv, CommitEffect
      <4>2. intents' \ OpenIntents' = (intents \ OpenIntents) \cup {o}
        BY <2>1, <3>1, <4>1
      <4>3. Ledger!Settle(o)
        BY <3>1, <4>1, <4>2 DEF Ledger!Settle
      <4> QED
        BY <4>3 DEF Ledger!Next
    <3> QED
      BY <3>2, <3>3
  <2>6. ASSUME NEW o \in Op, GrantAllowance(o),
               UNCHANGED <<intents, outcome, reserved, occupied, spent>>
        PROVE  Ledger!Next
    <3>1. OpenIntents' = OpenIntents
      BY <2>6 DEF OpenIntents, IsTerminal
    <3>2. PICK increase \in GrantSizes : limit + increase <= Ceiling /\ limit' = limit + increase
      BY <2>6 DEF GrantAllowance
    <3>3. increase \in Nat \ {0} /\ Ceiling \in Nat
      BY RunnerAssumption, BudgetAssumption
    <3>4. limit' \in (limit + 1)..Ceiling
      BY <2>1, <3>2, <3>3
    <3>5. Ledger!Raise
      BY <2>6, <3>1, <3>4 DEF Ledger!Raise
    <3> QED
      BY <3>5 DEF Ledger!Next
  <2> QED
    BY <1>2, <2>3, <2>4, <2>5, <2>6, OthersReserveNothing
<1>3. TypeOK /\ MemoryInv /\ ReservationsMatchOpenIntents /\ [Next]_vars
        => [Ledger!Next]_account
  BY <1>2
<1> QED
  BY <1>1, <1>3, TypeCorrect, MemoryInvariant, ReservationsAreTheOpenIntents, PTL
     DEF Spec, LedgerSpec, Ledger!Spec, Ledger!ledger
=============================================================================
