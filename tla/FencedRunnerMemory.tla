------------------------- MODULE FencedRunnerMemory -------------------------
(***************************************************************************)
(* What a cycle remembers and how it relates to the tables: while its      *)
(* lease holds, it is right about which effects are open; and it is the    *)
(* only one that remembers having written an intent, so a worker's turn    *)
(* starts at most once.                                                    *)
(***************************************************************************)
EXTENDS FencedRunnerTypes

----------------------------------------------------------------------------
(* The steps, by what they do to a cycle's memory                           *)

\* What the agreement of memory and tables depends on.
memory == <<pc, held, plan, own, stage, calls, lease, intents, outcome>>

\* A cycle ends, throws or dies.
Forgetting(p) ==
  /\ ForgetMemory(p)
  /\ \E to \in {"idle", "dead"} : pc' = [pc EXCEPT ![p] = to]
  /\ \/ lease' = lease
     \/ lease' = [lease EXCEPT !.live = FALSE]
  /\ UNCHANGED <<calls, intents, outcome>>

\* A cycle passes over an operation it had not claimed.
Passing(p, o) ==
  /\ pc[p] = "running"
  /\ Drop(p, o)
  /\ stage[p][o] = "none"
  /\ UNCHANGED <<pc, held, own, stage, calls, lease, intents, outcome>>

\* A cycle learns something about an operation it has claimed.  Only a
\* workspace effect can be "missing" and be dispatched for that reason.
Learning(p, o, to) ==
  /\ pc[p] = "running"
  /\ Advance(p, o, to)
  /\ stage[p][o] # "none" /\ to \in Stages \ {"none"}
  /\ to \in {"dispatch", "entering"} /\ o \in WorkerOp => stage[p][o] = "dispatch"
  /\ \/ calls' = calls
     \/ /\ stage[p][o] = "entering" /\ to = "called"
        /\ calls' = [calls EXCEPT ![o] = @ + 1]
  /\ UNCHANGED <<pc, held, plan, own, lease, intents, outcome>>

\* Throwing forgets, whatever was thrown.
LEMMA ThrowForgets ==
  ASSUME NEW p \in Owner, Throw(p)
  PROVE  Forgetting(p)
BY DEF Throw, Forget, Forgetting, durableVars, hostVars

\* What is next in the plan has no stage yet.
LEMMA NextIsUnstaged ==
  ASSUME NEW p \in Owner, NEW o \in Op, IsNext(p, o)
  PROVE  stage[p][o] = "none"
BY DEF IsNext, IsFirst, Planned

\* Planning forgets, passes over an operation, or admits or claims it.
LEMMA PlanRemembers ==
  ASSUME NEW p \in Owner, NEW o \in Op, Plan(p, o)
  PROVE  \/ Forgetting(p) \/ Passing(p, o)
         \/ PersistIntent(p, o) \/ Claim(p, o)
<1>1. CASE RefuseIntent(p, o) \/ RefuseClaim(p, o)
  BY <1>1, ThrowForgets DEF RefuseIntent, RefuseClaim
<1>2. CASE Escalate(p, o)
  BY <1>2, NextIsUnstaged DEF Escalate, Admissible, Starting, Passing, hostVars
<1>3. CASE SkipClaim(p, o)
  BY <1>3, NextIsUnstaged DEF SkipClaim, SkipPlanned, Claimable, Claiming,
     Passing, durableVars, hostVars
<1> QED
  BY <1>1, <1>2, <1>3 DEF Plan

\* Observing learns; no worker's effect is taken for missing.
LEMMA EffectLearns ==
  ASSUME NEW p \in Owner, NEW o \in Op,
         Effect(p, o) \/ LoseCommit(p, o) \/ LoseResponse(p, o)
  PROVE  \E to : Learning(p, o, to)
<1>0. pc[p] = "running"
  BY DEF Effect, Settle, LoseFence, EnterDispatch, CallDispatch,
     AnswerDispatch, Inspect, InspectLost, CancelWork, AbortSibling,
     LoseCommit, LoseResponse, Working, Committing, AllObserved, Observing
<1>1. ASSUME NEW to \in Stages \ {"none"}, Observe(p, o, to), stage[p][o] # "none",
             to \in {"dispatch", "entering"} /\ o \in WorkerOp => stage[p][o] = "dispatch",
             \/ calls' = calls
             \/ /\ stage[p][o] = "entering" /\ to = "called"
                /\ calls' = [calls EXCEPT ![o] = @ + 1]
      PROVE  Learning(p, o, to)
  BY <1>0, <1>1 DEF Observe, Learning, durableVars
<1>2. CASE Settle(p, o) \/ LoseFence(p, o) \/ LoseResponse(p, o)
  <2>1. PICK to \in {"cancelled", "failed", "error", "lost"} :
          Observe(p, o, to) /\ calls' = calls /\ stage[p][o] # "none"
    BY <1>2 DEF Settle, LoseFence, LoseResponse, hostVars
  <2> QED
    BY <1>1, <2>1 DEF Stages, Statuses, Terminal
<1>3. CASE EnterDispatch(p, o)
  BY <1>1, <1>3 DEF EnterDispatch, hostVars, Stages
<1>4. CASE CallDispatch(p, o)
  BY <1>1, <1>4 DEF CallDispatch, Stages
<1>5. CASE AnswerDispatch(p, o)
  <2>1. DispatchAnswers(o) \subseteq {"completed", "cancelled", "failed"}
    BY DEF DispatchAnswers
  <2>2. PICK to \in {"completed", "cancelled", "failed"} :
          Observe(p, o, to) /\ calls' = calls /\ stage[p][o] # "none"
    BY <1>5, <2>1 DEF AnswerDispatch, hostVars
  <2> QED
    BY <1>1, <2>2 DEF Stages, Statuses, Terminal
<1>6. CASE Inspect(p, o) \/ InspectLost(p, o)
  <2>1. /\ InspectAnswers(o) \subseteq
             {"completed", "active", "unknown", "cancelled", "missing"}
        /\ o \in WorkerOp => "missing" \notin InspectAnswers(o)
    BY DEF InspectAnswers
  <2>2. PICK to \in {"completed", "active", "unknown", "cancelled", "dispatch"} :
          /\ Observe(p, o, to) /\ calls' = calls /\ stage[p][o] # "none"
          /\ o \in WorkerOp => to # "dispatch"
    BY <1>6, <2>1 DEF Inspect, InspectLost, hostVars
  <2>3. to \in Stages \ {"none"}
    BY DEF Stages, Statuses, Terminal, Origins
  <2> QED
    BY <1>1, <2>2, <2>3
<1>7. CASE CancelWork(p, o) \/ AbortSibling(p, o)
  <2>1. PICK to \in {"cancelled", "unknown"} :
          Observe(p, o, to) /\ calls' = calls /\ stage[p][o] # "none"
    BY <1>7 DEF CancelWork, AbortSibling, Origins
  <2> QED
    BY <1>1, <2>1 DEF Stages, Statuses, Terminal
<1>8. CASE LoseCommit(p, o)
  <2>1. stage[p][o] \in Statuses
    BY <1>8 DEF LoseCommit, Committing, IsFirst, Observed
  <2> QED
    BY <1>1, <1>8, <2>1 DEF LoseCommit, hostVars, Stages, Statuses, Terminal
<1> QED
  BY <1>2, <1>3, <1>4, <1>5, <1>6, <1>7, <1>8 DEF Effect

\* Every step of the system is one of these, or leaves memory and what it has
\* to agree with alone.
LEMMA MemoryWrites ==
  ASSUME [Next]_vars
  PROVE  \/ UNCHANGED memory
         \/ \E p \in Owner : BeginCycle(p) \/ Forgetting(p)
         \/ \E p \in Owner, o \in Op :
              \/ Passing(p, o) \/ (\E to : Learning(p, o, to))
              \/ PersistIntent(p, o) \/ Claim(p, o) \/ CommitEffect(p, o)
         \/ Expire
<1>1. CASE UNCHANGED vars
  BY <1>1 DEF vars, durableVars, cycleVars, hostVars, memory
<1>2. ASSUME NEW p \in Owner, CloseCycle(p)
      PROVE  UNCHANGED memory \/ Forgetting(p)
  <2>1. CASE ThrowErrors(p)
    BY <2>1, ThrowForgets DEF ThrowErrors
  <2>2. CASE ApplyFailurePolicy(p)
    BY <2>2 DEF ApplyFailurePolicy, memory, hostVars
  <2>3. CASE FinishCycle(p)
    BY <2>3 DEF FinishCycle, Forget, Forgetting, hostVars
  <2> QED
    BY <1>2, <2>1, <2>2, <2>3 DEF CloseCycle
<1>3. ASSUME NEW o \in Op,
             Enqueue(o) \/ PassDeadline(o) \/ GrantAllowance(o) \/ WorkEnds(o)
      PROVE  UNCHANGED memory
  BY <1>3 DEF Enqueue, PassDeadline, GrantAllowance, WorkEnds, memory,
     durableVars, cycleVars, hostVars
<1>4. ASSUME NEW t \in Task, FenceTask(t) PROVE UNCHANGED memory
  BY <1>4 DEF FenceTask, memory, cycleVars, hostVars
<1>5. ASSUME PauseRun \/ ResumeRun \/ EndRun \/ EndRunThrows
      PROVE  UNCHANGED memory
  BY <1>5 DEF PauseRun, ResumeRun, SetMode, EndRun, EndRunThrows, memory,
     durableVars, cycleVars, hostVars
<1>6. ASSUME NEW p \in Owner, Crash(p) PROVE Forgetting(p)
  BY <1>6 DEF Crash, Forgetting, durableVars, hostVars
<1> QED
  BY <1>1, <1>2, <1>3, <1>4, <1>5, <1>6, PlanRemembers, EffectLearns
     DEF Next, Environment, Cycle, Commit

----------------------------------------------------------------------------
(* Memory and tables agree while the lease holds                            *)

\* The plan names what is open to claim, and what has no intent to start.
LEMMA PlannedKindMeans ==
  ASSUME NEW o \in Op
  PROVE  /\ PlannedKind(o) \in {"none", "urgent", "reconcile", "start"}
         /\ PlannedKind(o) \in ToClaim => o \in OpenIntents
         /\ PlannedKind(o) = "start" => o \notin intents
<1>1. /\ PlannedReconciles \subseteq OpenIntents
      /\ PlannedStarts \cap intents = {}
  BY DEF PlannedReconciles, PlannedStarts, Fitting, Startable
<1> QED
  BY <1>1 DEF PlannedKind, ToClaim

\* An incarnation outside a cycle has no memory.
LEMMA IdleStep ==
  ASSUME TypeOK, IdleRemembersNothing, [Next]_vars
  PROVE  IdleRemembersNothing'
<1>1. CASE UNCHANGED memory \/ Expire
  BY <1>1 DEF memory, Expire, cycleVars, IdleRemembersNothing
<1>2. ASSUME NEW p \in Owner, BeginCycle(p) PROVE IdleRemembersNothing'
  <2>1. /\ pc' = [pc EXCEPT ![p] = "running"]
        /\ \A q \in Owner \ {p} : plan'[q] = plan[q]
        /\ UNCHANGED <<stage, own>>
    BY <1>2 DEF BeginCycle, TypeOK
  <2> QED
    BY <2>1 DEF IdleRemembersNothing, TypeOK
<1>3. ASSUME NEW p \in Owner, Forgetting(p) PROVE IdleRemembersNothing'
  BY <1>3 DEF Forgetting, ForgetMemory, IdleRemembersNothing, TypeOK
<1>4. ASSUME NEW p \in Owner, NEW o \in Op,
             \/ Passing(p, o) \/ (\E to : Learning(p, o, to))
             \/ PersistIntent(p, o) \/ Claim(p, o) \/ CommitEffect(p, o)
      PROVE  IdleRemembersNothing'
  <2>1. /\ pc' = pc
        /\ \A q \in Owner \ {p} :
             plan'[q] = plan[q] /\ stage'[q] = stage[q] /\ own'[q] = own[q]
    BY <1>4 DEF Passing, Learning, PersistIntent, Claim, CommitEffect, Drop,
       Advance, TypeOK
  <2>2. pc[p] = "running"
    BY <1>4 DEF Passing, Learning, PersistIntent, Admissible, Starting, Claim,
       Claimable, Claiming, CommitEffect, Committing, AllObserved, Observing
  <2> QED
    BY <2>1, <2>2 DEF IdleRemembersNothing
<1> QED
  BY <1>1, <1>2, <1>3, <1>4, MemoryWrites

\* The reading of MemoryAgrees for one incarnation and one operation.
Agrees(p, o) ==
  /\ stage[p][o] # "none" => plan[p][o] \in ToClaim
  /\ HoldsLease(p, held[p]) =>
       /\ plan[p][o] \in ToClaim => o \in OpenIntents
       /\ plan[p][o] = "start" => o \notin intents

\* An incarnation that did not move keeps agreeing, unless the tables moved
\* under its lease.
LEMMA AgreesStays ==
  ASSUME NEW p \in Owner, NEW o \in Op, Agrees(p, o),
         plan'[p][o] = plan[p][o], stage'[p][o] = stage[p][o],
         \/ ~HoldsLease(p, held[p])'
         \/ /\ HoldsLease(p, held[p])
            /\ (o \in intents') <=> (o \in intents)
            /\ outcome'[o] = outcome[o]
  PROVE  Agrees(p, o)'
BY DEF Agrees, OpenIntents, IsTerminal

\* Taking the lease ends every other incarnation's hold on it, and plans from
\* the tables as they are.
LEMMA BeginCycleAgrees ==
  ASSUME TypeOK, IdleRemembersNothing, MemoryAgrees, NEW p \in Owner, BeginCycle(p),
         NEW q \in Owner, NEW o \in Op
  PROVE  Agrees(q, o)'
<1>1. UNCHANGED <<stage, intents, outcome>>
  BY DEF BeginCycle
<1>2. CASE q = p
  <2>1. stage[p][o] = "none"
    BY DEF BeginCycle, IdleRemembersNothing, NoStage
  <2>2. plan'[p][o] = PlannedKind(o)
    BY DEF BeginCycle, TypeOK
  <2> QED
    BY <1>1, <1>2, <2>1, <2>2, PlannedKindMeans DEF Agrees, OpenIntents, IsTerminal
<1>3. CASE q # p
  <2>1. ~HoldsLease(q, held[q])'
    BY <1>3 DEF BeginCycle, AcquireLease, HoldsLease
  <2>2. plan'[q] = plan[q] /\ Agrees(q, o)
    BY <1>3 DEF BeginCycle, TypeOK, MemoryAgrees, Agrees
  <2> QED
    BY <1>1, <2>1, <2>2, AgreesStays
<1> QED
  BY <1>2, <1>3

\* Losing the memory, or the lease, leaves nothing to disagree.
LEMMA ForgettingAgrees ==
  ASSUME TypeOK, MemoryAgrees, NEW p \in Owner, Forgetting(p),
         NEW q \in Owner, NEW o \in Op
  PROVE  Agrees(q, o)'
<1>1. UNCHANGED <<intents, outcome>> /\ Agrees(q, o)
  BY DEF Forgetting, MemoryAgrees, Agrees
<1>2. CASE q = p
  <2>1. plan'[p][o] = "none" /\ stage'[p][o] = "none"
    BY DEF Forgetting, ForgetMemory, NoPlan, NoStage, TypeOK
  <2> QED
    BY <1>2, <2>1 DEF Agrees, ToClaim
<1>3. CASE q # p
  <2>1. held'[q] = held[q] /\ plan'[q] = plan[q] /\ stage'[q] = stage[q]
    BY <1>3 DEF Forgetting, ForgetMemory, TypeOK
  <2>2. HoldsLease(q, held[q])' => HoldsLease(q, held[q])
    BY <2>1 DEF Forgetting, HoldsLease, TypeOK, DurableTypeOK, Leases
  <2> QED
    BY <1>1, <2>1, <2>2, AgreesStays
<1> QED
  BY <1>2, <1>3

\* Planning and observing move one operation of one incarnation.
LEMMA PassingAgrees ==
  ASSUME TypeOK, MemoryAgrees, NEW p \in Owner, NEW a \in Op,
         Passing(p, a) \/ (\E to : Learning(p, a, to)) \/ Claim(p, a),
         NEW q \in Owner, NEW o \in Op
  PROVE  Agrees(q, o)'
<1>1. Agrees(q, o)
  BY DEF MemoryAgrees, Agrees
<1>2. UNCHANGED <<lease, held, intents, outcome>>
  BY DEF Passing, Learning, Claim
<1>3. CASE q = p /\ o = a
  <2>1. CASE Passing(p, a)
    <3>1. plan'[p][a] = "none" /\ stage'[p][a] = "none"
      BY <2>1 DEF Passing, Drop, TypeOK
    <3> QED
      BY <1>3, <3>1 DEF Agrees, ToClaim
  <2>2. CASE (\E to : Learning(p, a, to)) \/ Claim(p, a)
    <3>1. plan' = plan /\ plan[p][a] \in ToClaim
      BY <1>1, <1>3, <2>2 DEF Learning, Claim, Claimable, Claiming, Agrees
    <3> QED
      BY <1>1, <1>2, <1>3, <3>1 DEF Agrees, HoldsLease, OpenIntents, IsTerminal
  <2> QED
    BY <2>1, <2>2
<1>4. CASE q # p \/ o # a
  <2>1. plan'[q][o] = plan[q][o] /\ stage'[q][o] = stage[q][o]
    BY <1>4 DEF Passing, Learning, Claim, Drop, Advance, TypeOK
  <2>2. HoldsLease(q, held[q])' <=> HoldsLease(q, held[q])
    BY <1>2 DEF HoldsLease
  <2> QED
    BY <1>1, <1>2, <2>1, <2>2, AgreesStays
<1> QED
  BY <1>3, <1>4

\* Only the lease's holder writes an intent; it knows.
LEMMA PersistIntentAgrees ==
  ASSUME TypeOK, MemoryAgrees, OutcomesHaveIntents,
         NEW p \in Owner, NEW a \in Op, PersistIntent(p, a),
         NEW q \in Owner, NEW o \in Op
  PROVE  Agrees(q, o)'
<1>1. Agrees(q, o)
  BY DEF MemoryAgrees, Agrees
<1>2. UNCHANGED <<lease, held, stage, outcome>> /\ HoldsLease(p, held[p])
  BY DEF PersistIntent, Admissible
<1>3. CASE q = p /\ o = a
  <2>1. plan'[p][a] = "started" /\ a \in intents'
    BY DEF PersistIntent, TypeOK
  <2>2. plan[p][a] = "start" /\ stage[p][a] = "none"
    BY NextIsUnstaged DEF PersistIntent, Admissible, Starting
  <2>3. outcome[a].status = "none"
    BY <1>2, <2>2 DEF MemoryAgrees, OutcomesHaveIntents
  <2>4. ~IsTerminal(a)'
    BY <1>2, <2>3 DEF IsTerminal, Terminal
  <2> QED
    BY <1>2, <1>3, <2>1, <2>4 DEF Agrees, ToClaim, OpenIntents
<1>4. CASE q = p /\ o # a
  <2>1. /\ plan'[q][o] = plan[q][o]
        /\ (o \in intents') <=> (o \in intents)
    BY <1>4 DEF PersistIntent, TypeOK, DurableTypeOK
  <2> QED
    BY <1>1, <1>2, <1>4, <2>1, AgreesStays
<1>5. CASE q # p
  <2>1. plan'[q] = plan[q] /\ ~HoldsLease(q, held[q])'
    BY <1>2, <1>5 DEF PersistIntent, HoldsLease, TypeOK
  <2> QED
    BY <1>1, <1>2, <2>1, AgreesStays
<1> QED
  BY <1>3, <1>4, <1>5

\* Only the lease's holder settles an effect, and then takes it off its plan.
LEMMA CommitEffectAgrees ==
  ASSUME TypeOK, MemoryAgrees, NEW p \in Owner, NEW a \in Op, CommitEffect(p, a),
         NEW q \in Owner, NEW o \in Op
  PROVE  Agrees(q, o)'
<1>1. Agrees(q, o)
  BY DEF MemoryAgrees, Agrees
<1>2. UNCHANGED <<lease, held, intents>> /\ HoldsLease(p, held[p])
  BY DEF CommitEffect, OwnsClaim
<1>3. CASE q = p /\ o = a
  <2>1. plan'[p][a] = "none" /\ stage'[p][a] = "none"
    BY DEF CommitEffect, Drop, Advance, TypeOK
  <2> QED
    BY <1>3, <2>1 DEF Agrees, ToClaim
<1>4. CASE q = p /\ o # a
  <2>1. /\ plan'[q][o] = plan[q][o] /\ stage'[q][o] = stage[q][o]
        /\ outcome'[o] = outcome[o]
    BY <1>4 DEF CommitEffect, Drop, Advance, TypeOK, DurableTypeOK
  <2> QED
    BY <1>1, <1>2, <1>4, <2>1, AgreesStays
<1>5. CASE q # p
  <2>1. plan'[q] = plan[q] /\ stage'[q] = stage[q] /\ ~HoldsLease(q, held[q])'
    BY <1>2, <1>5 DEF CommitEffect, Drop, Advance, HoldsLease, TypeOK
  <2> QED
    BY <1>1, <1>2, <2>1, AgreesStays
<1> QED
  BY <1>3, <1>4, <1>5

\* Each step keeps memory and tables in agreement.
LEMMA MemoryAgreesStep ==
  ASSUME TypeOK, IdleRemembersNothing, OutcomesHaveIntents, MemoryAgrees,
         [Next]_vars
  PROVE  MemoryAgrees'
<1> SUFFICES ASSUME NEW q \in Owner, NEW o \in Op PROVE Agrees(q, o)'
  BY DEF MemoryAgrees, Agrees
<1>1. CASE UNCHANGED memory \/ Expire
  <2>1. Agrees(q, o) /\ UNCHANGED <<plan, stage, intents, outcome>>
    BY <1>1 DEF memory, Expire, cycleVars, MemoryAgrees, Agrees
  <2>2. HoldsLease(q, held[q])' => HoldsLease(q, held[q])
    BY <1>1 DEF memory, Expire, cycleVars, HoldsLease, TypeOK, DurableTypeOK, Leases
  <2> QED
    BY <2>1, <2>2, AgreesStays
<1> QED
  BY <1>1, BeginCycleAgrees, ForgettingAgrees, PassingAgrees,
     PersistIntentAgrees, CommitEffectAgrees, MemoryWrites

\* A commit is its incarnation's own: the effect is open.
LEMMA CommittedIsOpen ==
  ASSUME MemoryAgrees, NEW p \in Owner, NEW o \in Op, CommitEffect(p, o)
  PROVE  o \in OpenIntents
<1>1. stage[p][o] # "none" /\ HoldsLease(p, held[p])
  BY DEF CommitEffect, OwnsClaim, Committing, IsFirst, Observed, Statuses, Terminal
<1> QED
  BY <1>1 DEF MemoryAgrees

\* Only effects with an intent get an outcome.
LEMMA OutcomesHaveIntentsStep ==
  ASSUME TypeOK, MemoryAgrees, OutcomesHaveIntents, [Next]_vars
  PROVE  OutcomesHaveIntents'
<1>1. CASE intents \subseteq intents' /\ outcome' = outcome
  BY <1>1 DEF OutcomesHaveIntents
<1>2. ASSUME NEW p \in Owner, NEW a \in Op, CommitEffect(p, a)
      PROVE  OutcomesHaveIntents'
  <2>1. a \in intents /\ intents' = intents
    BY <1>2, CommittedIsOpen DEF CommitEffect, OpenIntents
  <2>2. \A o \in Op \ {a} : outcome'[o] = outcome[o]
    BY <1>2 DEF CommitEffect, TypeOK, DurableTypeOK
  <2> QED
    BY <2>1, <2>2 DEF OutcomesHaveIntents
<1>3. CASE UNCHANGED memory \/ Expire
  BY <1>1, <1>3 DEF memory, Expire
<1>4. ASSUME NEW p \in Owner, BeginCycle(p) \/ Forgetting(p)
      PROVE  OutcomesHaveIntents'
  BY <1>1, <1>4 DEF BeginCycle, Forgetting
<1>5. ASSUME NEW p \in Owner, NEW a \in Op,
             \/ Passing(p, a) \/ (\E to : Learning(p, a, to))
             \/ PersistIntent(p, a) \/ Claim(p, a)
      PROVE  OutcomesHaveIntents'
  BY <1>1, <1>5 DEF Passing, Learning, PersistIntent, Claim
<1> QED
  BY <1>2, <1>3, <1>4, <1>5, MemoryWrites

\* The inductive invariant of this module's theorems.
MemoryInv == IdleRemembersNothing /\ OutcomesHaveIntents /\ MemoryAgrees

\* Agreement, with what it rests on, is an invariant: the fact the other
\* theorems start from.
THEOREM MemoryInvariant == Spec => []MemoryInv
<1>1. Init => MemoryInv
  BY DEF Init, DurableInit, NoPlan, NoStage, NoOutcome, HoldsLease, ToClaim,
     MemoryInv, IdleRemembersNothing, OutcomesHaveIntents, MemoryAgrees
<1>2. TypeOK /\ MemoryInv /\ [Next]_vars => MemoryInv'
  BY IdleStep, OutcomesHaveIntentsStep, MemoryAgreesStep DEF MemoryInv
<1> QED
  BY TypeCorrect, <1>1, <1>2, PTL DEF Spec

\* The memory of a cycle whose lease holds agrees with the tables, however
\* many incarnations crash, stall or take the lease over: assertRunnerFence
\* admits nobody who is wrong about what is open.
THEOREM HoldersMemoryAgrees == Spec => []MemoryAgrees
<1>1. MemoryInv => MemoryAgrees
  BY DEF MemoryInv
<1> QED
  BY MemoryInvariant, <1>1, PTL

----------------------------------------------------------------------------
(* A worker's turn starts at most once                                      *)

\* The inductive invariant: until the one incarnation that wrote the intent
\* has called the host, the host has not been called.
DispatchInv == DispatchesAreOwned /\ WorkersStartOnce

\* A new plan starts from an empty memory; forgetting only takes away.
LEMMA PlanningKeepsDispatches ==
  ASSUME TypeOK, MemoryInv, DispatchInv, NEW p \in Owner,
         BeginCycle(p) \/ Forgetting(p)
  PROVE  DispatchInv'
<1>1. UNCHANGED <<calls, intents>>
  BY DEF BeginCycle, Forgetting, hostVars
<1>2. \A q \in Owner \ {p} :
        plan'[q] = plan[q] /\ own'[q] = own[q] /\ stage'[q] = stage[q]
  BY DEF BeginCycle, Forgetting, ForgetMemory, TypeOK
<1>3. own'[p] = {} /\ stage'[p] = NoStage
  BY DEF BeginCycle, Forgetting, ForgetMemory, TypeOK, MemoryInv,
     IdleRemembersNothing
<1>4. \A o \in Op : stage'[p][o] = "none"
  BY <1>3 DEF NoStage
<1>5. IntentsAreOwned'
  BY <1>1, <1>2, <1>3 DEF IntentsAreOwned, DispatchInv, DispatchesAreOwned
<1>6. ASSUME NEW q \in Owner, NEW o \in WorkerOp PROVE DispatchIsOwned(q, o)'
  <2>1. DispatchIsOwned(q, o)
    BY DEF DispatchInv, DispatchesAreOwned
  <2> QED
    BY <1>1, <1>2, <1>3, <1>4, <2>1, OpAssumption DEF DispatchIsOwned
<1> QED
  BY <1>1, <1>5, <1>6 DEF DispatchInv, DispatchesAreOwned, WorkersStartOnce

\* Passing over an operation, or committing it, takes it off the plan.
LEMMA DroppingKeepsDispatches ==
  ASSUME TypeOK, DispatchInv, NEW p \in Owner, NEW a \in Op,
         Passing(p, a) \/ CommitEffect(p, a)
  PROVE  DispatchInv'
<1>1. UNCHANGED <<calls, intents, own>>
  BY DEF Passing, CommitEffect, hostVars
<1>2. plan'[p][a] = "none"
  BY DEF Passing, CommitEffect, Drop, TypeOK
<1>3. \A q \in Owner, o \in Op : (q # p \/ o # a) =>
        plan'[q][o] = plan[q][o] /\ stage'[q][o] = stage[q][o]
  BY DEF Passing, CommitEffect, Drop, Advance, TypeOK
<1>4. stage'[p][a] = "none"
  BY DEF Passing, CommitEffect, Advance, TypeOK
<1>5. IntentsAreOwned'
  BY <1>1, <1>2, <1>3 DEF IntentsAreOwned, DispatchInv, DispatchesAreOwned
<1>6. ASSUME NEW q \in Owner, NEW o \in WorkerOp PROVE DispatchIsOwned(q, o)'
  <2>1. DispatchIsOwned(q, o)
    BY DEF DispatchInv, DispatchesAreOwned
  <2> QED
    BY <1>1, <1>2, <1>3, <1>4, <2>1, OpAssumption DEF DispatchIsOwned
<1> QED
  BY <1>1, <1>5, <1>6 DEF DispatchInv, DispatchesAreOwned, WorkersStartOnce

\* A new intent is nobody's yet, and its effect has never been dispatched.
LEMMA PersistIntentKeepsDispatches ==
  ASSUME TypeOK, MemoryInv, DispatchInv, NEW p \in Owner, NEW a \in Op,
         PersistIntent(p, a)
  PROVE  DispatchInv'
<1>1. UNCHANGED <<calls, stage>> /\ intents' = intents \cup {a}
  BY DEF PersistIntent, hostVars
<1>2. a \notin intents
  BY DEF PersistIntent, Admissible, Starting, MemoryInv, MemoryAgrees
<1>3. /\ own'[p] = own[p] \cup {a} /\ plan'[p][a] = "started"
      /\ \A q \in Owner \ {p} : own'[q] = own[q] /\ plan'[q] = plan[q]
      /\ \A o \in Op \ {a} : plan'[p][o] = plan[p][o]
  BY DEF PersistIntent, TypeOK
<1>4. a \in WorkerOp => calls[a] = 0
  BY <1>2 DEF DispatchInv, DispatchesAreOwned
<1>5. \A q \in Owner : a \notin own[q]
  BY <1>2 DEF DispatchInv, DispatchesAreOwned, IntentsAreOwned
<1>6. IntentsAreOwned'
  <2>1. /\ \A q \in Owner : own'[q] \subseteq intents'
        /\ \A q, r \in Owner : q # r => own'[q] \cap own'[r] = {}
    BY <1>1, <1>3, <1>5 DEF DispatchInv, DispatchesAreOwned, IntentsAreOwned
  <2>2. \A q \in Owner, o \in Op :
          o \in own'[q] => plan'[q][o] \in {"started", "none"}
    BY <1>3 DEF DispatchInv, DispatchesAreOwned, IntentsAreOwned
  <2> QED
    BY <2>1, <2>2 DEF IntentsAreOwned
<1>7. ASSUME NEW q \in Owner, NEW o \in WorkerOp PROVE DispatchIsOwned(q, o)'
  <2>1. DispatchIsOwned(q, o) /\ own[q] \subseteq own'[q]
    BY <1>3 DEF DispatchInv, DispatchesAreOwned
  <2>2. CASE o = a
    BY <1>1, <1>4, <2>1, <2>2 DEF DispatchIsOwned
  <2>3. CASE o # a
    BY <1>1, <1>3, <2>1, <2>3, OpAssumption DEF DispatchIsOwned
  <2> QED
    BY <2>2, <2>3
<1> QED
  BY <1>1, <1>6, <1>7 DEF DispatchInv, DispatchesAreOwned, WorkersStartOnce

\* selectEffectAttemptAction dispatches for the attempt that wrote the intent.
LEMMA ClaimKeepsDispatches ==
  ASSUME TypeOK, DispatchInv, NEW p \in Owner, NEW a \in Op, Claim(p, a)
  PROVE  DispatchInv'
<1>1. UNCHANGED <<calls, intents, own, plan>>
  BY DEF Claim, hostVars
<1>2. /\ stage'[p][a] = ActionOf(p, a)
      /\ \A q \in Owner, o \in Op : (q # p \/ o # a) => stage'[q][o] = stage[q][o]
  BY DEF Claim, TypeOK
<1>3. stage[p][a] = "none" /\ plan[p][a] \in ToClaim
  BY NextIsUnstaged DEF Claim, Claimable, Claiming
<1>4. /\ ActionOf(p, a) \in Origins
      /\ ActionOf(p, a) = "dispatch" => a \in own[p]
  BY DEF ActionOf, AttemptAction, Origins
<1>5. a \in WorkerOp /\ a \in own[p] => calls[a] = 0
  BY <1>3 DEF ToClaim, DispatchInv, DispatchesAreOwned, IntentsAreOwned,
     DispatchIsOwned
<1>6. ActionOf(p, a) # "none" /\ ActionOf(p, a) # "entering"
  BY <1>4 DEF Origins
<1>7. ASSUME NEW q \in Owner, NEW o \in WorkerOp PROVE DispatchIsOwned(q, o)'
  <2>1. DispatchIsOwned(q, o)
    BY DEF DispatchInv, DispatchesAreOwned
  <2>2. CASE q = p /\ o = a
    BY <1>1, <1>2, <1>4, <1>5, <1>6, <2>2 DEF DispatchIsOwned
  <2>3. CASE q # p \/ o # a
    BY <1>1, <1>2, <2>1, <2>3, OpAssumption DEF DispatchIsOwned
  <2> QED
    BY <2>2, <2>3
<1>8. IntentsAreOwned'
  BY <1>1 DEF IntentsAreOwned, DispatchInv, DispatchesAreOwned
<1> QED
  BY <1>1, <1>7, <1>8 DEF DispatchInv, DispatchesAreOwned, WorkersStartOnce

\* Observing calls the host once, and never finds a worker's turn missing.
LEMMA LearningKeepsDispatches ==
  ASSUME TypeOK, DispatchInv, NEW p \in Owner, NEW a \in Op, NEW to,
         Learning(p, a, to)
  PROVE  DispatchInv'
<1>1. UNCHANGED <<intents, own, plan>>
  BY DEF Learning
<1>2. /\ stage'[p][a] = to /\ to # "none"
      /\ \A q \in Owner, o \in Op : (q # p \/ o # a) => stage'[q][o] = stage[q][o]
  BY DEF Learning, Advance, TypeOK
<1>3. IntentsAreOwned'
  BY <1>1 DEF IntentsAreOwned, DispatchInv, DispatchesAreOwned
<1>4. CASE calls' = calls
  <2>1. ASSUME NEW q \in Owner, NEW o \in WorkerOp PROVE DispatchIsOwned(q, o)'
    <3>1. DispatchIsOwned(q, o)
      BY DEF DispatchInv, DispatchesAreOwned
    <3>2. CASE q = p /\ o = a
      <4>1. to \in {"dispatch", "entering"} => stage[p][a] = "dispatch"
        BY <3>2 DEF Learning
      <4> QED
        BY <1>1, <1>2, <1>4, <3>1, <3>2, <4>1 DEF DispatchIsOwned
    <3>3. CASE q # p \/ o # a
      BY <1>1, <1>2, <1>4, <3>1, <3>3, OpAssumption DEF DispatchIsOwned
    <3> QED
      BY <3>2, <3>3
  <2> QED
    BY <1>1, <1>3, <1>4, <2>1 DEF DispatchInv, DispatchesAreOwned, WorkersStartOnce
<1>5. CASE calls' # calls
  <2>1. /\ stage[p][a] = "entering" /\ to = "called"
        /\ calls'[a] = calls[a] + 1
        /\ \A o \in Op \ {a} : calls'[o] = calls[o]
    BY <1>5 DEF Learning, TypeOK
  <2>2. a \in WorkerOp => a \in own[p] /\ a \in intents /\ calls[a] = 0
    BY <2>1 DEF DispatchInv, DispatchesAreOwned, IntentsAreOwned, DispatchIsOwned
  <2>3. a \in WorkerOp => \A q \in Owner \ {p} : a \notin own[q]
    BY <2>2 DEF DispatchInv, DispatchesAreOwned, IntentsAreOwned
  <2>4. WorkersStartOnce'
    BY <2>1, <2>2, OpAssumption DEF DispatchInv, WorkersStartOnce
  <2>5. ASSUME NEW q \in Owner, NEW o \in WorkerOp PROVE DispatchIsOwned(q, o)'
    <3>1. DispatchIsOwned(q, o)
      BY DEF DispatchInv, DispatchesAreOwned
    <3>2. CASE q = p /\ o = a
      BY <1>2, <2>1, <3>2 DEF DispatchIsOwned
    <3>3. CASE q # p /\ o = a
      BY <1>1, <1>2, <2>3, <3>1, <3>3, OpAssumption DEF DispatchIsOwned
    <3>4. CASE o # a
      BY <1>1, <1>2, <2>1, <3>1, <3>4, OpAssumption DEF DispatchIsOwned
    <3> QED
      BY <3>2, <3>3, <3>4
  <2>6. \A o \in WorkerOp : o \notin intents => calls'[o] = 0
    BY <2>1, <2>2, OpAssumption DEF DispatchInv, DispatchesAreOwned
  <2> QED
    BY <1>1, <1>3, <2>4, <2>5, <2>6 DEF DispatchInv, DispatchesAreOwned
<1> QED
  BY <1>4, <1>5

\* persistIntent hands the dispatch of a worker's turn to one incarnation, and
\* no crash, takeover, lost response or reconciliation hands it to another:
\* the worker host is asked to start it at most once.
THEOREM WorkersAreStartedOnce == Spec => []WorkersStartOnce
<1>1. Init => DispatchInv
  BY OpAssumption DEF Init, DurableInit, NoStage, NoPlan, DispatchInv,
     DispatchesAreOwned, IntentsAreOwned, DispatchIsOwned, WorkersStartOnce
<1>2. TypeOK /\ MemoryInv /\ DispatchInv /\ [Next]_vars => DispatchInv'
  <2> SUFFICES ASSUME TypeOK, MemoryInv, DispatchInv, [Next]_vars
               PROVE  DispatchInv'
    OBVIOUS
  <2>1. CASE UNCHANGED memory \/ Expire
    BY <2>1 DEF memory, Expire, cycleVars, hostVars, DispatchInv,
       DispatchesAreOwned, IntentsAreOwned, DispatchIsOwned, WorkersStartOnce
  <2> QED
    BY <2>1, PlanningKeepsDispatches, DroppingKeepsDispatches,
       PersistIntentKeepsDispatches, ClaimKeepsDispatches,
       LearningKeepsDispatches, MemoryWrites
<1>3. DispatchInv => WorkersStartOnce
  BY DEF DispatchInv
<1> QED
  BY TypeCorrect, MemoryInvariant, <1>1, <1>2, <1>3, PTL DEF Spec
=============================================================================
