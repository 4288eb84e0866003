--------------------------- MODULE IntegrationProofs ---------------------------
(***************************************************************************)
(* What the integration keeps, for any runs, services, attempts and        *)
(* faults: only gated work reaches the branch, one integration at a time,  *)
(* trust and completion follow the branch, an attempt changes hands with   *)
(* the slot, and every step is one IntegrationLedger allows.               *)
(***************************************************************************)
EXTENDS IntegrationTypes

----------------------------------------------------------------------------
(* The inductive invariant                                                  *)

Started(a, s) == effect[a][s].status \notin {"none", "queued"}

\* What the gate's decision and the effects' records say of one another.
Evidence ==
  /\ \A p \in Service : pc[p] \in Hosted => Started(job[p].at, job[p].stage)
  /\ \A p \in Service : pc[p] = "rework" => attempt[job[p].at].gate = "failed"
  /\ \A a \in Attempt :
       /\ effect[a]["publish"].status # "none" => attempt[a].gate = "passed"
       /\ attempt[a].state \in {"absent", "intent"} => attempt[a].gate = "none"
       /\ attempt[a].state \in {"gate-failed", "rework-required"} => attempt[a].gate = "failed"
       /\ attempt[a].state \in {"publishing", "published", "target-moved", "barrier-recorded"} =>
            attempt[a].gate = "passed"

\* What trust rests on: a verdict of "new" was true, and the branch only grows.
Trusting ==
  /\ TrustedAgrees
  /\ \A p \in Service : pc[p] \in Hosted /\ verdict[p] = "new" => Moved(job[p].at)
  /\ \A p \in Service : pc[p] = "barrier" => trusted[job[p].at[1]] = job[p].at

\* The slot's fence is the greatest, and a terminal attempt has lost it.
Ownership ==
  \A a \in Attempt :
    /\ attempt[a].state = "absent" => attempt[a].owner = NoService
    /\ attempt[a].fence <= slot.fence
    /\ attempt[a].state \in Terminal => ~(slot.live /\ slot.fence = attempt[a].fence)

\* A live context is one of the run's holder, whose effect is unsettled.
Leased ==
  \A p \in Service :
    /\ pc[p] \in {"idle", "dead"} => ~ctx[p]
    /\ ctx[p] => pc[p] \in Hosted /\ HoldsRun(p)
    /\ pc[p] \in Hosted /\ HoldsRun(p) => effect[job[p].at][job[p].stage].status \in Unsettled

CancelModes == {"cancel", "lost-cancel"}

\* Only effects of an ended run are cancelled, and while a service is about
\* to cancel, whoever holds the run is not working towards a publication.
Asking ==
  /\ \A a \in Attempt, s \in Stage :
       /\ effect[a][s].asked => a[1] \in ended
       /\ a[1] \in ended /\ effect[a][s].status \in Unsettled => effect[a][s].asked
  /\ \A a \in Attempt : attempt[a].state = "cancelled" => a[1] \in ended
  /\ \A p \in Service :
       /\ pc[p] = "cancel" => job[p].run \in ended /\ job[p].mode = "cancel"
       /\ pc[p] \in Hosted /\ job[p].mode \in CancelModes /\ job[p].stage = "publish" =>
            pc[p] \in {"cancel", "commit"}
  /\ \A p, q \in Service :
       /\ p # q /\ pc[q] = "cancel" /\ job[p].run = job[q].run
       /\ pc[p] \in Hosted /\ HoldsRun(p)
       => pc[p] = "commit" \/ job[p].mode \in CancelModes

Merging(p, a) ==
  /\ job[p].at = a /\ pc[p] \in Hosted
  /\ pc[p] \in {"merge", "conflicted"} \/ verdict[p] = "candidate"

\* The stages of an attempt follow one another, and one service merges it.
Staged ==
  /\ \A a \in Attempt :
       /\ attempt[a].gate # "none" => effect[a]["validate"].status # "none"
       /\ effect[a]["validate"].status # "none" => effect[a]["prepare"].status = "completed"
       /\ ~Started(a, "prepare") => attempt[a].state = "absent"
       /\ attempt[a].state = "conflicted" => attempt[a].gate = "none"
  /\ \A p \in Service :
       /\ pc[p] \in {"intend", "claim-prepare"} /\ HoldsRun(p) =>
            attempt[job[p].at].state \in {"absent", "intent"}
       /\ pc[p] \in {"merge", "conflicted"} => effect[job[p].at]["prepare"].status # "completed"
       /\ pc[p] \in Hosted =>
            /\ verdict[p] = "candidate" => job[p].stage = "prepare"
            /\ verdict[p] = "passed" => job[p].stage = "validate"
            /\ verdict[p] = "new" => job[p].stage = "publish"
            /\ verdict[p] = "completed" => attempt[job[p].at].gate = "passed"
  /\ \A p \in Service, a \in Attempt :
       Merging(p, a) => /\ attempt[a].state \notin {"absent", "intent"}
                        /\ \A q \in Service : Merging(q, a) => p = q

\* A run's work is on the branch once, on top of the commit it began from.
Based ==
  \A a \in Attempt : Moved(a) => base[a[1]] \in Range(branch) /\ base[a[1]] # Tip

Advancing == {"mark", "claim-again", "advance-again", "advance-final", "advance-found"}
Early == {"claimed", "candidate-created", "validating"}

\* The attempt is on the branch, or somebody may still put it there.
AtLarge(a) == Moved(a) \/ \E p \in Service : job[p].at = a /\ pc[p] \in AfterFirstClaim

\* Service p holds the run of attempt a and carries it to "publishing", or has
\* crashed doing so; nobody is about to cancel.
CarriedBy(p, a) ==
  /\ p \in Service
  /\ runLease[a[1]] = [owner |-> p, live |-> TRUE]
  /\ \/ pc[p] = "dead"
     \/ /\ pc[p] \in Advancing /\ job[p].at = a /\ ctx[p]
        /\ held[p] = [owner |-> p, fence |-> attempt[a].fence]
  /\ \A q \in Service : pc[q] = "cancel" => job[q].run # a[1]

\* An attempt that is at large and yet in a state that can be cancelled is
\* carried by its owner.
Carried ==
  \A a \in Attempt :
    AtLarge(a) /\ attempt[a].state \in Early /\ Owned(a) => CarriedBy(attempt[a].owner, a)

\* What is at large, or being published by its run's holder, is not given up.
NotGivenUp ==
  /\ \A a \in Attempt : AtLarge(a) => attempt[a].state \notin GivenUp
  /\ \A p \in Service :
       /\ pc[p] \in Hosted \ {"commit"} /\ HoldsRun(p)
       /\ job[p].stage = "publish" /\ job[p].mode \notin CancelModes
       => attempt[job[p].at].state \notin GivenUp

Published == Based /\ Carried /\ NotGivenUp

----------------------------------------------------------------------------
(* Leases                                                                   *)

LEMMA KeepsHold ==
  ASSUME Typed, Next, NEW q \in Service, HoldsRun(q), pc'[q] \in Hosted, ctx'[q],
         job'[q].run = job[q].run, job[q].run \in Run
  PROVE  HoldsRun(q)'
<1>1. /\ job \in [Service -> Jobs] /\ runLease \in [Run -> Leases] /\ pc \in [Service -> Labels]
      /\ ctx \in [Service -> BOOLEAN]
  BY DEF Typed, TypeOK, LocalOK
<1>2. ASSUME NEW p \in Service, Step(p)
      PROVE  HoldsRun(q)'
  <2>1. CASE CommitEffect(p)
    <3>1. p # q
      BY <2>1, LeaveMoves DEF CommitEffect, Quit, Gone, Hosted
    <3>2. \/ runLease' = runLease
          \/ HoldsRun(p) /\ runLease' = [runLease EXCEPT ![job[p].run].live = FALSE]
      BY <2>1 DEF CommitEffect
    <3> QED
      BY <1>1, <3>1, <3>2 DEF HoldsRun
  <2>2. CASE ~CommitEffect(p)
    BY <1>2, <2>2 DEF Step, Plan, Broken, ClaimSlot, Advance, Intend, MergeFails,
       RecordCandidate, Validate, EvaluationFails, RecordDecision, Mark, Look, Move, Recheck,
       RecordPublication, TrustBarrier, Barrier, Inspect, Cancel, runner, HoldsRun
  <2> QED
    BY <2>1, <2>2
<1>3. ASSUME NEW p, NEW r, Other(p, r)
      PROVE  HoldsRun(q)'
  <2>1. CASE Begin(p, r)
    BY <1>1, <2>1 DEF Begin, HoldsRun
  <2>2. CASE RunLeaseLapses(r)
    <3>1. CASE r = job[q].run
      <4>1. runLease[r].owner = q
        BY <3>1 DEF HoldsRun
      <4>2. ctx' = [ctx EXCEPT ![q] = @ /\ job[q].run # r]
        BY <2>2, <4>1 DEF RunLeaseLapses
      <4>3. ctx'[q] = (ctx[q] /\ job[q].run # r)
        BY <1>1, <4>2
      <4> QED
        BY <3>1, <4>3
    <3>2. CASE r # job[q].run
      BY <1>1, <2>2, <3>2 DEF RunLeaseLapses, HoldsRun
    <3> QED
      BY <3>1, <3>2
  <2>3. CASE ~Begin(p, r) /\ ~RunLeaseLapses(r)
    BY <1>3, <2>3 DEF Other, ContextLapses, Abort, Crash, Register, Admit, EndRun, SlotLapses,
       runner, HoldsRun
  <2> QED
    BY <2>1, <2>2, <2>3
<1> QED
  BY <1>2, <1>3, NextSteps

\* One service at a time holds a run.
LEMMA OneHolder ==
  ASSUME NEW p \in Service, NEW q \in Service, HoldsRun(p), HoldsRun(q),
         job[p].run = job[q].run
  PROVE  p = q
BY DEF HoldsRun

\* At a label of a host call a service has an effect.
LEMMA HostedHas ==
  ASSUME Typed, NEW p \in Service, pc[p] \in Hosted
  PROVE  /\ job[p].at \in Attempt /\ job[p].stage \in Stage /\ job[p].run \in Run
         /\ job[p].at[1] = job[p].run
BY DEF Typed, LocalOK, Fits, Jobs, Hosted

LEMMA NotHosted ==
  ASSUME Typed, Next, NEW q \in Service, pc'[q] \notin Hosted
  PROVE  \/ Gone(q)
         \/ pc[q] \notin Hosted /\ (ctx'[q] => ctx[q])
<1>1. pc[q] \in Labels
  BY DEF Typed, LocalOK
<1>2. ASSUME NEW p \in Service, Step(p), ~Gone(q)
      PROVE  pc[q] \notin Hosted /\ (ctx'[q] => ctx[q])
  <2>1. CASE p = q
    <3>1. CASE Plan(p)
      <4>1. pc'[p] \in {Entry(job'[p].stage), "commit", "inspect", "cancel"} /\ job'[p].stage \in Stage
        BY <1>2, <2>1, <3>1, PlanPlans DEF Plans
      <4> QED
        BY <2>1, <4>1 DEF Entry, Stage, Hosted, Labels
    <3>2. CASE ~Plan(p)
      BY <1>2, <2>1, <3>2, StepArrives DEF Arrives
    <3> QED
      BY <3>1, <3>2
  <2>2. CASE p # q
    BY <1>2, <2>2, StepMoves DEF Alone
  <2> QED
    BY <2>1, <2>2
<1>3. ASSUME NEW p, NEW r, Other(p, r), ~Gone(q)
      PROVE  pc[q] \notin Hosted /\ (ctx'[q] => ctx[q])
  BY <1>3, OthersMove DEF OtherMoves, Hosted
<1> QED
  BY <1>2, <1>3, NextSteps

LEMMA LeasedStep ==
  ASSUME Typed, LocalOK', Leased, Next
  PROVE  Leased'
<1> USE DEF Leased
<1> TAKE q \in Service
<1>0. pc'[q] \in Labels
  BY DEF LocalOK
<1>1. CASE pc'[q] \notin Hosted
  <2>1. ~ctx'[q]
    BY <1>1, NotHosted DEF Gone, Leased
  <2> QED
    BY <1>1, <2>1
<1>2. CASE pc'[q] \in Hosted
  <2> DEFINE a == job'[q].at
             s == job'[q].stage
  <2>1. pc'[q] \notin {"idle", "dead"}
    BY <1>2 DEF Hosted
  <2>2. ctx'[q] => HoldsRun(q)'
    <3>1. ctx'[q] => HoldsRun(q) /\ job'[q].run = job[q].run /\ job[q].run \in Run
      <4>1. CASE Stays(q)
        BY <1>2, <4>1, HostedHas DEF Stays, Leased
      <4>2. CASE Plans(q)
        <5>1. job'[q].run \in Run
          BY <1>0, <2>1 DEF LocalOK, Fits
        <5> QED
          BY <4>2, <5>1 DEF Plans
      <4>3. CASE SameEffect(q) /\ Arrives(q) /\ Concludes(q)
        BY <4>3, HostedHas DEF SameEffect, Arrives, Concludes, Leased
      <4> QED
        BY <1>2, <4>1, <4>2, <4>3, HostedMove
    <3> QED
      BY <1>2, <3>1, KeepsHold
  <2>3. HoldsRun(q)' => effect'[a][s].status \in Unsettled
    <3> SUFFICES ASSUME HoldsRun(q)'
                 PROVE  effect'[a][s].status \in Unsettled
      OBVIOUS
    <3>1. HoldsRun(q) /\ job'[q].run = job[q].run
      BY <1>2, StillHolds
    <3>2. CASE Plans(q)
      BY <3>2 DEF Plans, Unsettled
    <3>3. CASE pc[q] \in Hosted /\ a = job[q].at /\ s = job[q].stage
      <4>1. effect[a][s].status \in Unsettled /\ a \in Attempt /\ s \in Stage /\ a[1] = job[q].run
        BY <3>1, <3>3, HostedHas DEF Leased
      <4>2. ~Scheduled(a, s) /\ ~\E p \in Service : Dispatched(p, a, s)
        BY <4>1 DEF Scheduled, Dispatched, Unsettled
      <4>3. ASSUME NEW p \in Service, Committed(p, a, s)
            PROVE  FALSE
        <5>1. p = q
          BY <3>1, <4>1, <4>3, OneHolder, HostedHas DEF Committed, CommitEffect, Hosted, Labels
        <5> QED
          BY <1>2, <4>3, <5>1, LeaveMoves DEF Committed, CommitEffect, Quit, Gone, Hosted
      <4>4. effect'[a][s] = effect[a][s] \/ Asked(a, s)
        BY <4>1, <4>2, <4>3, EffectSteps DEF EffectMoves
      <4> QED
        BY <4>1, <4>4 DEF Asked
    <3> QED
      BY <1>2, <3>2, <3>3, HostedMove DEF Stays, SameEffect, Arrives
  <2> QED
    BY <1>2, <2>1, <2>2, <2>3
<1> QED
  BY <1>1, <1>2

----------------------------------------------------------------------------
(* Evidence                                                                 *)

LEMMA ObservedIsStarted ==
  ASSUME Typed, NEW p \in Service, pc[p] = "commit"
  PROVE  Observed(p) \notin {"none", "queued"}
<1>1. verdict[p] \in Verdicts \ {"none", "refused", "interrupted"}
  BY DEF Typed, LocalOK, Fits
<1> QED
  BY <1>1 DEF Observed, Verdicts

LEMMA StartedStays ==
  ASSUME Typed, Next, NEW a \in Attempt, NEW s \in Stage, Started(a, s)
  PROVE  Started(a, s)'
<1>1. ASSUME NEW p \in Service, Committed(p, a, s)
      PROVE  Started(a, s)'
  BY <1>1, ObservedIsStarted DEF Committed, CommitEffect, Started
<1> QED
  BY <1>1, EffectSteps DEF EffectMoves, Scheduled, Asked, Dispatched, Started

LEMMA GateStays ==
  ASSUME Typed, Next, NEW a \in Attempt, attempt[a].gate # "none"
  PROVE  attempt'[a].gate = attempt[a].gate
BY AttemptSteps DEF Change

\* The stage of a service at one of the labels that record.
LEMMA RecordsAtStage ==
  ASSUME Typed, Evidence, NEW p \in Service, NEW state, <<pc[p], state>> \in RecordedAt
  PROVE  /\ pc[p] \in Hosted /\ job[p].at \in Attempt
         /\ state \in {"publishing", "published", "target-moved"} =>
              job[p].stage = "publish" /\ attempt[job[p].at].gate = "passed"
         /\ state = "rework-required" => pc[p] = "rework"
         /\ state = "conflicted" => pc[p] = "conflicted"
         /\ state = "cancelled" => pc[p] = "cancel"
<1>1. pc[p] \in Hosted
  BY DEF RecordedAt, AfterAdvance, Hosted, Labels
<1>2. Fits(pc[p], job[p], verdict[p])
  BY DEF Typed, LocalOK
<1>3. job[p].at \in Attempt
  BY <1>1, HostedHas
<1>4. state \in {"publishing", "published", "target-moved"} => pc[p] \in PublishLabels
  BY DEF RecordedAt, AfterAdvance, PublishLabels
<1>5. pc[p] \in PublishLabels => job[p].stage = "publish" /\ attempt[job[p].at].gate = "passed"
  BY <1>1, <1>2, <1>3 DEF Fits, Evidence, Started
<1>6. /\ state = "rework-required" => pc[p] = "rework"
      /\ state = "conflicted" => pc[p] = "conflicted"
      /\ state = "cancelled" => pc[p] = "cancel"
  BY DEF RecordedAt
<1> QED
  BY <1>1, <1>3, <1>4, <1>5, <1>6

LEMMA AtPublish ==
  ASSUME Typed, Evidence, NEW p \in Service, pc[p] \in PublishLabels
  PROVE  pc[p] \in Hosted /\ job[p].at \in Attempt /\ attempt[job[p].at].gate = "passed"
         /\ job[p].stage = "publish"
<1>1. pc[p] \in Hosted
  BY DEF PublishLabels, Hosted, Labels
<1>2. Fits(pc[p], job[p], verdict[p])
  BY DEF Typed, LocalOK
<1> QED
  BY <1>1, <1>2, HostedHas DEF Fits, Evidence, Started

GateFits(rec) ==
  /\ rec.state \in {"absent", "intent"} => rec.gate = "none"
  /\ rec.state \in {"gate-failed", "rework-required"} => rec.gate = "failed"
  /\ rec.state \in {"publishing", "published", "target-moved", "barrier-recorded"} =>
       rec.gate = "passed"

LEMMA GateFitsStep ==
  ASSUME Typed, Evidence, Next, NEW a \in Attempt
  PROVE  GateFits(attempt'[a])
<1>1. GateFits(attempt[a]) /\ attempt[a].state \in States
  BY DEF Evidence, GateFits, Typed, TypeOK, AuthorityTypeOK, Records
<1>2. ASSUME NEW p \in Service, Change(p, a)
      PROVE  GateFits(attempt'[a])
  <2> DEFINE new == attempt'[a].state
  <2>1. CASE <<pc[p], new>> \in RecordedAt /\ new \in AllowedFrom[attempt[a].state]
             /\ attempt'[a].gate = attempt[a].gate
    <3>1. new \in {"candidate-created", "cancelled", "validating", "conflicted", "gate-failed",
                   "publishing", "rework-required", "published", "target-moved",
                   "barrier-recorded"}
      BY <1>1, <2>1, AllowedMeans
    <3>2. CASE new \in {"publishing", "published", "target-moved"}
      BY <1>2, <2>1, <3>2, RecordsAtStage DEF Change, GateFits
    <3>3. CASE new = "rework-required"
      BY <1>2, <2>1, <3>3, RecordsAtStage DEF Change, GateFits, Evidence
    <3>4. CASE new \in {"candidate-created", "cancelled", "validating", "conflicted"}
      BY <3>4 DEF GateFits
    <3>5. CASE new \in {"gate-failed", "barrier-recorded"}
      BY <2>1, <3>5 DEF RecordedAt, AfterAdvance
    <3> QED
      BY <3>1, <3>2, <3>3, <3>4, <3>5
  <2>2. CASE pc[p] = "barrier" /\ new = "barrier-recorded" /\ attempt'[a].gate = attempt[a].gate
    BY <1>2, <2>2, AtPublish DEF Change, PublishLabels, GateFits
  <2>3. CASE attempt'[a].gate = "passed" /\ new = "validating"
    BY <2>3 DEF GateFits
  <2>4. CASE attempt'[a].gate = "failed" /\ new = "gate-failed"
    BY <2>4 DEF GateFits
  <2>5. CASE attempt[a].state = "absent" /\ new = "intent" /\ attempt'[a].gate = attempt[a].gate
    BY <1>1, <2>5 DEF GateFits
  <2>6. CASE new = "claimed"
    BY <2>6 DEF GateFits
  <2> QED
    BY <1>2, <2>1, <2>2, <2>3, <2>4, <2>5, <2>6 DEF Change
<1> QED
  BY <1>1, <1>2, AttemptSteps

LEMMA EvidenceStep ==
  ASSUME Typed, LocalOK', Evidence, Next
  PROVE  Evidence'
<1>1. ASSUME NEW q \in Service, pc'[q] \in Hosted
      PROVE  Started(job[q].at, job[q].stage)' /\ job'[q].at \in Attempt /\ job'[q].stage \in Stage
  <2>1. PICK a \in Attempt, s \in Stage : a = job'[q].at /\ s = job'[q].stage
    <3>1. Fits(pc'[q], job'[q], verdict'[q]) /\ job'[q] \in Jobs
      BY DEF LocalOK
    <3> QED
      BY <1>1, <3>1 DEF Fits, Hosted, Jobs
  <2>2. CASE Plan(q) /\ Plans(q)
    BY <2>1, <2>2 DEF Plans, Started, Unsettled
  <2>3. CASE pc[q] \in Hosted /\ a = job[q].at /\ s = job[q].stage
    <3>1. Started(a, s)
      BY <2>3 DEF Evidence
    <3>2. Started(a, s)'
      BY <2>1, <3>1, StartedStays
    <3> QED
      BY <2>1, <3>2 DEF Started
  <2> QED
    BY <1>1, <2>1, <2>2, <2>3, HostedMove DEF Stays, SameEffect, Arrives
<1>2. ASSUME NEW q \in Service, pc'[q] = "rework"
      PROVE  attempt'[job'[q].at].gate = "failed"
  <2>1. pc'[q] \in Hosted
    BY <1>2 DEF Hosted, Labels
  <2>2. CASE Stays(q)
    BY <1>2, <2>1, <2>2, HostedHas, GateStays DEF Stays, Evidence
  <2>3. CASE Plans(q)
    BY <1>2, <2>3 DEF Plans, Entry, Stage
  <2>4. CASE SameEffect(q) /\ Arrives(q)
    <3>1. WriteGate(q, "failed") /\ job'[q].at = job[q].at /\ pc[q] \in Hosted
      BY <1>2, <2>4 DEF SameEffect, Arrives
    <3>2. job[q].at \in Attempt
      BY <3>1, HostedHas
    <3>3. attempt \in [Attempt -> Records]
      BY DEF Typed, TypeOK, AuthorityTypeOK
    <3>4. attempt' = [attempt EXCEPT ![job[q].at].gate = "failed",
                                     ![job[q].at].state = "gate-failed"]
      BY <3>1 DEF WriteGate, RecordGate
    <3>5. attempt'[job[q].at].gate = "failed"
      BY <3>2, <3>3, <3>4 DEF Records
    <3> QED
      BY <3>1, <3>5
  <2> QED
    BY <2>1, <2>2, <2>3, <2>4, HostedMove
<1>3. ASSUME NEW a \in Attempt, effect'[a]["publish"].status # "none"
      PROVE  attempt'[a].gate = "passed"
  <2>1. "publish" \in Stage
    BY DEF Stage
  <2>2. attempt[a].gate = "passed"
    <3>1. CASE Scheduled(a, "publish")
      BY <3>1, DueMeans DEF Scheduled
    <3>2. CASE effect[a]["publish"].status # "none"
      BY <3>2 DEF Evidence
    <3>3. ASSUME NEW p \in Service, Committed(p, a, "publish")
          PROVE  effect[a]["publish"].status # "none"
      BY <3>3 DEF Committed, CommitEffect, Evidence, Started, Hosted, Labels
    <3> QED
      BY <1>3, <2>1, <3>1, <3>2, <3>3, EffectSteps DEF EffectMoves, Dispatched, Asked
  <2> QED
    BY <2>2, GateStays
<1>4. \A a \in Attempt : GateFits(attempt'[a])
  BY GateFitsStep
<1> QED
  BY <1>1, <1>2, <1>3, <1>4 DEF Evidence, GateFits

\* Two runs' integrations exclude one another.
LEMMA OneActiveStep ==
  ASSUME Typed, Evidence, OneIntegrationAtATime, Next
  PROVE  OneIntegrationAtATime'
<1> SUFFICES ASSUME NEW a \in Attempt, NEW b \in Attempt, a # b,
                    attempt'[a].state \in Active, attempt'[b].state \in Active
             PROVE  FALSE
  BY DEF OneIntegrationAtATime
<1>1. ASSUME NEW c \in Attempt, NEW d \in Attempt, attempt'[c].state \in Active, c # d,
             attempt[d].state \in Active
      PROVE  attempt[c].state \in Active
  <2>1. attempt[c].state \in States /\ GateFits(attempt[c])
    BY DEF Typed, TypeOK, AuthorityTypeOK, Records, Evidence, GateFits
  <2>2. ASSUME NEW p \in Service, Change(p, c)
        PROVE  attempt[c].state \in Active
    <3>1. CASE pc[p] \in DOMAIN AfterClaim /\ MayClaim(p, c)
      BY <1>1, <3>1 DEF MayClaim, AnotherIsActive
    <3>2. CASE attempt'[c].state \in AllowedFrom[attempt[c].state]
      BY <1>1, <2>1, <3>2, AllowedMeans DEF Active
    <3>3. CASE attempt[c].gate \in {"none", attempt'[c].gate}
               /\ attempt[c].state \in {"validating", "gate-failed"}
               /\ attempt'[c].gate = "passed"
      BY <2>1, <3>3 DEF GateFits, Active
    <3> QED
      BY <1>1, <2>2, <3>1, <3>2, <3>3 DEF Change, Active
  <2> QED
    BY <1>1, <2>2, AttemptSteps
<1>2. attempt[a].state \in Active \/ attempt[b].state \in Active
  <2> SUFFICES ASSUME attempt[a].state \notin Active, attempt[b].state \notin Active
               PROVE  FALSE
    OBVIOUS
  <2>1. \E p \in Service : Step(p) /\ Change(p, a)
    BY AttemptSteps
  <2>2. attempt'[b] # attempt[b]
    OBVIOUS
  <2>3. PICK p \in Service : Step(p) /\ Change(p, a)
    BY <2>1
  <2>4. ~OthersWrite
    BY <2>2 DEF OthersWrite
  <2>5. PICK q \in Service : Step(q) /\ Writes(q)
    BY <2>4, NextWrites
  <2>6. Change(q, a) /\ Change(q, b)
    BY <2>2, <2>5, WritesChange
  <2> QED
    BY <2>6 DEF Change
<1> QED
  BY <1>1, <1>2 DEF OneIntegrationAtATime

----------------------------------------------------------------------------
(* Trust                                                                    *)

\* The branch only grows, by the attempt of a service about to move it.
LEMMA BranchSteps ==
  ASSUME Grounded, Next
  PROVE  \/ branch' = branch
         \/ \E p \in Service :
              /\ Move(p) /\ pc[p] = "move" /\ branch' = Append(branch, job[p].at)
              /\ job[p].at \in Attempt /\ Tip = base[job[p].at[1]] /\ UNCHANGED <<stored, base>>
<1>1. ASSUME NEW p \in Service, Step(p)
      PROVE  \/ branch' = branch
             \/ /\ Move(p) /\ pc[p] = "move" /\ branch' = Append(branch, job[p].at)
                /\ job[p].at \in Attempt /\ Tip = base[job[p].at[1]] /\ UNCHANGED <<stored, base>>
  <2>1. CASE Move(p)
    <3>1. pc[p] \in Hosted
      BY <2>1 DEF Move, Hosted, Labels
    <3>2. job[p].at \in Attempt /\ job[p].at[1] = job[p].run
      BY <3>1, HostedHas DEF Grounded
    <3> QED
      BY <2>1, <3>2 DEF Move
  <2>2. CASE ~Move(p)
    BY <1>1, <2>2 DEF Step, Plan, CommitEffect, Broken, ClaimSlot, Advance, Intend, MergeFails,
     RecordCandidate, Validate, EvaluationFails, RecordDecision, Mark, Look, Recheck,
     RecordPublication, TrustBarrier, Barrier, Inspect, Cancel
  <2> QED
    BY <2>1, <2>2
<1>2. ASSUME NEW p, NEW r, Other(p, r)
      PROVE  branch' = branch
  BY <1>2, OthersTyped DEF Grounded
<1> QED
  BY <1>1, <1>2, NextSteps

LEMMA AppendRange ==
  ASSUME NEW s \in Seq(Commit), NEW a
  PROVE  Range(Append(s, a)) = Range(s) \cup {a}
<1>1. /\ DOMAIN Append(s, a) = 1..(Len(s) + 1) /\ DOMAIN s = 1..Len(s) /\ Len(s) \in Nat
      /\ \A i \in 1..Len(s) : Append(s, a)[i] = s[i]
      /\ Append(s, a)[Len(s) + 1] = a
  OBVIOUS
<1> QED
  BY <1>1 DEF Range

LEMMA TipMoved ==
  ASSUME Grounded
  PROVE  Tip \in Range(branch) /\ Tip \in Commit
BY DEF Grounded, Typed, TypeOK, Grown, Tip, Range

LEMMA MovedStays ==
  ASSUME Grounded, Next, NEW a, Moved(a)
  PROVE  Moved(a)'
<1>1. branch \in Seq(Commit)
  BY DEF Grounded, Typed, TypeOK
<1>2. \/ branch' = branch
      \/ \E b : branch' = Append(branch, b)
  BY BranchSteps
<1> QED
  BY <1>1, <1>2, AppendRange DEF Moved

LEMMA NoAttemptIsNone == NoAttempt \notin Attempt /\ Origin \notin Attempt /\ NoAttempt # Origin
BY AuthorityAssumption DEF NoAttempt, Origin

\* Git is believed: what it says is on the branch is there.
LEMMA NewIsMoved ==
  ASSUME Grounded, Grounded', Next, NEW q \in Service, Step(q), ~Plan(q), ~Gone(q),
         verdict'[q] = "new", verdict[q] # "new"
  PROVE  Moved(job[q].at)'
<1>1. Concludes(q) /\ Arrives(q) /\ job'[q].at = job[q].at
  BY StepConcludes, StepArrives, StepMoves DEF Grounded, SameEffect
<1>2. pc[q] \in {"look", "found", "move", "recheck"}
  BY <1>1 DEF Concludes
<1>3. pc \in [Service -> Labels] /\ verdict \in [Service -> Verdicts]
  BY DEF Grounded, Typed, LocalOK
<1>4. Standing(job[q].at) = "new" => Moved(job[q].at)
  BY TipMoved DEF Standing, Moved
<1>5. CASE Look(q)
  <2>1. Standing(job[q].at) = "new"
    BY <1>3, <1>5, MovesAt DEF Look, Goto, frame, Grounded
  <2> QED
    BY <1>1, <1>4, <1>5, <2>1 DEF Look, Moved
<1>6. CASE Move(q)
  <2>1. branch' = Append(branch, job[q].at)
    BY <1>3, <1>6 DEF Move, Conclude
  <2> QED
    BY <1>1, <2>1, AppendRange DEF Moved, Grounded, Typed, TypeOK
<1>7. CASE Recheck(q)
  <2>1. Standing(job[q].at) = "new"
    BY <1>3, <1>7 DEF Recheck, Goto, frame, Conclude
  <2> QED
    BY <1>1, <1>4, <1>7, <2>1 DEF Recheck, Moved
<1>8. CASE ~Look(q) /\ ~Move(q) /\ ~Recheck(q)
  BY <1>2, <1>8 DEF Step, Plan, CommitEffect, Broken, ClaimSlot, AfterClaim, Advance,
     AfterAdvance, Intend, MergeFails, RecordCandidate, Validate, EvaluationFails,
     RecordDecision, Mark, RecordPublication, TrustBarrier, Barrier, Inspect, Cancel
<1> QED
  BY <1>5, <1>6, <1>7, <1>8

LEMMA TrustedSteps ==
  ASSUME Typed, Next
  PROVE  \/ trusted' = trusted
         \/ \E p \in Service : pc[p] = "trust" /\ Trust(job[p].at) /\ UNCHANGED attempt
<1>1. ASSUME NEW p \in Service, Step(p)
      PROVE  trusted' = trusted \/ (pc[p] = "trust" /\ Trust(job[p].at) /\ UNCHANGED attempt)
  BY <1>1 DEF Step, Plan, CommitEffect, Broken, ClaimSlot, Advance, Intend, MergeFails,
     RecordCandidate, Validate, EvaluationFails, RecordDecision, Mark, Look, Move, Recheck,
     RecordPublication, TrustBarrier, Barrier, Inspect, Cancel, stored
<1>2. ASSUME NEW p, NEW r, Other(p, r)
      PROVE  trusted' = trusted
  BY <1>2 DEF Other, Begin, ContextLapses, Abort, Crash, RunLeaseLapses, Register, Admit, EndRun,
     SlotLapses, stored
<1> QED
  BY <1>1, <1>2, NextSteps

LEMMA TrustingStep ==
  ASSUME Grounded, Grounded', Trusting, Next
  PROVE  Trusting'
<1> USE DEF Grounded
<1>1. /\ trusted \in [Run -> Attempt \cup {NoAttempt}]
      /\ \A p \in Service : Fits(pc[p], job[p], verdict[p])
  BY DEF Typed, TypeOK, AuthorityTypeOK, LocalOK
<1>2. ASSUME NEW q \in Service, pc'[q] \in Hosted, verdict'[q] = "new"
      PROVE  Moved(job[q].at)'
  <2>1. CASE Stays(q)
    <3>1. Moved(job[q].at) /\ job'[q].at = job[q].at
      BY <1>2, <2>1 DEF Stays, Trusting
    <3>2. Moved(job[q].at)'
      BY <3>1, MovedStays DEF Moved
    <3> QED
      BY <3>2
  <2>2. CASE Plans(q)
    BY <1>2, <2>2 DEF Plans
  <2>3. CASE Step(q) /\ ~Plan(q) /\ SameEffect(q) /\ Arrives(q)
    <3>1. CASE verdict[q] = "new"
      BY <2>3, <3>1, MovedStays DEF Trusting, SameEffect, Arrives, Moved
    <3>2. CASE verdict[q] # "new"
      BY <1>2, <2>3, <3>2, NewIsMoved DEF Gone, Hosted
    <3> QED
      BY <3>1, <3>2
  <2> QED
    BY <1>2, <2>1, <2>2, <2>3, HostedMove
\* Who trusts an attempt, or is about to, has seen it on the branch.
<1>3. ASSUME NEW p \in Service, pc[p] = "trust"
      PROVE  job[p].at \in Attempt /\ Moved(job[p].at) /\ job[p].at[1] \in Run
  BY <1>1, <1>3, HostedHas DEF Trusting, Fits, Hosted, Labels
<1>4. ASSUME NEW r \in Run, trusted[r] # NoAttempt
      PROVE  trusted'[r] = trusted[r]
  BY <1>1, <1>4, TrustedSteps DEF Trust
<1>5. ASSUME NEW r \in Run, trusted'[r] # NoAttempt
      PROVE  Moved(trusted[r])'
  <2>1. trusted'[r] \in Range(branch)
    BY <1>1, <1>3, <1>5, TrustedSteps DEF Trust, Trusting, TrustedAgrees, Moved
  <2> QED
    BY <2>1, MovedStays DEF Moved
<1>6. ASSUME NEW a \in Attempt, attempt'[a].barrier
      PROVE  trusted'[a[1]] = a
  <2>1. a[1] \in Run
    BY AuthorityAssumption
  <2>2. trusted[a[1]] = a
    <3>1. CASE attempt'[a] = attempt[a]
      BY <1>6, <3>1 DEF Trusting, TrustedAgrees
    <3>2. ASSUME NEW p \in Service, Change(p, a)
          PROVE  trusted[a[1]] = a
      BY <1>6, <3>2 DEF Change, Trusting, TrustedAgrees
    <3> QED
      BY <3>1, <3>2, AttemptSteps
  <2> QED
    BY <1>4, <2>1, <2>2, NoAttemptIsNone
<1>7. ASSUME NEW q \in Service, pc'[q] = "barrier"
      PROVE  trusted'[job'[q].at[1]] = job'[q].at
  <2>1. pc'[q] \in Hosted
    BY <1>7 DEF Hosted, Labels
  <2>2. CASE Stays(q)
    <3>1. job[q].at \in Attempt /\ job[q].at[1] \in Run /\ trusted[job[q].at[1]] = job[q].at
      BY <1>7, <2>1, <2>2, HostedHas DEF Stays, Trusting
    <3> QED
      BY <1>4, <2>2, <3>1, NoAttemptIsNone DEF Stays
  <2>3. CASE Plans(q)
    BY <1>7, <2>3 DEF Plans, Entry, Stage
  <2>4. CASE SameEffect(q) /\ Arrives(q)
    <3>1. Trust(job[q].at) /\ job'[q].at = job[q].at /\ pc[q] \in Hosted
      BY <1>7, <2>4 DEF SameEffect, Arrives
    <3>2. job[q].at[1] \in Run
      BY <3>1, HostedHas
    <3> QED
      BY <1>1, <3>1, <3>2 DEF Trust
  <2> QED
    BY <2>1, <2>2, <2>3, <2>4, HostedMove
<1>8. TrustedAgrees'
  BY <1>5, <1>6 DEF TrustedAgrees
<1> QED
  BY <1>2, <1>7, <1>8 DEF Trusting

----------------------------------------------------------------------------
(* The branch and the gate, completion                                      *)

LEMMA GatedStep ==
  ASSUME Grounded, Evidence, GatedBeforePublished, Next
  PROVE  GatedBeforePublished'
<1> SUFFICES ASSUME NEW a \in Attempt, Moved(a)'
             PROVE  attempt'[a].gate = "passed"
  BY DEF GatedBeforePublished
<1>1. attempt[a].gate = "passed"
  <2>1. CASE Moved(a)
    BY <2>1 DEF GatedBeforePublished
  <2>2. ASSUME NEW p \in Service, pc[p] = "move", branch' = Append(branch, job[p].at)
        PROVE  Moved(a) \/ attempt[a].gate = "passed"
    <3>1. branch \in Seq(Commit)
      BY DEF Grounded, Typed, TypeOK
    <3>2. Moved(a) \/ a = job[p].at
      BY <2>2, <3>1, AppendRange DEF Moved
    <3> QED
      BY <2>2, <3>2, AtPublish DEF PublishLabels, Grounded
  <2> QED
    BY <2>1, <2>2, BranchSteps DEF Moved
<1> QED
  BY <1>1, GateStays DEF Grounded

LEMMA CompletionStep ==
  ASSUME Grounded, Evidence, Trusting, GatedBeforePublished, CompletionAfterIntegration, Next
  PROVE  CompletionAfterIntegration'
<1> SUFFICES ASSUME NEW r \in eligible'
             PROVE  \E a \in Attempt : a[1] = r /\ Moved(a)' /\ attempt'[a].gate = "passed"
                                       /\ attempt'[a].barrier
  BY DEF CompletionAfterIntegration
<1>1. ASSUME NEW a \in Attempt, a[1] = r, Moved(a), attempt[a].gate = "passed",
             attempt[a].barrier
      PROVE  Moved(a)' /\ attempt'[a].gate = "passed" /\ attempt'[a].barrier
  <2>1. attempt'[a].barrier
    BY <1>1, AttemptSteps DEF Change, Grounded
  <2> QED
    BY <1>1, <2>1, MovedStays, GateStays DEF Grounded
<1>2. CASE r \in eligible
  BY <1>1, <1>2 DEF CompletionAfterIntegration
<1>3. CASE r \notin eligible
  <2>1. ASSUME NEW p \in Service, Step(p)
        PROVE  eligible' = eligible
    BY <2>1 DEF Step, Plan, CommitEffect, Broken, ClaimSlot, Advance, Intend, MergeFails,
       RecordCandidate, Validate, EvaluationFails, RecordDecision, Mark, Look, Move, Recheck,
       RecordPublication, TrustBarrier, Barrier, Inspect, Cancel, stored
  <2>2. ASSUME NEW p, NEW s, Other(p, s)
        PROVE  eligible' = eligible \/ (Admit(s) /\ eligible' = eligible \cup {s})
    BY <2>2 DEF Other, Begin, ContextLapses, Abort, Crash, RunLeaseLapses, Register, Admit, EndRun,
       SlotLapses, stored
  <2>3. Admit(r)
    BY <1>3, <2>1, <2>2, NextSteps
  <2>4. PICK a \in Attempt : a[1] = r /\ attempt[a].barrier /\ trusted[r] = a
    BY <2>3 DEF Admit, Integrated
  <2>5. Moved(a) /\ attempt[a].gate = "passed"
    <3>1. r \in Run
      BY <2>4, AuthorityAssumption
    <3> QED
      BY <2>4, <3>1, NoAttemptIsNone DEF Trusting, TrustedAgrees, GatedBeforePublished
  <2> QED
    BY <1>1, <2>4, <2>5
<1> QED
  BY <1>2, <1>3

----------------------------------------------------------------------------
(* The slot and the attempts' owners                                        *)

LEMMA SlotSteps ==
  ASSUME Typed, Next
  PROVE  \/ slot'.owner = slot.owner /\ slot'.fence = slot.fence /\ (slot'.live => slot.live)
         \/ \E p \in Service : WriteClaim(p)
<1>1. slot \in Slots
  BY DEF Typed, TypeOK, AuthorityTypeOK
<1>2. ASSUME NEW p \in Service, Writes(p), ~WriteClaim(p)
      PROVE  slot'.owner = slot.owner /\ slot'.fence = slot.fence /\ (slot'.live => slot.live)
  BY <1>1, <1>2 DEF Writes, WriteIntent, WriteState, WriteGate, WriteBarrier, RecordState,
     RecordBarrier, Slots
<1>3. CASE OthersWrite
  BY <1>1, <1>3 DEF OthersWrite, Slots
<1> QED
  BY <1>2, <1>3, NextWrites

LEMMA ClaimMeans ==
  ASSUME Typed, NEW p \in Service, WriteClaim(p)
  PROVE  /\ slot'.live /\ slot'.owner = p
         /\ slot.live => slot'.fence = slot.fence
         /\ ~slot.live => slot'.fence = slot.fence + 1
BY DEF WriteClaim, Claim, Typed, TypeOK, AuthorityTypeOK, Slots

LEMMA OwnershipStep ==
  ASSUME Typed, Typed', Ownership, Next
  PROVE  Ownership'
<1> SUFFICES ASSUME NEW a \in Attempt
             PROVE  /\ attempt'[a].state = "absent" => attempt'[a].owner = NoService
                    /\ attempt'[a].fence <= slot'.fence
                    /\ attempt'[a].state \in Terminal =>
                         ~(slot'.live /\ slot'.fence = attempt'[a].fence)
  BY DEF Ownership
<1>1. /\ attempt[a] \in Records /\ attempt'[a] \in Records /\ slot \in Slots /\ slot' \in Slots
  BY DEF Typed, TypeOK, AuthorityTypeOK
<1>2. slot.fence \in Nat /\ slot'.fence \in Nat /\ attempt[a].fence \in Nat
      /\ attempt'[a].fence \in Nat /\ attempt[a].state \in States
  BY <1>1 DEF Records, Slots
<1>3. slot.fence <= slot'.fence
  BY <1>2, SlotSteps, ClaimMeans
<1>4. CASE attempt'[a] = attempt[a]
  <2>1. attempt[a].state \in Terminal => ~(slot'.live /\ slot'.fence = attempt[a].fence)
    BY <1>2, SlotSteps, ClaimMeans DEF Ownership
  <2> QED
    BY <1>2, <1>3, <1>4, <2>1 DEF Ownership
<1>5. ASSUME NEW p \in Service, Change(p, a)
      PROVE  /\ attempt'[a].state # "absent"
             /\ attempt'[a].fence <= slot'.fence
             /\ attempt'[a].state \in Terminal =>
                  ~(slot'.live /\ slot'.fence = attempt'[a].fence)
  <2>1. attempt'[a].state # "absent"
    BY <1>2, <1>5, AllowedMeans DEF Change
  <2>2. attempt'[a].fence <= slot'.fence
    BY <1>2, <1>3, <1>5 DEF Change, Ownership
  <2>3. attempt'[a].state \in Terminal => ~slot'.live
    BY <1>5 DEF Change, Terminal, Released
  <2> QED
    BY <2>1, <2>2, <2>3
<1> QED
  BY <1>4, <1>5, AttemptSteps

\* What OnlyUnderTheSlot says of one step.
ChangedUnderTheSlot ==
  \A a \in Attempt :
    attempt'[a] # attempt[a] /\ attempt'[a].owner # NoService =>
      /\ slot.live \/ slot'.live
      /\ slot'.owner = attempt'[a].owner /\ slot'.fence = attempt'[a].fence

LEMMA ChangesUnderTheSlot ==
  ASSUME Typed, Ownership, Next
  PROVE  ChangedUnderTheSlot
<1> SUFFICES ASSUME NEW a \in Attempt, NEW p \in Service, Change(p, a),
                    attempt'[a].owner # NoService
             PROVE  /\ slot.live \/ slot'.live
                    /\ slot'.owner = attempt'[a].owner /\ slot'.fence = attempt'[a].fence
  BY AttemptSteps DEF ChangedUnderTheSlot
<1> QED
  BY DEF Change, Ownership, Owned, Fenced

----------------------------------------------------------------------------
(* What holds always                                                        *)

Safe ==
  /\ Grounded /\ Evidence /\ OneIntegrationAtATime
  /\ Trusting /\ GatedBeforePublished /\ CompletionAfterIntegration
  /\ Ownership /\ Leased

LEMMA SafeInitially ==
  ASSUME Init
  PROVE  Safe
<1>1. Grounded
  BY GroundedInitially
<1>2. \A p \in Service : pc[p] = "idle" /\ ctx[p] = FALSE
  BY DEF Init
<1>3. \A a \in Attempt : /\ attempt[a].state = "absent" /\ attempt[a].gate = "none"
                         /\ attempt[a].barrier = FALSE /\ attempt[a].owner = NoService
                         /\ attempt[a].fence = 0
  BY DEF Init, AuthorityInit
<1>4. /\ slot.fence = 0 /\ eligible = {} /\ \A r \in Run : trusted[r] = NoAttempt
      /\ \A a \in Attempt, s \in Stage : effect[a][s].status = "none"
  BY DEF Init, AuthorityInit, Unqueued
<1>5. \A a \in Attempt : ~Moved(a)
  <2>1. Range(branch) = {Origin}
    <3>1. branch = <<Origin>>
      BY DEF Init
    <3>2. DOMAIN branch = {1} /\ branch[1] = Origin
      BY <3>1
    <3> QED
      BY <3>2 DEF Range
  <2> QED
    BY <2>1, NoAttemptIsNone DEF Moved
<1>6. Evidence
  BY <1>2, <1>3, <1>4 DEF Evidence, Stage, Hosted
<1>7. OneIntegrationAtATime
  BY <1>3 DEF OneIntegrationAtATime, Active
<1>8. Trusting
  BY <1>2, <1>3, <1>4 DEF Trusting, TrustedAgrees, Hosted
<1>9. GatedBeforePublished /\ CompletionAfterIntegration
  BY <1>4, <1>5 DEF GatedBeforePublished, CompletionAfterIntegration
<1>10. Ownership
  BY <1>3, <1>4 DEF Ownership, Terminal, Released
<1>11. Leased
  BY <1>2 DEF Leased, Hosted
<1> QED
  BY <1>1, <1>6, <1>7, <1>8, <1>9, <1>10, <1>11 DEF Safe

LEMMA SafeStep ==
  ASSUME Safe, [Next]_vars
  PROVE  Safe'
<1>1. Grounded'
  BY GroundedStep DEF Safe
<1>2. CASE Next
  <2>1. Typed /\ Typed' /\ LocalOK'
    BY <1>1 DEF Safe, Grounded, Typed
  <2>2. Evidence' /\ Ownership' /\ Leased'
    BY <1>2, <2>1, EvidenceStep, OwnershipStep, LeasedStep DEF Safe
  <2>3. OneIntegrationAtATime' /\ Trusting' /\ GatedBeforePublished' /\ CompletionAfterIntegration'
    BY <1>1, <1>2, <2>1, OneActiveStep, TrustingStep, GatedStep, CompletionStep DEF Safe
  <2> QED
    BY <1>1, <2>2, <2>3 DEF Safe
<1>3. CASE UNCHANGED vars
  <2> USE <1>3 DEF vars, stored, runner, local, frame
  <2>1. Evidence'
    BY DEF Safe, Evidence, Started
  <2>2. OneIntegrationAtATime' /\ CompletionAfterIntegration'
    BY DEF Safe, OneIntegrationAtATime, CompletionAfterIntegration, Moved
  <2>3. Trusting' /\ GatedBeforePublished'
    BY DEF Safe, Trusting, TrustedAgrees, GatedBeforePublished, Moved
  <2>4. Ownership' /\ Leased'
    BY DEF Safe, Ownership, Leased, HoldsRun
  <2> QED
    BY <1>1, <2>1, <2>2, <2>3, <2>4 DEF Safe
<1> QED
  BY <1>2, <1>3

\* The services' leases, the gate's evidence, trust and the slot stay in step
\* with the attempts' records and the branch.
THEOREM SafeAlways == Spec => []Safe
<1>1. Init => Safe
  BY SafeInitially
<1>2. Safe /\ [Next]_vars => Safe'
  BY SafeStep
<1> QED
  BY <1>1, <1>2, PTL DEF Spec

\* Whatever crashes or hangs, only what the gate has passed is on the branch,
\* although an inspection that publishes asks for no gate: the scheduler
\* dispatches a publication after a passed gate, and a recorded decision is
\* never changed (#scheduleIntegration, recordIntegrationGate).
THEOREM OnlyGatedWorkIsPublished == Spec => []GatedBeforePublished
<1>1. Safe => GatedBeforePublished
  BY DEF Safe
<1> QED
  BY <1>1, SafeAlways, PTL

\* At most one attempt in the repository is being integrated, for any number
\* of runs and of daemons that outlived their leases: every way into an
\* active state is a claim, which the unique index guards.
THEOREM IntegrationsExclude == Spec => []OneIntegrationAtATime
<1>1. Safe => OneIntegrationAtATime
  BY DEF Safe
<1> QED
  BY <1>1, SafeAlways, PTL

\* #recordBarrier's two transactions agree on the attempt, which is on the
\* branch, wherever a crash comes between them.
THEOREM TrustFollowsTheBranch == Spec => []TrustedAgrees
<1>1. Safe => TrustedAgrees
  BY DEF Safe, Trusting
<1> QED
  BY <1>1, SafeAlways, PTL

\* A run is eligible for completion only when its gated work is on the branch
\* and the barrier says so (DurableCompletionEligibility).
THEOREM CompletionFollowsIntegration == Spec => []CompletionAfterIntegration
<1>1. Safe => CompletionAfterIntegration
  BY DEF Safe
<1> QED
  BY <1>1, SafeAlways, PTL

\* A record that has an owner changes only under the slot's live lease, whose
\* owner and fence it goes on naming (#assertIntegrationFence): a service that
\* wakes up late changes nothing.
THEOREM AttemptsChangeUnderTheSlot == Spec => OnlyUnderTheSlot
<1>1. Safe /\ [Next]_vars => [ChangedUnderTheSlot]_vars
  BY ChangesUnderTheSlot DEF Safe, Grounded
<1>2. Safe /\ [Next]_vars =>
        [\A a \in Attempt :
           attempt'[a] # attempt[a] /\ attempt'[a].owner # NoService =>
             /\ slot.live \/ slot'.live
             /\ slot'.owner = attempt'[a].owner /\ slot'.fence = attempt'[a].fence]_vars
  BY <1>1 DEF ChangedUnderTheSlot
<1> QED
  BY <1>2, SafeAlways, PTL DEF Spec, OnlyUnderTheSlot

----------------------------------------------------------------------------
(* Cancellations                                                            *)

\* At most labels one action is possible.
LEMMA StepAt ==
  ASSUME NEW p \in Service, Step(p)
  PROVE  /\ pc[p] \in DOMAIN AfterClaim => ClaimSlot(p)
         /\ pc[p] \in DOMAIN AfterAdvance => Advance(p)
         /\ pc[p] = "mark" => Mark(p)
         /\ pc[p] = "cancel" => Cancel(p)
         /\ pc[p] = "commit" => CommitEffect(p)
BY DEF Step, Plan, CommitEffect, Broken, ClaimSlot, AfterClaim, Advance, AfterAdvance, Intend,
   MergeFails, RecordCandidate, Validate, EvaluationFails, RecordDecision, Mark, Look, Move,
   Recheck, RecordPublication, TrustBarrier, Barrier, Inspect, Cancel

LEMMA EndedStays ==
  ASSUME Typed, Next
  PROVE  ended \subseteq ended'
<1>1. ASSUME NEW p \in Service, Step(p)
      PROVE  ended' = ended
  BY <1>1 DEF Step, Plan, CommitEffect, Broken, ClaimSlot, Advance, Intend, MergeFails,
     RecordCandidate, Validate, EvaluationFails, RecordDecision, Mark, Look, Move, Recheck,
     RecordPublication, TrustBarrier, Barrier, Inspect, Cancel, runner
<1>2. ASSUME NEW p, NEW r, Other(p, r)
      PROVE  ended \subseteq ended'
  BY <1>2 DEF Other, Begin, ContextLapses, Abort, Crash, RunLeaseLapses, Register, Admit, EndRun,
     SlotLapses, runner
<1> QED
  BY <1>1, <1>2, NextSteps

\* What ends a run asks its open effects to cancel.
LEMMA EndedNow ==
  ASSUME Typed, Next, NEW a \in Attempt, NEW s \in Stage, a[1] \notin ended, a[1] \in ended',
         effect'[a][s].status \in Unsettled
  PROVE  effect'[a][s].asked
<1>1. ASSUME NEW p \in Service, Step(p)
      PROVE  FALSE
  BY <1>1 DEF Step, Plan, CommitEffect, Broken, ClaimSlot, Advance, Intend, MergeFails,
     RecordCandidate, Validate, EvaluationFails, RecordDecision, Mark, Look, Move, Recheck,
     RecordPublication, TrustBarrier, Barrier, Inspect, Cancel, runner
<1>2. ASSUME NEW p, NEW r, Other(p, r)
      PROVE  EndRun(r) /\ r = a[1]
  BY <1>2 DEF Other, Begin, ContextLapses, Abort, Crash, RunLeaseLapses, Register, Admit, EndRun,
     SlotLapses, runner
<1>3. EndRun(a[1])
  BY <1>1, <1>2, NextSteps
<1>4. effect'[a][s] = IF effect[a][s].status \in Unsettled
                      THEN [effect[a][s] EXCEPT !.asked = TRUE] ELSE effect[a][s]
  BY <1>3 DEF EndRun
<1>5. effect[a][s] \in EffectRecords
  BY DEF Typed, TypeOK
<1> QED
  BY <1>4, <1>5 DEF EffectRecords

\* A step of a run's holder at "commit" takes place while its effect is open.
LEMMA CommittedWasOpen ==
  ASSUME Typed, Leased, NEW p \in Service, NEW a, NEW s, Committed(p, a, s)
  PROVE  effect[a][s].status \in Unsettled
BY DEF Leased, Committed, CommitEffect, Hosted, Labels

LEMMA AskedMeansEnded ==
  ASSUME Typed, Leased, Asking, Next, NEW a \in Attempt, NEW s \in Stage
  PROVE  /\ effect'[a][s].asked => a[1] \in ended'
         /\ a[1] \in ended' /\ effect'[a][s].status \in Unsettled => effect'[a][s].asked
<1>1. effect'[a][s].asked => effect[a][s].asked \/ a[1] \in ended'
  <2>1. Asked(a, s) => a[1] \in ended'
    BY DEF Asked, EndRun
  <2>2. Scheduled(a, s) => ~effect'[a][s].asked
    BY DEF Scheduled
  <2>3. ASSUME NEW p \in Service, Dispatched(p, a, s) \/ Committed(p, a, s)
        PROVE  effect'[a][s].asked = effect[a][s].asked
    BY <2>3 DEF Dispatched, Committed
  <2> QED
    BY <2>1, <2>2, <2>3, EffectSteps DEF EffectMoves
<1>2. ASSUME a[1] \in ended, effect'[a][s].status \in Unsettled
      PROVE  effect'[a][s].asked
  <2>1. ~Scheduled(a, s) /\ ~\E p \in Service : Dispatched(p, a, s)
    BY <1>2 DEF Scheduled, Dispatched
  <2>2. effect[a][s].status \in Unsettled
    BY <1>2, <2>1, EffectSteps, CommittedWasOpen DEF EffectMoves, Asked
  <2>3. effect[a][s].asked
    BY <1>2, <2>2 DEF Asking
  <2> QED
    BY <2>1, <2>3, EffectSteps DEF EffectMoves, Asked, Committed
<1> QED
  BY <1>1, <1>2, EndedStays, EndedNow DEF Asking

LEMMA CancelledMeansEnded ==
  ASSUME Typed, Evidence, Asking, Next, NEW a \in Attempt, attempt'[a].state = "cancelled"
  PROVE  a[1] \in ended'
<1>1. ASSUME NEW p \in Service, Change(p, a), attempt[a].state # "cancelled"
      PROVE  a[1] \in ended
  <2>1. pc[p] = "cancel"
    BY <1>1, RecordsAtStage DEF Change
  <2>2. job[p].run \in ended /\ a[1] = job[p].run
    BY <1>1, <2>1, HostedHas DEF Asking, Change
  <2> QED
    BY <2>2
<1> QED
  BY <1>1, AttemptSteps, EndedStays DEF Asking

\* Before the gate has passed nothing is published; what has moved on has
\* lost its slot.  So no cancellation of a publication breaks.
LEMMA PublishCancels ==
  ASSUME Typed, Evidence, Ownership, Staged, NEW p \in Service, Cancel(p), ~Gone(p),
         job[p].stage = "publish"
  PROVE  pc'[p] = "commit"
<1> DEFINE a == job[p].at
<1>1. pc[p] = "cancel" /\ pc[p] \in Hosted /\ a \in Attempt
  BY HostedHas DEF Cancel, Hosted, Labels
<1>2. attempt[a].gate = "passed" /\ attempt[a].state \in States
  BY <1>1 DEF Evidence, Started, Typed, TypeOK, AuthorityTypeOK, Records
<1>3. /\ attempt[a].state \notin {"absent", "intent", "gate-failed", "rework-required", "conflicted"}
  BY <1>1, <1>2 DEF Evidence, Staged
<1> DEFINE o == attempt[a].owner
           f == attempt[a].fence
           uncertain == attempt[a].state \in {"publishing", "published", "barrier-recorded"}
<1>4. Owned(a) => ~(attempt[a].state \in Terminal)
  BY <1>1 DEF Ownership, Owned, Fenced
<1>5. Owned(a) /\ ~uncertain => Allowed(a, "cancelled")
  <2>1. ASSUME Owned(a), ~uncertain
        PROVE  attempt[a].state \in {"claimed", "candidate-created", "validating"}
    BY <1>2, <1>3, <1>4, <2>1 DEF States, Active, Terminal, Released
  <2>2. ASSUME attempt[a].state \in {"claimed", "candidate-created", "validating"}
        PROVE  "cancelled" \in AllowedFrom[attempt[a].state]
    BY <1>2, <2>2 DEF AllowedFrom
  <2> QED
    BY <2>1, <2>2 DEF Allowed
<1>6. CASE \E v : Conclude(p, v, "commit")
  BY <1>6, MovesAt
<1>7. CASE ~uncertain /\ ~(Owned(a) /\ Allowed(a, "cancelled"))
           /\ Record(p, a, o, f, "cancelled", "broken")
  <2>1. ~Owned(a)
    BY <1>5, <1>7
  <2>2. Quit(p)
    BY <1>7, <2>1 DEF Record, Owned
  <2> QED
    BY <2>2, LeaveMoves DEF Quit
<1> QED
  BY <1>6, <1>7 DEF Cancel, Owned

LEMMA CancelsStay ==
  ASSUME Typed, Evidence, Ownership, Leased, Staged, Asking, Next, NEW q \in Service
  PROVE  /\ pc'[q] = "cancel" => job'[q].run \in ended' /\ job'[q].mode = "cancel"
         /\ pc'[q] \in Hosted /\ job'[q].mode \in CancelModes /\ job'[q].stage = "publish" =>
              pc'[q] \in {"cancel", "commit"}
<1>0. ASSUME pc'[q] \in Hosted
      PROVE  /\ pc'[q] = "cancel" => job'[q].run \in ended' /\ job'[q].mode = "cancel"
             /\ job'[q].mode \in CancelModes /\ job'[q].stage = "publish" =>
                  pc'[q] \in {"cancel", "commit"}
  <2>1. CASE Stays(q)
    BY <1>0, <2>1, EndedStays DEF Stays, Asking
  <2>2. CASE Plans(q)
    <3>1. pc'[q] = "cancel" => effect[job'[q].at][job'[q].stage].asked
      BY <2>2 DEF Plans, Entry, Stage
    <3>2. pc'[q] = "cancel" => job'[q].run \in ended
      BY <2>2, <3>1 DEF Plans, Asking
    <3>3. pc'[q] = "cancel" => job'[q].mode = "cancel"
      BY <2>2 DEF Plans, Entry, Stage
    <3>4. job'[q].mode \in CancelModes => pc'[q] = "cancel"
      BY <2>2 DEF Plans, CancelModes
    <3> QED
      BY <3>2, <3>3, <3>4, EndedStays
  <2>3. CASE Step(q) /\ ~Plan(q) /\ SameEffect(q) /\ Arrives(q) /\ Concludes(q)
    <3>1. pc'[q] # "cancel" /\ pc[q] \in Hosted \ {"commit"}
      BY <2>3 DEF Arrives
    <3>2. ASSUME job'[q].mode \in CancelModes, job'[q].stage = "publish"
          PROVE  pc'[q] = "commit"
      <4>1. job[q].stage = "publish" /\ job[q].mode \in CancelModes
        BY <2>3, <3>2 DEF SameEffect, Concludes, CancelModes
      <4>2. pc[q] = "cancel"
        BY <3>1, <4>1 DEF Asking
      <4>3. Cancel(q)
        BY <2>3, <4>2, StepAt
      <4>4. ~Gone(q)
        BY <1>0 DEF Gone, Hosted
      <4> QED
        BY <4>1, <4>3, <4>4, PublishCancels
    <3> QED
      BY <3>1, <3>2
  <2> QED
    BY <1>0, <2>1, <2>2, <2>3, HostedMove
<1>1. pc'[q] = "cancel" => pc'[q] \in Hosted
  BY DEF Hosted, Labels
<1> QED
  BY <1>0, <1>1

LEMMA NoneCancelsBeside ==
  ASSUME Typed, Asking, Next, NEW p \in Service, NEW q \in Service, p # q,
         pc'[q] = "cancel", job'[p].run = job'[q].run, pc'[p] \in Hosted, HoldsRun(p)'
  PROVE  pc'[p] = "commit" \/ job'[p].mode \in CancelModes
<1>1. HoldsRun(p) /\ job'[p].run = job[p].run
  BY StillHolds
<1>2. pc'[q] \in Hosted
  BY DEF Hosted, Labels
<1>3. ~Plans(q)
  <2> SUFFICES ASSUME Plans(q)
               PROVE  FALSE
    OBVIOUS
  <2>1. HoldsRun(q) /\ job[p].run = job[q].run
    BY <1>1 DEF Plans
  <2> QED
    BY <1>1, <2>1, OneHolder
<1>4. Stays(q)
  BY <1>2, <1>3, HostedMove DEF Arrives
<1>5. pc[q] = "cancel" /\ job[p].run = job[q].run /\ job[q].run \in ended
  BY <1>1, <1>4 DEF Stays, Asking
<1>6. CASE Stays(p)
  BY <1>1, <1>5, <1>6 DEF Stays, Asking
<1>7. CASE Plans(p)
  <2>1. job'[p].at \in Attempt /\ job'[p].stage \in Stage /\ job'[p].at[1] \in ended
    BY <1>5, <1>7 DEF Plans
  <2> QED
    BY <1>7, <2>1 DEF Plans, Asking, CancelModes
<1>8. CASE SameEffect(p) /\ Arrives(p) /\ Concludes(p)
  <2>1. job[p].mode \in CancelModes
    BY <1>1, <1>5, <1>8 DEF Arrives, Asking
  <2> QED
    BY <1>8, <2>1 DEF Concludes, CancelModes
<1> QED
  BY <1>6, <1>7, <1>8, HostedMove

LEMMA AskingStep ==
  ASSUME Typed, Evidence, Ownership, Leased, Staged, Asking, Next
  PROVE  Asking'
<1>1. \A a \in Attempt, s \in Stage :
        /\ effect'[a][s].asked => a[1] \in ended'
        /\ a[1] \in ended' /\ effect'[a][s].status \in Unsettled => effect'[a][s].asked
  BY AskedMeansEnded
<1>2. \A a \in Attempt : attempt'[a].state = "cancelled" => a[1] \in ended'
  BY CancelledMeansEnded
<1>3. \A q \in Service :
        /\ pc'[q] = "cancel" => job'[q].run \in ended' /\ job'[q].mode = "cancel"
        /\ pc'[q] \in Hosted /\ job'[q].mode \in CancelModes /\ job'[q].stage = "publish" =>
             pc'[q] \in {"cancel", "commit"}
  BY CancelsStay
<1>4. \A p, q \in Service :
       /\ p # q /\ pc'[q] = "cancel" /\ job'[p].run = job'[q].run
       /\ pc'[p] \in Hosted /\ HoldsRun(p)'
       => pc'[p] = "commit" \/ job'[p].mode \in CancelModes
  BY NoneCancelsBeside
<1> QED
  BY <1>1, <1>2, <1>3, <1>4 DEF Asking

----------------------------------------------------------------------------
(* The stages of an attempt                                                 *)

\* Whatever has a gate's decision has been prepared.
LEMMA GatedIsPrepared ==
  ASSUME Staged, NEW a \in Attempt, attempt[a].gate # "none"
  PROVE  effect[a]["prepare"].status = "completed"
BY DEF Staged

LEMMA WorkedOnIsPrepared ==
  ASSUME Typed, Evidence, Staged, NEW p \in Service, pc[p] \in Hosted
  PROVE  Started(job[p].at, "prepare")
<1>1. job[p].at \in Attempt /\ job[p].stage \in {"prepare", "validate", "publish"}
      /\ Started(job[p].at, job[p].stage)
  BY HostedHas DEF Evidence, Stage
<1> QED
  BY <1>1 DEF Started, Staged, Evidence

LEMMA StateStays ==
  ASSUME Typed, Next, NEW a \in Attempt, attempt[a].state \notin {"absent", "intent"}
  PROVE  attempt'[a].state \notin {"absent", "intent"}
<1>1. attempt[a].state \in States
  BY DEF Typed, TypeOK, AuthorityTypeOK, Records
<1> QED
  BY <1>1, AttemptSteps, AllowedMeans DEF Change

\* A preparation that has completed stays so, and one that is merging is not
\* settled behind its back.
LEMMA PreparedSteps ==
  ASSUME Typed, Evidence, Leased, Staged, Next, NEW a \in Attempt
  PROVE  /\ effect[a]["prepare"].status = "completed" => effect'[a]["prepare"].status = "completed"
         /\ effect'[a]["prepare"].status = "completed" =>
              \/ effect[a]["prepare"].status = "completed"
              \/ \E q \in Service : pc[q] = "commit" /\ Merging(q, a)
<1>0. "prepare" \in Stage
  BY DEF Stage
<1>1. ASSUME effect[a]["prepare"].status = "completed"
      PROVE  effect'[a]["prepare"].status = "completed"
  <2>1. \A p \in Service : ~Committed(p, a, "prepare") /\ ~Dispatched(p, a, "prepare")
    BY <1>1, CommittedWasOpen DEF Unsettled, Dispatched
  <2>2. ~Scheduled(a, "prepare")
    BY <1>1 DEF Scheduled
  <2> QED
    BY <1>0, <1>1, <2>1, <2>2, EffectSteps DEF EffectMoves, Asked
<1>2. ASSUME effect'[a]["prepare"].status = "completed", effect[a]["prepare"].status # "completed"
      PROVE  \E q \in Service : pc[q] = "commit" /\ Merging(q, a)
  <2>1. PICK q \in Service : Committed(q, a, "prepare")
    BY <1>0, <1>2, EffectSteps DEF EffectMoves, Scheduled, Dispatched, Asked
  <2>2. pc[q] = "commit" /\ pc[q] \in Hosted /\ job[q].at = a /\ job[q].stage = "prepare"
        /\ Observed(q) = "completed"
    BY <1>2, <2>1 DEF Committed, CommitEffect, Hosted, Labels
  <2>3. verdict[q] \in {"candidate", "passed", "new", "completed"}
    BY <2>2 DEF Observed
  <2>4. verdict[q] # "completed"
    BY <1>2, <2>2, GatedIsPrepared DEF Staged
  <2>5. verdict[q] = "candidate"
    BY <2>2, <2>3, <2>4 DEF Staged
  <2> QED
    BY <2>2, <2>5 DEF Merging
<1> QED
  BY <1>1, <1>2

LEMMA StagesFollow ==
  ASSUME Typed, Typed', Evidence, Leased, Staged, Next, NEW a \in Attempt
  PROVE  /\ attempt'[a].gate # "none" => effect'[a]["validate"].status # "none"
         /\ effect'[a]["validate"].status # "none" => effect'[a]["prepare"].status = "completed"
         /\ ~Started(a, "prepare")' => attempt'[a].state = "absent"
         /\ attempt'[a].state = "conflicted" => attempt'[a].gate = "none"
<1>0. "prepare" \in Stage /\ "validate" \in Stage
  BY DEF Stage
<1>1. effect[a]["validate"].status # "none" => effect'[a]["validate"].status # "none"
  <2>1. ASSUME NEW p \in Service, Committed(p, a, "validate")
        PROVE  effect'[a]["validate"].status # "none"
    BY <2>1, ObservedIsStarted DEF Committed, CommitEffect
  <2> QED
    BY <1>0, <2>1, EffectSteps DEF EffectMoves, Scheduled, Asked, Dispatched
<1>2. ASSUME attempt'[a].gate # "none"
      PROVE  effect[a]["validate"].status # "none"
  <2>1. CASE attempt[a].gate # "none"
    BY <2>1 DEF Staged
  <2>2. ASSUME NEW p \in Service, Change(p, a), pc[p] = "evaluate"
        PROVE  effect[a]["validate"].status # "none"
    BY <2>2 DEF Change, Typed, LocalOK, Fits, ValidateLabels, Evidence, Started
  <2> QED
    BY <1>2, <2>1, <2>2, AttemptSteps DEF Change
<1>3. effect'[a]["validate"].status # "none" => effect'[a]["prepare"].status = "completed"
  <2>1. ASSUME effect'[a]["validate"].status # "none"
        PROVE  effect[a]["validate"].status # "none" \/ effect[a]["prepare"].status = "completed"
    <3>1. ASSUME NEW p \in Service, Committed(p, a, "validate")
          PROVE  effect[a]["validate"].status # "none"
      BY <3>1, CommittedWasOpen DEF Unsettled
    <3> QED
      BY <1>0, <2>1, <3>1, EffectSteps, DueMeans DEF EffectMoves, Scheduled, Asked, Dispatched
  <2> QED
    BY <2>1, PreparedSteps DEF Staged
<1>4. ASSUME ~Started(a, "prepare")'
      PROVE  attempt'[a].state = "absent"
  <2>1. ~Started(a, "prepare")
    BY <1>0, <1>4, StartedStays
  <2>2. \A p \in Service : ~Change(p, a)
    BY <2>1, WorkedOnIsPrepared DEF Change
  <2> QED
    BY <2>1, <2>2, AttemptSteps DEF Staged
<1>5. ASSUME attempt'[a].state = "conflicted"
      PROVE  attempt'[a].gate = "none"
  <2>1. CASE attempt'[a] = attempt[a]
    BY <1>5, <2>1 DEF Staged
  <2>2. ASSUME NEW p \in Service, Change(p, a)
        PROVE  attempt'[a].gate = "none"
    <3>1. pc[p] = "conflicted" /\ job[p].at = a /\ attempt'[a].gate = attempt[a].gate
      BY <1>5, <2>2, RecordsAtStage DEF Change
    <3>2. effect[a]["prepare"].status # "completed"
      BY <3>1 DEF Staged
    <3> QED
      BY <3>1, <3>2, GatedIsPrepared
  <2> QED
    BY <2>1, <2>2, AttemptSteps
<1> QED
  BY <1>1, <1>2, <1>3, <1>4, <1>5

\* Who merges an attempt did so before, or has just claimed it for that.
Enters(p, a) ==
  Step(p) /\ pc[p] = "claim-prepare" /\ ctx[p] /\ job[p].at = a /\ pc'[p] = "merge"

LEMMA MergingFrom ==
  ASSUME Typed, Next, NEW p \in Service, NEW a \in Attempt, Merging(p, a)'
  PROVE  Merging(p, a) \/ Enters(p, a)
<1>1. pc'[p] \in Hosted /\ job'[p].at = a
      /\ (pc'[p] \in {"merge", "conflicted"} \/ verdict'[p] = "candidate")
  BY DEF Merging
<1>2. CASE Stays(p)
  BY <1>1, <1>2 DEF Stays, Merging
<1>3. CASE Plans(p)
  BY <1>1, <1>3 DEF Plans, Entry, Stage
<1>4. CASE Step(p) /\ SameEffect(p) /\ Arrives(p) /\ Concludes(p)
  <2>1. pc[p] \in Hosted /\ job[p].at = a
    BY <1>1, <1>4 DEF Arrives, SameEffect
  <2>2. CASE pc'[p] = "merge"
    BY <1>4, <2>1, <2>2 DEF Arrives, Enters
  <2>3. CASE pc'[p] = "conflicted"
    BY <1>4, <2>1, <2>3 DEF Arrives, Merging
  <2>4. CASE verdict'[p] = "candidate"
    BY <1>4, <2>1, <2>4 DEF Concludes, Merging
  <2> QED
    BY <1>1, <2>2, <2>3, <2>4
<1> QED
  BY <1>1, <1>2, <1>3, <1>4, HostedMove

LEMMA EnteringHolds ==
  ASSUME Typed, Evidence, Leased, Staged, NEW p \in Service, NEW a \in Attempt, Enters(p, a)
  PROVE  /\ HoldsRun(p) /\ job[p].run = a[1]
         /\ attempt[a].state \in {"absent", "intent"}
         /\ effect[a]["prepare"].status # "completed"
<1>1. pc[p] \in Hosted /\ HoldsRun(p)
  BY DEF Enters, Hosted, Labels, Leased
<1>2. job[p].stage = "prepare" /\ job[p].run = a[1]
  BY <1>1, HostedHas DEF Enters, Typed, LocalOK, Fits, PrepareLabels
<1> QED
  BY <1>1, <1>2 DEF Enters, Staged, Leased, Unsettled

LEMMA EnteringClaims ==
  ASSUME Typed, Ownership, NEW p \in Service, NEW a \in Attempt, Enters(p, a)
  PROVE  attempt'[a].state \notin {"absent", "intent"}
<1>1. ClaimSlot(p)
  BY StepAt DEF Enters, AfterClaim
<1>2. attempt \in [Attempt -> Records] /\ pc \in [Service -> Labels]
  BY DEF Typed, TypeOK, AuthorityTypeOK
<1>3. CASE Replays(p, a)
  <2>1. attempt' = attempt
    BY <1>1, <1>3 DEF ClaimSlot, Enters
  <2>2. attempt[a].state # "absent"
    BY <1>3, AuthorityAssumption DEF Replays, Ownership
  <2> QED
    BY <1>3, <2>1, <2>2 DEF Replays
<1>4. CASE ~Replays(p, a)
  <2>1. Claim(p, a)
    BY <1>1, <1>2, <1>4 DEF ClaimSlot, Goto, Enters
  <2>2. attempt'[a].state = "claimed"
    BY <1>2, <2>1 DEF Claim, Records
  <2> QED
    BY <2>2
<1> QED
  BY <1>3, <1>4

LEMMA OneMerges ==
  ASSUME Typed, Evidence, Ownership, Leased, Staged, Next, NEW p \in Service, NEW a \in Attempt,
         Merging(p, a)'
  PROVE  /\ attempt'[a].state \notin {"absent", "intent"}
         /\ \A q \in Service : Merging(q, a)' => p = q
<1>1. Merging(p, a) \/ Enters(p, a)
  BY MergingFrom
<1>2. attempt'[a].state \notin {"absent", "intent"}
  <2>1. CASE Merging(p, a)
    BY <2>1, StateStays DEF Staged
  <2>2. CASE Enters(p, a)
    BY <2>2, EnteringClaims
  <2> QED
    BY <1>1, <2>1, <2>2
<1>3. ASSUME NEW q \in Service, Merging(q, a)'
      PROVE  p = q
  <2>1. Merging(q, a) \/ Enters(q, a)
    BY <1>3, MergingFrom
  <2>2. CASE Merging(p, a) /\ Merging(q, a)
    BY <2>2 DEF Staged
  <2>3. CASE (Merging(p, a) \/ Merging(q, a)) /\ (Enters(p, a) \/ Enters(q, a))
    BY <2>3, EnteringHolds DEF Staged
  <2>4. CASE Enters(p, a) /\ Enters(q, a)
    BY <2>4, EnteringHolds, OneHolder
  <2> QED
    BY <1>1, <2>1, <2>2, <2>3, <2>4
<1> QED
  BY <1>2, <1>3

LEMMA IntendsAtFirst ==
  ASSUME Typed, Evidence, Ownership, Leased, Staged, Next, NEW p \in Service,
         pc'[p] \in {"intend", "claim-prepare"}, HoldsRun(p)'
  PROVE  attempt'[job'[p].at].state \in {"absent", "intent"}
<1>1. pc'[p] \in Hosted
  BY DEF Hosted, Labels
<1>2. HoldsRun(p) /\ job'[p].run = job[p].run
  BY <1>1, StillHolds
<1>3. CASE Stays(p)
  <2> DEFINE a == job[p].at
  <2>1. a \in Attempt /\ a[1] = job[p].run /\ job'[p].at = a /\ pc[p] = pc'[p]
        /\ attempt[a].state \in {"absent", "intent"}
    BY <1>1, <1>2, <1>3, HostedHas DEF Stays, Staged
  <2>2. ASSUME NEW q \in Service, Step(q), Change(q, a)
        PROVE  attempt'[a].state \in {"absent", "intent"}
    <3>1. ~(pc[q] \in DOMAIN AfterClaim /\ ctx[q] /\ MayClaim(q, a))
      <4> SUFFICES ASSUME pc[q] \in DOMAIN AfterClaim, ctx[q], MayClaim(q, a)
                   PROVE  FALSE
        OBVIOUS
      <4>1. job[q].at = a /\ pc[q] \in Hosted
        BY <2>2 DEF Change
      <4>2. HoldsRun(q) /\ job[q].run = a[1]
        BY <4>1, HostedHas DEF Leased
      <4>3. p = q
        BY <1>2, <2>1, <4>2, OneHolder
      <4>4. ClaimSlot(q)
        BY <2>2, StepAt
      <4>5. pc'[q] = AfterClaim[pc[q]]
        BY <4>1, <4>4 DEF ClaimSlot, MayClaim, Typed, LocalOK
      <4> QED
        BY <2>1, <4>3, <4>5 DEF AfterClaim
    <3>2. attempt[a].state \in States /\ AllowedFrom["absent"] = {} /\ AllowedFrom["intent"] = {}
      BY <2>1 DEF Typed, TypeOK, AuthorityTypeOK, Records, AllowedFrom, States
    <3> QED
      BY <2>1, <2>2, <3>1, <3>2 DEF Change
  <2>3. attempt'[a].state \in {"absent", "intent"}
    BY <2>1, <2>2, AttemptSteps
  <2> QED
    BY <2>1, <2>3
<1>4. CASE Plan(p) /\ Plans(p)
  <2>1. ~Started(job'[p].at, "prepare") /\ job'[p].at \in Attempt
    BY <1>4 DEF Plans, Entry, Stage, Started
  <2>2. attempt' = attempt
    BY <1>4 DEF Plan, stored
  <2> QED
    BY <2>1, <2>2 DEF Staged
<1>5. CASE Step(p) /\ SameEffect(p) /\ Arrives(p)
  <2> DEFINE a == job[p].at
  <2>1. a \in Attempt /\ job'[p].at = a
    BY <1>5, HostedHas DEF Arrives, SameEffect
  <2>2. \/ pc[p] = "inspect" /\ attempt[a].state = "absent"
        \/ pc[p] = "intend" /\ attempt[a].state \in {"absent", "intent"}
    BY <1>2, <1>5 DEF Arrives, Staged
  <2>3. attempt'[a] = attempt[a] \/ Change(p, a)
    BY <1>5, <2>1, StepWrites, WritesChange
  <2>4. Change(p, a) => pc[p] = "intend" /\ attempt'[a].state = "intent"
    BY <2>2 DEF Change, RecordedAt, AfterClaim, AfterAdvance
  <2> QED
    BY <2>1, <2>2, <2>3, <2>4
<1> QED
  BY <1>1, <1>3, <1>4, <1>5, HostedMove

LEMMA MergesUnsettled ==
  ASSUME Typed, Evidence, Leased, Staged, Next, NEW p \in Service,
         pc'[p] \in {"merge", "conflicted"}, NEW a \in Attempt, a = job'[p].at
  PROVE  effect'[a]["prepare"].status # "completed"
<1>1. pc'[p] \in Hosted /\ Merging(p, a)'
  BY DEF Hosted, Labels, Merging
<1>2. CASE Enters(p, a)
  <2>1. effect[a]["prepare"].status # "completed" /\ attempt[a].state \in {"absent", "intent"}
    BY <1>2, EnteringHolds
  <2> QED
    BY <2>1, PreparedSteps DEF Staged
<1>3. CASE Merging(p, a) /\ ~Enters(p, a)
  <2>1. pc[p] \in {"merge", "conflicted"}
    <3>1. CASE Stays(p)
      BY <3>1 DEF Stays
    <3>2. CASE Plans(p)
      BY <3>2 DEF Plans, Entry, Stage
    <3>3. CASE Step(p) /\ SameEffect(p) /\ Arrives(p)
      BY <1>3, <3>3 DEF Arrives, SameEffect, Enters
    <3> QED
      BY <1>1, <3>1, <3>2, <3>3, HostedMove
  <2>2. effect[a]["prepare"].status # "completed" /\ pc[p] # "commit"
    BY <1>3, <2>1 DEF Staged, Merging
  <2>3. \A q \in Service : Merging(q, a) => p = q
    BY <1>3 DEF Staged
  <2> QED
    BY <2>2, <2>3, PreparedSteps
<1> QED
  BY <1>1, <1>2, <1>3, MergingFrom

VerdictFits(q) ==
  /\ verdict[q] = "candidate" => job[q].stage = "prepare"
  /\ verdict[q] = "passed" => job[q].stage = "validate"
  /\ verdict[q] = "new" => job[q].stage = "publish"
  /\ verdict[q] = "completed" => attempt[job[q].at].gate = "passed"

LEMMA VerdictsFit ==
  ASSUME Typed, Evidence, Staged, Next, NEW q \in Service, pc'[q] \in Hosted
  PROVE  VerdictFits(q)'
<1>1. CASE Stays(q)
  <2>1. VerdictFits(q) /\ job[q].at \in Attempt
    BY <1>1, HostedHas DEF Stays, Staged, VerdictFits
  <2> QED
    BY <1>1, <2>1, GateStays DEF Stays, VerdictFits
<1>2. CASE Plans(q)
  BY <1>2 DEF Plans, VerdictFits
<1>3. CASE SameEffect(q) /\ Arrives(q) /\ Concludes(q)
  <2>1. pc[q] \in Hosted /\ VerdictFits(q) /\ job[q].at \in Attempt
    BY <1>3, HostedHas DEF Arrives, Staged, VerdictFits
  <2>2. Fits(pc[q], job[q], verdict[q])
    BY DEF Typed, LocalOK
  <2>3. CASE verdict'[q] = verdict[q]
    BY <1>3, <2>1, <2>3, GateStays DEF SameEffect, VerdictFits
  <2>4. CASE verdict'[q] # verdict[q]
    <3>1. verdict'[q] = "candidate" => job[q].stage = "prepare"
      BY <1>3, <2>2, <2>4 DEF Concludes, Fits, PrepareLabels
    <3>2. verdict'[q] = "passed" => job[q].stage = "validate"
      BY <1>3, <2>2, <2>4 DEF Concludes, Fits, ValidateLabels
    <3>3. verdict'[q] = "new" => job[q].stage = "publish"
      BY <1>3, <2>2, <2>4 DEF Concludes, Fits, PublishLabels
    <3>4. verdict'[q] = "completed" => attempt[job[q].at].gate = "passed"
      BY <1>3, <2>1, <2>4 DEF Concludes, Evidence
    <3> QED
      BY <1>3, <2>1, <3>1, <3>2, <3>3, <3>4, GateStays DEF SameEffect, VerdictFits
  <2> QED
    BY <2>3, <2>4
<1> QED
  BY <1>1, <1>2, <1>3, HostedMove

LEMMA StagedStep ==
  ASSUME Typed, Typed', Evidence, Ownership, Leased, Staged, Next
  PROVE  Staged'
<1>1. \A a \in Attempt :
       /\ attempt'[a].gate # "none" => effect'[a]["validate"].status # "none"
       /\ effect'[a]["validate"].status # "none" => effect'[a]["prepare"].status = "completed"
       /\ ~Started(a, "prepare")' => attempt'[a].state = "absent"
       /\ attempt'[a].state = "conflicted" => attempt'[a].gate = "none"
  BY StagesFollow
<1>2. ASSUME NEW p \in Service, pc'[p] \in {"intend", "claim-prepare"}, HoldsRun(p)'
      PROVE  attempt'[job'[p].at].state \in {"absent", "intent"}
  BY <1>2, IntendsAtFirst
<1>3. ASSUME NEW p \in Service, pc'[p] \in {"merge", "conflicted"}
      PROVE  effect'[job'[p].at]["prepare"].status # "completed"
  <2>1. job'[p].at \in Attempt
    BY <1>3 DEF Typed, LocalOK, Fits
  <2>2. PICK a \in Attempt : a = job'[p].at
    BY <2>1
  <2>3. effect'[a]["prepare"].status # "completed"
    BY <1>3, <2>2, MergesUnsettled
  <2> QED
    BY <2>2, <2>3
<1>4. ASSUME NEW p \in Service, pc'[p] \in Hosted
      PROVE  /\ verdict'[p] = "candidate" => job'[p].stage = "prepare"
             /\ verdict'[p] = "passed" => job'[p].stage = "validate"
             /\ verdict'[p] = "new" => job'[p].stage = "publish"
             /\ verdict'[p] = "completed" => attempt'[job'[p].at].gate = "passed"
  BY <1>4, VerdictsFit DEF VerdictFits
<1>5. \A p \in Service, a \in Attempt :
       Merging(p, a)' => /\ attempt'[a].state \notin {"absent", "intent"}
                         /\ \A q \in Service : Merging(q, a)' => p = q
  BY OneMerges
<1> QED
  BY <1>1, <1>2, <1>3, <1>4, <1>5 DEF Staged

----------------------------------------------------------------------------
(* The branch and what runs began from                                      *)

\* Only a run that has not begun is registered.
LEMMA BaseSteps ==
  ASSUME Grounded, Next
  PROVE  \/ base' = base
         \/ \E r \in Run : Register(r)
<1>1. ASSUME NEW p \in Service, Step(p)
      PROVE  base' = base
  BY <1>1, BranchKeepsItsType DEF Grounded
<1>2. ASSUME NEW p, NEW r, Other(p, r)
      PROVE  base' = base \/ (Register(r) /\ r \in Run)
  <2>1. CASE Register(r) /\ r \notin Run
    <3>1. base \in [Run -> Commit \cup {NoAttempt}]
      BY DEF Grounded, Typed, TypeOK
    <3>2. base' = base
      BY <2>1, <3>1 DEF Register
    <3> QED
      BY <3>2
  <2> QED
    BY <1>2, <2>1 DEF Other, Begin, ContextLapses, Abort, Crash, RunLeaseLapses, Admit, EndRun,
       SlotLapses, vars
<1> QED
  BY <1>1, <1>2, NextSteps

LEMMA BasedStep ==
  ASSUME Grounded, Based, Next
  PROVE  Based'
<1> SUFFICES ASSUME NEW a \in Attempt, Moved(a)'
             PROVE  base'[a[1]] \in Range(branch)' /\ base'[a[1]] # Tip'
  BY DEF Based
<1>1. /\ branch \in Seq(Commit) /\ branch # <<>> /\ base \in [Run -> Commit \cup {NoAttempt}]
      /\ a[1] \in Run
  BY AuthorityAssumption DEF Grounded, Grown, Typed, TypeOK
<1>2. ASSUME NEW p \in Service, branch' = Append(branch, job[p].at), job[p].at \in Attempt,
             Tip = base[job[p].at[1]], base' = base
      PROVE  base'[a[1]] \in Range(branch)' /\ base'[a[1]] # Tip'
  <2> DEFINE c == job[p].at
  <2>1. ~Moved(c)
    BY <1>2 DEF Based
  <2>2. Tip \in Range(branch)
    BY TipMoved
  <2>3. c # Tip /\ c \notin Range(branch)
    BY <2>1, <2>2 DEF Moved
  <2>4. Tip' = c
    BY <1>1, <1>2 DEF Tip
  <2>5. Range(branch') = Range(branch) \cup {c}
    BY <1>1, <1>2, AppendRange
  <2>6. a = c \/ Moved(a)
    BY <2>5 DEF Moved
  <2> HIDE DEF c
  <2>7. CASE a = c
    <3>1. base[a[1]] = Tip
      BY <1>2, <2>7 DEF c
    <3> QED
      BY <1>2, <2>2, <2>3, <2>4, <2>5, <3>1
  <2>8. CASE Moved(a)
    <3>1. base[a[1]] \in Range(branch)
      BY <2>8 DEF Based
    <3> QED
      BY <1>2, <2>3, <2>4, <2>5, <3>1
  <2> QED
    BY <2>6, <2>7, <2>8
<1>3. CASE branch' = branch
  <2>1. Moved(a) /\ Range(branch') = Range(branch) /\ Tip' = Tip
    BY <1>3 DEF Moved, Tip
  <2>2. base[a[1]] \in Range(branch) /\ base[a[1]] # Tip
    BY <2>1 DEF Based
  <2>3. base[a[1]] # NoAttempt
    <3>1. Range(branch) \subseteq Commit
      BY <1>1 DEF Range
    <3>2. NoAttempt \notin Commit
      BY NoAttemptIsNone DEF Commit
    <3> QED
      BY <2>2, <3>1, <3>2
  <2>4. base'[a[1]] = base[a[1]]
    BY <1>1, <2>3, BaseSteps DEF Register
  <2> QED
    BY <2>1, <2>2, <2>4
<1> QED
  BY <1>2, <1>3, BranchSteps

----------------------------------------------------------------------------
(* Attempts on their way to the branch                                      *)

PublishClaims == {"claim-check", "claim-again", "claim-final", "claim-found"}

LEMMA AtLargeIsGated ==
  ASSUME Typed, Evidence, GatedBeforePublished, NEW a \in Attempt, AtLarge(a)
  PROVE  attempt[a].gate = "passed"
BY AtPublish DEF AtLarge, GatedBeforePublished, AfterFirstClaim, PublishLabels

\* A claim on the way to publication is made by the holder of the run, with
\* nobody about to cancel.
LEMMA ClaimingHolds ==
  ASSUME Typed, Leased, Asking, NEW p \in Service, pc[p] \in PublishClaims, ctx[p]
  PROVE  /\ HoldsRun(p) /\ job[p].stage = "publish" /\ job[p].mode \notin CancelModes
         /\ job[p].at \in Attempt /\ job[p].at[1] = job[p].run
         /\ \A q \in Service : pc[q] = "cancel" => job[q].run # job[p].run
<1>1. pc[p] \in Hosted \ {"commit", "cancel"} /\ HoldsRun(p)
  BY DEF Leased, PublishClaims, Hosted, Labels
<1>2. job[p].stage = "publish"
  BY DEF Typed, LocalOK, Fits, PublishLabels, PublishClaims
<1>3. job[p].mode \notin CancelModes
  BY <1>1, <1>2 DEF Asking
<1> QED
  BY <1>1, <1>2, <1>3, HostedHas DEF Asking

LEMMA ClaimCarries ==
  ASSUME Typed, Leased, Asking, NEW p \in Service, Step(p), pc[p] \in PublishClaims,
         pc'[p] # "broken", NEW a \in Attempt, a = job[p].at
  PROVE  ctx[p] /\ attempt'[a].owner = p /\ CarriedBy(p, a)'
<1>1. ClaimSlot(p) /\ pc[p] \in DOMAIN AfterClaim
  BY StepAt DEF PublishClaims, AfterClaim
<1>2. /\ pc \in [Service -> Labels] /\ held \in [Service -> Fences]
      /\ attempt \in [Attempt -> Records]
  BY DEF Typed, TypeOK, AuthorityTypeOK, LocalOK
<1>3. ctx[p] /\ (Replays(p, a) \/ MayClaim(p, a))
  BY <1>1, <1>2 DEF ClaimSlot, Goto
<1>4. AfterClaim[pc[p]] \in Advancing
  BY DEF PublishClaims, AfterClaim, Advancing
<1>5. /\ pc' = [pc EXCEPT ![p] = AfterClaim[pc[p]]] /\ job' = job /\ ctx' = ctx
      /\ runLease' = runLease
  BY <1>1, <1>3 DEF ClaimSlot, runner
<1>6. a \in Attempt /\ HoldsRun(p) /\ a[1] = job[p].run
      /\ \A q \in Service : pc[q] = "cancel" => job[q].run # a[1]
  BY <1>3, ClaimingHolds
<1>7. attempt'[a].owner = p /\ held'[p] = [owner |-> p, fence |-> attempt'[a].fence]
  <2>1. CASE Replays(p, a)
    BY <1>1, <1>2, <1>3, <2>1 DEF ClaimSlot, Replays
  <2>2. CASE ~Replays(p, a)
    <3>1. Claim(p, a) /\ held' = [held EXCEPT ![p] = [owner |-> p, fence |-> slot'.fence]]
      BY <1>1, <1>3, <2>2 DEF ClaimSlot
    <3>2. attempt'[a].owner = p /\ attempt'[a].fence = slot'.fence
      BY <1>2, <1>6, <3>1 DEF Claim, Records
    <3> QED
      BY <1>2, <3>1, <3>2
  <2> QED
    BY <2>1, <2>2
<1>8. pc'[p] \in Advancing /\ \A q \in Service : pc'[q] = "cancel" => pc[q] = "cancel"
  BY <1>2, <1>4, <1>5 DEF Advancing
<1>9. runLease'[a[1]] = [owner |-> p, live |-> TRUE]
  BY <1>5, <1>6 DEF HoldsRun
<1> QED
  BY <1>3, <1>5, <1>6, <1>7, <1>8, <1>9 DEF CarriedBy

\* While the slot's live lease is p's, only p could claim, and p replays.
LEMMA NoClaimBeside ==
  ASSUME Typed, NEW a \in Attempt, NEW p, p = attempt[a].owner, CarriedBy(p, a), Owned(a),
         attempt[a].state \in Early, NEW q \in Service, pc[q] \in DOMAIN AfterClaim, ctx[q],
         MayClaim(q, job[q].at)
  PROVE  FALSE
<1>1. slot.live /\ slot.owner = p /\ slot.fence = attempt[a].fence
  BY DEF Owned, Fenced
<1>2. q = p
  BY <1>1 DEF MayClaim, SlotBusy
<1>3. job[q].at = a
  BY <1>2 DEF CarriedBy, AfterClaim
<1> QED
  BY <1>1, <1>2, <1>3 DEF MayClaim, SlotBusy, Early

LEMMA OwnerStays ==
  ASSUME Typed, Next, NEW a \in Attempt, NEW p, p = attempt[a].owner, CarriedBy(p, a), Owned(a),
         attempt[a].state \in Early
  PROVE  attempt'[a].owner = p /\ attempt'[a].fence = attempt[a].fence
<1>1. ASSUME NEW q \in Service, Change(q, a)
      PROVE  attempt'[a].owner = p /\ attempt'[a].fence = attempt[a].fence
  BY <1>1, NoClaimBeside DEF Change, Early
<1> QED
  BY <1>1, AttemptSteps

LEMMA StepsAreUp ==
  ASSUME NEW p \in Service, Step(p)
  PROVE  pc[p] \notin {"idle", "dead"}
BY DEF Step, Plan, CommitEffect, Broken, ClaimSlot, AfterClaim, Advance, AfterAdvance, Intend,
   MergeFails, RecordCandidate, Validate, EvaluationFails, RecordDecision, Mark, Look, Move,
   Recheck, RecordPublication, TrustBarrier, Barrier, Inspect, Cancel

\* A run lease that lapses takes the slot of that run with it.
LEMMA LapseLoses ==
  ASSUME NEW a \in Attempt, NEW p, p = attempt[a].owner, Owned(a), LapseSlot(p, a[1])
  PROVE  ~slot'.live
<1>1. SlotOf(p, a[1])
  BY DEF SlotOf, Owned, Fenced
<1> QED
  BY <1>1 DEF LapseSlot, Owned, Fenced

LEMMA LeaseCarried ==
  ASSUME Typed, Next, NEW a \in Attempt, NEW p, p = attempt[a].owner, CarriedBy(p, a), Owned(a),
         slot'.live
  PROVE  runLease'[a[1]] = runLease[a[1]]
<1>1. /\ runLease \in [Run -> Leases] /\ a[1] \in Run
      /\ runLease[a[1]].owner = p /\ runLease[a[1]].live /\ pc[p] # "commit"
  BY AuthorityAssumption DEF Typed, TypeOK, CarriedBy, Advancing
<1>2. ASSUME NEW q \in Service, Step(q)
      PROVE  runLease'[a[1]] = runLease[a[1]]
  <2>1. CASE CommitEffect(q)
    <3>1. HoldsRun(q) => job[q].run # a[1]
      BY <1>1, <2>1 DEF CommitEffect, HoldsRun
    <3> QED
      BY <1>1, <2>1, <3>1 DEF CommitEffect
  <2>2. CASE ~CommitEffect(q)
    BY <1>2, <2>2 DEF Step, Plan, Broken, ClaimSlot, Advance, Intend, MergeFails,
       RecordCandidate, Validate, EvaluationFails, RecordDecision, Mark, Look, Move, Recheck,
       RecordPublication, TrustBarrier, Barrier, Inspect, Cancel, runner
  <2> QED
    BY <2>1, <2>2
<1>3. ASSUME NEW q, NEW r, Other(q, r)
      PROVE  runLease'[a[1]] = runLease[a[1]]
  <2>1. CASE Begin(q, r)
    BY <1>1, <2>1 DEF Begin
  <2>2. CASE RunLeaseLapses(r)
    <3>1. r # a[1]
      BY <1>1, <2>2, LapseLoses DEF RunLeaseLapses
    <3> QED
      BY <1>1, <2>2, <3>1 DEF RunLeaseLapses
  <2>3. CASE ~Begin(q, r) /\ ~RunLeaseLapses(r)
    BY <1>3, <2>3 DEF Other, ContextLapses, Abort, Crash, Register, Admit, EndRun, SlotLapses,
       runner
  <2> QED
    BY <2>1, <2>2, <2>3
<1> QED
  BY <1>2, <1>3, NextSteps

\* Who carries an attempt stays on its way, unless it has arrived.
Carries(p, a) ==
  pc[p] \in Advancing /\ job[p].at = a /\ ctx[p]
  /\ held[p] = [owner |-> p, fence |-> attempt[a].fence]

LEMMA CarrierSteps ==
  ASSUME Typed, Evidence, NEW a \in Attempt, NEW p \in Service, p = attempt[a].owner,
         Carries(p, a), Owned(a), attempt[a].state \in Early, Step(p),
         attempt'[a].state \in Early
  PROVE  pc'[p] \in Advancing /\ job'[p] = job[p] /\ ctx'[p] = ctx[p] /\ held'[p] = held[p]
<1>1. /\ pc \in [Service -> Labels] /\ held \in [Service -> Fences]
      /\ attempt \in [Attempt -> Records]
  BY DEF Typed, TypeOK, AuthorityTypeOK, LocalOK
<1>2. Fenced(a, held[p].owner, held[p].fence) /\ held[p].owner = p /\ job[p].at = a
  BY DEF Carries, Owned
<1>3. ASSUME NEW state, RecordState(a, state)
      PROVE  attempt'[a].state = state
  BY <1>1, <1>3 DEF RecordState, Records
<1>4. ASSUME NEW state, NEW l \in Advancing, state \in AllowedFrom[attempt[a].state],
             RecordHeld(p, state, l)
      PROVE  /\ attempt'[a].state = state
             /\ pc'[p] = l /\ job'[p] = job[p] /\ ctx'[p] = ctx[p] /\ held'[p] = held[p]
  BY <1>1, <1>2, <1>3, <1>4 DEF RecordHeld, Record, Allowed, Goto, frame
<1>5. CASE pc[p] = "mark"
  <2>1. Mark(p) /\ attempt[a].gate = "passed"
    BY <1>2, <1>5, StepAt, AtPublish DEF PublishLabels
  <2>2. CASE attempt[a].state = "validating"
    <3>1. RecordHeld(p, "publishing", "claim-again") /\ "claim-again" \in Advancing
      BY <1>2, <2>1, <2>2 DEF Mark, Advancing
    <3>2. "publishing" \in AllowedFrom[attempt[a].state]
      BY <1>1, <2>2 DEF AllowedFrom, Records
    <3> QED
      BY <1>4, <3>1, <3>2 DEF Early
  <2>3. CASE attempt[a].state # "validating"
    BY <1>1, <1>2, <2>1, <2>3 DEF Mark, Goto, frame, Advancing
  <2> QED
    BY <2>2, <2>3
<1>6. CASE pc[p] = "claim-again"
  <2>1. ClaimSlot(p) /\ ctx[p] /\ AfterClaim[pc[p]] = "advance-again"
    BY <1>6, StepAt DEF AfterClaim, Carries
  <2>2. Replays(p, a)
    BY <1>2 DEF Replays, Owned, Fenced, Early
  <2>3. /\ held' = [held EXCEPT ![p] = [owner |-> p, fence |-> attempt[a].fence]]
        /\ pc' = [pc EXCEPT ![p] = "advance-again"] /\ job' = job /\ ctx' = ctx
    BY <1>2, <2>1, <2>2 DEF ClaimSlot
  <2> QED
    BY <1>1, <2>3 DEF Advancing, Carries
<1>7. CASE pc[p] \in DOMAIN AfterAdvance
  <2>1. Advance(p)
    BY <1>7, StepAt
  <2>2. CASE attempt[a].state = "claimed"
    <3>1. RecordHeld(p, "candidate-created", pc[p])
      BY <1>2, <2>1, <2>2 DEF Advance
    <3>2. "candidate-created" \in AllowedFrom[attempt[a].state]
      BY <1>1, <2>2 DEF AllowedFrom, Records
    <3>3. pc[p] \in Advancing
      BY DEF Carries
    <3> QED
      BY <1>4, <3>1, <3>2, <3>3
  <2>3. CASE attempt[a].state = "candidate-created"
    <3>1. RecordHeld(p, "validating", pc[p])
      BY <1>2, <2>1, <2>3 DEF Advance
    <3>2. "validating" \in AllowedFrom[attempt[a].state]
      BY <1>1, <2>3 DEF AllowedFrom, Records
    <3>3. pc[p] \in Advancing
      BY DEF Carries
    <3> QED
      BY <1>4, <3>1, <3>2, <3>3
  <2>4. CASE attempt[a].state = "validating"
    <3>1. RecordHeld(p, "publishing", AfterAdvance[pc[p]])
      BY <1>2, <2>1, <2>4 DEF Advance
    <3>2. "publishing" \in AllowedFrom[attempt[a].state] /\ Allowed(a, "publishing")
      BY <1>1, <2>4 DEF AllowedFrom, Records, Allowed
    <3>3. RecordState(a, "publishing")
      BY <1>2, <3>1, <3>2 DEF RecordHeld, Record
    <3> QED
      BY <1>3, <3>3 DEF Early
  <2> QED
    BY <2>2, <2>3, <2>4 DEF Early
<1>8. pc[p] = "mark" \/ pc[p] = "claim-again" \/ pc[p] \in DOMAIN AfterAdvance
  BY DEF Carries, Advancing, AfterAdvance
<1> QED
  BY <1>5, <1>6, <1>7, <1>8

LEMMA CarrierAside ==
  ASSUME Typed, NEW a \in Attempt, NEW p \in Service, p = attempt[a].owner, CarriedBy(p, a),
         Carries(p, a), Owned(a), NEW q, NEW r, Other(q, r), slot'.live
  PROVE  \/ pc'[p] = "dead"
         \/ pc'[p] = pc[p] /\ job'[p] = job[p] /\ ctx'[p] = ctx[p] /\ held'[p] = held[p]
<1>1. /\ pc \in [Service -> Labels] /\ job \in [Service -> Jobs] /\ ctx \in [Service -> BOOLEAN]
      /\ job[p].run = a[1] /\ HoldsRun(p) /\ runLease[a[1]].owner = p /\ pc[p] # "idle"
  <2>1. pc[p] \in Hosted
    BY DEF Carries, Advancing, Hosted, Labels
  <2>2. job[p].run = a[1]
    BY <2>1, HostedHas DEF Carries
  <2>3. pc \in [Service -> Labels] /\ job \in [Service -> Jobs] /\ ctx \in [Service -> BOOLEAN]
    BY DEF Typed, LocalOK
  <2> QED
    BY <2>1, <2>2, <2>3 DEF CarriedBy, HoldsRun, Hosted
<1>2. CASE Begin(q, r)
  BY <1>1, <1>2 DEF Begin
<1>3. CASE q \in Service /\ ContextLapses(q)
  <2>1. q # p
    BY <1>1, <1>3, LapseLoses DEF ContextLapses
  <2> QED
    BY <1>1, <1>3, <2>1 DEF ContextLapses
<1>4. CASE RunLeaseLapses(r)
  <2>1. r # a[1]
    BY <1>1, <1>4, LapseLoses DEF RunLeaseLapses
  <2>2. ctx' = [ctx EXCEPT ![runLease[r].owner] = @ /\ job[runLease[r].owner].run # r]
        /\ UNCHANGED <<pc, job, held>>
    BY <1>4 DEF RunLeaseLapses
  <2>3. ctx'[p] = ctx[p]
    BY <1>1, <2>1, <2>2
  <2> QED
    BY <2>2, <2>3
<1>5. CASE q \in Service /\ (Abort(q) \/ Crash(q))
  <2>1. CASE q = p
    <3>1. Crash(p)
      BY <1>1, <1>5, <2>1 DEF Abort
    <3>2. pc'[p] = "dead"
      BY <1>1, <3>1 DEF Crash, Leave
    <3> QED
      BY <3>2
  <2>2. CASE q # p
    <3>1. Leave(q, "idle") \/ Leave(q, "dead")
      BY <1>5 DEF Abort, Crash, Quit
    <3>2. Alone(q)
      BY <1>5, <3>1, LeaveMoves
    <3> QED
      BY <1>5, <2>2, <3>2 DEF Alone
  <2> QED
    BY <2>1, <2>2
<1>6. CASE Register(r) \/ Admit(r) \/ EndRun(r) \/ SlotLapses
  BY <1>6 DEF Register, Admit, EndRun, SlotLapses, local, frame
<1> QED
  BY <1>2, <1>3, <1>4, <1>5, <1>6 DEF Other

LEMMA DeadStays ==
  ASSUME Typed, Next, NEW p \in Service, pc[p] = "dead"
  PROVE  pc'[p] = "dead"
<1>1. ASSUME NEW q \in Service, Step(q)
      PROVE  pc'[p] = "dead"
  BY <1>1, StepsAreUp, StepMoves DEF Alone
<1>2. ASSUME NEW q, NEW r, Other(q, r)
      PROVE  pc'[p] = "dead"
  BY <1>2 DEF Other, Begin, ContextLapses, Abort, Crash, RunLeaseLapses, Register, Admit, EndRun,
     SlotLapses, local, frame, Down, Quit, Leave, Typed, LocalOK
<1> QED
  BY <1>1, <1>2, NextSteps

LEMMA StillCarried ==
  ASSUME Typed, Typed', Evidence, Next, NEW a \in Attempt, NEW p, p = attempt[a].owner,
         CarriedBy(p, a), Owned(a), attempt[a].state \in Early,
         Owned(a)', attempt'[a].state \in Early
  PROVE  attempt'[a].owner = p /\ CarriedBy(p, a)'
<1>1. p \in Service /\ slot'.live
  BY DEF CarriedBy, Owned, Fenced
<1>2. attempt'[a].owner = p /\ attempt'[a].fence = attempt[a].fence
  BY OwnerStays
<1>3. runLease'[a[1]] = [owner |-> p, live |-> TRUE]
  BY <1>1, LeaseCarried DEF CarriedBy
<1>4. \/ pc'[p] = "dead"
      \/ /\ pc'[p] \in Advancing /\ job'[p].at = a /\ ctx'[p]
         /\ held'[p] = [owner |-> p, fence |-> attempt'[a].fence]
  <2>1. CASE pc[p] = "dead"
    BY <1>1, <2>1, DeadStays
  <2>2. CASE Carries(p, a)
    <3>1. ASSUME NEW q \in Service, Step(q)
          PROVE  /\ pc'[p] \in Advancing /\ job'[p] = job[p] /\ ctx'[p] = ctx[p]
                 /\ held'[p] = held[p]
      <4>1. CASE q = p
        BY <1>1, <2>2, <3>1, <4>1, CarrierSteps
      <4>2. CASE q # p
        BY <1>1, <2>2, <3>1, <4>2, StepMoves DEF Alone, Carries
      <4> QED
        BY <4>1, <4>2
    <3>2. ASSUME NEW q, NEW r, Other(q, r)
          PROVE  \/ pc'[p] = "dead"
                 \/ pc'[p] = pc[p] /\ job'[p] = job[p] /\ ctx'[p] = ctx[p] /\ held'[p] = held[p]
      BY <1>1, <2>2, <3>2, CarrierAside
    <3> QED
      BY <1>2, <2>2, <3>1, <3>2, NextSteps DEF Carries
  <2> QED
    BY <2>1, <2>2 DEF CarriedBy, Carries
<1>5. ASSUME NEW q \in Service, pc'[q] = "cancel"
      PROVE  job'[q].run # a[1]
  <2>1. pc'[q] \in Hosted
    BY <1>5 DEF Hosted, Labels
  <2>2. CASE Stays(q)
    BY <1>5, <2>2 DEF Stays, CarriedBy
  <2>3. CASE Plans(q)
    BY <2>3 DEF Plans, CarriedBy, HoldsRun, Advancing
  <2> QED
    BY <1>5, <2>1, <2>2, <2>3, HostedMove DEF Arrives
<1> QED
  BY <1>1, <1>2, <1>3, <1>4, <1>5 DEF CarriedBy

\* An attempt comes to be owned, in a state that can be cancelled, by a claim.
LEMMA NewlyOwned ==
  ASSUME Typed, Typed', Evidence, Ownership, Next, NEW a \in Attempt, attempt[a].gate = "passed",
         Owned(a)', attempt'[a].state \in Early, ~(Owned(a) /\ attempt[a].state \in Early)
  PROVE  \E p \in Service : Step(p) /\ pc[p] \in DOMAIN AfterClaim /\ ctx[p] /\ job[p].at = a
                            /\ MayClaim(p, a)
<1>1. /\ attempt[a] \in Records /\ attempt'[a] \in Records /\ slot \in Slots /\ slot' \in Slots
      /\ attempt[a].state \in States /\ attempt[a].state \notin {"gate-failed", "absent", "intent"}
      /\ slot.fence \in Nat /\ attempt[a].fence \in Nat
  BY DEF Typed, TypeOK, AuthorityTypeOK, Records, Slots, Evidence
<1>2. CASE attempt'[a] = attempt[a]
  <2>1. ~Owned(a) /\ slot'.live /\ slot'.owner = attempt[a].owner
        /\ slot'.fence = attempt[a].fence /\ attempt[a].fence # 0
    BY <1>2 DEF Owned, Fenced
  <2>2. ~(slot'.owner = slot.owner /\ slot'.fence = slot.fence /\ (slot'.live => slot.live))
    BY <2>1 DEF Owned, Fenced
  <2>3. PICK q \in Service : WriteClaim(q)
    BY <2>2, SlotSteps
  <2>4. slot.live => slot.owner = q
    BY <2>3 DEF WriteClaim, MayClaim, SlotBusy
  <2>5. slot.live
    BY <1>1, <2>1, <2>3, ClaimMeans DEF Ownership
  <2>6. Owned(a)
    BY <2>1, <2>3, <2>4, <2>5, ClaimMeans DEF Owned, Fenced
  <2> QED
    BY <2>1, <2>6
<1>3. ASSUME NEW p \in Service, Step(p), Change(p, a)
      PROVE  pc[p] \in DOMAIN AfterClaim /\ ctx[p] /\ job[p].at = a /\ MayClaim(p, a)
  <2>1. CASE Owned(a)
    <3>1. attempt[a].state \notin Early
      BY <2>1
    <3>2. ~(attempt'[a].state \in AllowedFrom[attempt[a].state])
      BY <1>1, <3>1, AllowedMeans DEF Early
    <3> QED
      BY <1>1, <1>3, <3>1, <3>2 DEF Change, Early
  <2>2. CASE ~Owned(a)
    BY <1>1, <1>3, <2>2 DEF Change
  <2> QED
    BY <2>1, <2>2
<1> QED
  BY <1>2, <1>3, AttemptSteps

\* An attempt comes to be at large by its first claim for publication.
LEMMA NewlyAtLarge ==
  ASSUME Grounded, Next, NEW a \in Attempt, AtLarge(a)', ~AtLarge(a)
  PROVE  \E p \in Service : /\ Step(p) /\ pc[p] \in PublishClaims /\ ctx[p] /\ job[p].at = a
                            /\ pc'[p] # "broken"
<1>1. ~Moved(a)'
  <2>1. branch \in Seq(Commit)
    BY DEF Grounded, Typed, TypeOK
  <2>2. ASSUME NEW p \in Service, pc[p] = "move", branch' = Append(branch, job[p].at)
        PROVE  ~Moved(a)'
    <3>1. job[p].at # a
      BY <2>2 DEF AtLarge, AfterFirstClaim
    <3> QED
      BY <2>1, <2>2, <3>1, AppendRange DEF Moved, AtLarge
  <2> QED
    BY <2>2, BranchSteps DEF Moved, AtLarge
<1>2. PICK p \in Service : job'[p].at = a /\ pc'[p] \in AfterFirstClaim
  BY <1>1 DEF AtLarge
<1>3. pc'[p] \in Hosted
  BY <1>2 DEF AfterFirstClaim, Hosted, Labels
<1>4. ~Stays(p) /\ ~Plans(p)
  BY <1>2 DEF Stays, AtLarge, Plans, AfterFirstClaim, Entry, Stage
<1>5. Step(p) /\ SameEffect(p) /\ Arrives(p)
  BY <1>3, <1>4, HostedMove DEF Grounded
<1>6. job[p].at = a /\ pc[p] \notin AfterFirstClaim
  BY <1>2, <1>5 DEF SameEffect, AtLarge
<1> QED
  BY <1>2, <1>5, <1>6 DEF Arrives, PublishClaims, AfterFirstClaim

LEMMA CarriedStep ==
  ASSUME Safe, Safe', Staged, Asking, Carried, Next
  PROVE  Carried'
<1> USE DEF Safe, Grounded
<1> SUFFICES ASSUME NEW a \in Attempt, AtLarge(a)', attempt'[a].state \in Early, Owned(a)'
             PROVE  CarriedBy(attempt[a].owner, a)'
  BY DEF Carried
<1>1. ASSUME NEW p \in Service, Step(p), pc[p] \in PublishClaims, ctx[p], job[p].at = a,
             pc'[p] # "broken"
      PROVE  CarriedBy(attempt[a].owner, a)'
  <2>1. attempt'[a].owner = p /\ CarriedBy(p, a)'
    BY <1>1, ClaimCarries
  <2> QED
    BY <2>1 DEF CarriedBy
<1>2. CASE ~AtLarge(a)
  BY <1>1, <1>2, NewlyAtLarge
<1>3. CASE AtLarge(a) /\ Owned(a) /\ attempt[a].state \in Early
  <2>1. CarriedBy(attempt[a].owner, a)
    BY <1>3 DEF Carried
  <2>2. PICK p \in Service : p = attempt[a].owner /\ CarriedBy(p, a)
    BY <2>1 DEF CarriedBy
  <2>3. attempt'[a].owner = p /\ CarriedBy(p, a)'
    BY <1>3, <2>2, StillCarried
  <2> QED
    BY <2>3 DEF CarriedBy
<1>4. CASE AtLarge(a) /\ ~(Owned(a) /\ attempt[a].state \in Early)
  <2>1. attempt[a].gate = "passed"
    BY <1>4, AtLargeIsGated
  <2>2. PICK p \in Service : Step(p) /\ pc[p] \in DOMAIN AfterClaim /\ ctx[p] /\ job[p].at = a
                             /\ MayClaim(p, a)
    BY <1>4, <2>1, NewlyOwned
  <2>3. pc[p] # "claim-prepare"
    <3> SUFFICES ASSUME pc[p] = "claim-prepare"
                 PROVE  FALSE
      OBVIOUS
    <3>1. HoldsRun(p)
      BY <2>2 DEF Leased
    <3> QED
      BY <2>1, <2>2, <3>1 DEF Staged, Evidence
  <2>4. pc[p] \in PublishClaims
    BY <2>2, <2>3 DEF AfterClaim, PublishClaims
  <2>5. pc'[p] # "broken"
    <3>1. ClaimSlot(p) /\ pc \in [Service -> Labels]
      BY <2>2, StepAt DEF Typed, LocalOK
    <3>2. pc'[p] = AfterClaim[pc[p]]
      BY <2>2, <3>1 DEF ClaimSlot
    <3> QED
      BY <2>4, <3>2 DEF AfterClaim, PublishClaims
  <2> QED
    BY <1>1, <2>2, <2>4, <2>5
<1> QED
  BY <1>2, <1>3, <1>4

----------------------------------------------------------------------------
(* What is on its way is not given up                                       *)

\* Only a cancellation gives up what the gate has passed.
LEMMA GivingUp ==
  ASSUME Typed, Evidence, Staged, NEW a \in Attempt, NEW p \in Service, Change(p, a),
         attempt'[a].state \in GivenUp, attempt[a].gate = "passed"
  PROVE  /\ pc[p] = "cancel" /\ job[p].at = a /\ job[p].run = a[1]
         /\ Owned(a) /\ attempt[a].state \in Early
<1>1. /\ Owned(a) /\ <<pc[p], attempt'[a].state>> \in RecordedAt
      /\ attempt'[a].state \in AllowedFrom[attempt[a].state]
      /\ job[p].at = a /\ pc[p] \in Hosted /\ attempt[a].state \in States
  BY DEF Change, GivenUp, Typed, TypeOK, AuthorityTypeOK, Records
<1>2. attempt'[a].state # "conflicted"
  BY <1>1, RecordsAtStage, GatedIsPrepared DEF Staged
<1>3. attempt'[a].state # "rework-required"
  BY <1>1, RecordsAtStage DEF Evidence
<1>4. attempt'[a].state = "cancelled"
  BY <1>2, <1>3 DEF GivenUp
<1>5. pc[p] = "cancel" /\ attempt[a].state \in Early
  BY <1>1, <1>4, RecordsAtStage, AllowedMeans DEF Early
<1> QED
  BY <1>1, <1>5, HostedHas

LEMMA AtLargeIsKept ==
  ASSUME Safe, Staged, Asking, Carried, NotGivenUp, Next, NEW a \in Attempt, AtLarge(a)'
  PROVE  attempt'[a].state \notin GivenUp
<1> USE DEF Safe, Grounded
<1>1. CASE AtLarge(a)
  <2>1. attempt[a].state \notin GivenUp /\ attempt[a].gate = "passed"
    BY <1>1, AtLargeIsGated DEF NotGivenUp
  <2>2. ASSUME NEW p \in Service, Change(p, a), attempt'[a].state \in GivenUp
        PROVE  FALSE
    <3>1. /\ pc[p] = "cancel" /\ job[p].run = a[1]
          /\ Owned(a) /\ attempt[a].state \in Early
      BY <2>1, <2>2, GivingUp
    <3> QED
      BY <1>1, <3>1 DEF Carried, CarriedBy
  <2> QED
    BY <2>1, <2>2, AttemptSteps
<1>2. CASE ~AtLarge(a)
  <2>1. PICK p \in Service : /\ Step(p) /\ pc[p] \in PublishClaims /\ ctx[p] /\ job[p].at = a
                             /\ pc'[p] # "broken"
    BY <1>2, NewlyAtLarge
  <2>2. /\ HoldsRun(p) /\ job[p].stage = "publish" /\ job[p].mode \notin CancelModes
        /\ pc[p] \in Hosted \ {"commit"}
    BY <2>1, ClaimingHolds DEF PublishClaims, Hosted, Labels
  <2>3. attempt[a].state \notin GivenUp
    BY <2>1, <2>2 DEF NotGivenUp
  <2>4. attempt'[a] = attempt[a] \/ Change(p, a)
    BY <2>1, StepWrites, WritesChange
  <2>5. Change(p, a) => attempt'[a].state = "claimed"
    BY <2>1 DEF Change, PublishClaims, RecordedAt, AfterAdvance
  <2> QED
    BY <2>3, <2>4, <2>5 DEF GivenUp
<1> QED
  BY <1>1, <1>2

LEMMA PublishingIsKept ==
  ASSUME Safe, Staged, Asking, NotGivenUp, Next, NEW p \in Service,
         pc'[p] \in Hosted \ {"commit"}, HoldsRun(p)', job'[p].stage = "publish",
         job'[p].mode \notin CancelModes, NEW a, a = job'[p].at
  PROVE  attempt'[a].state \notin GivenUp
<1> USE DEF Safe, Grounded
<1>1. HoldsRun(p) /\ job'[p].run = job[p].run
  BY StillHolds
<1>2. CASE Plan(p) /\ Plans(p)
  <2>1. attempt' = attempt /\ a \in Attempt /\ "publish" \in Stage
    BY <1>2 DEF Plan, Plans, stored, Stage
  <2>2. effect[a]["publish"].status # "none" /\ a[1] \notin ended
    BY <1>2, <2>1 DEF Plans, Asking, Unsettled, CancelModes
  <2> QED
    BY <2>1, <2>2 DEF Evidence, Staged, Asking, GivenUp
<1>3. CASE pc[p] \in Hosted \ {"commit"} /\ job[p].at = a /\ job[p].stage = "publish"
           /\ job[p].mode \notin CancelModes
  <2>1. a \in Attempt /\ a[1] = job[p].run /\ attempt[a].state \notin GivenUp
    BY <1>1, <1>3, HostedHas DEF NotGivenUp
  <2>2. attempt[a].gate = "passed"
    BY <1>3, <2>1 DEF Evidence, Started
  <2>3. ASSUME NEW q \in Service, Change(q, a), attempt'[a].state \in GivenUp
        PROVE  FALSE
    <3>1. pc[q] = "cancel" /\ job[q].run = a[1]
      BY <2>1, <2>2, <2>3, GivingUp
    <3>2. q # p
      BY <1>3, <3>1 DEF Asking, CancelModes
    <3> QED
      BY <1>1, <1>3, <2>1, <3>1, <3>2 DEF Asking
  <2> QED
    BY <2>1, <2>3, AttemptSteps
<1>4. CASE Stays(p)
  BY <1>3, <1>4 DEF Stays
<1>5. CASE SameEffect(p) /\ Arrives(p) /\ Concludes(p)
  BY <1>3, <1>5 DEF SameEffect, Arrives, Concludes, CancelModes
<1> QED
  BY <1>2, <1>4, <1>5, HostedMove

LEMMA NotGivenUpStep ==
  ASSUME Safe, Staged, Asking, Carried, NotGivenUp, Next
  PROVE  NotGivenUp'
<1>1. \A a \in Attempt : AtLarge(a)' => attempt'[a].state \notin GivenUp
  BY AtLargeIsKept
<1>2. \A p \in Service :
       /\ pc'[p] \in Hosted \ {"commit"} /\ HoldsRun(p)'
       /\ job'[p].stage = "publish" /\ job'[p].mode \notin CancelModes
       => attempt'[job'[p].at].state \notin GivenUp
  BY PublishingIsKept
<1> QED
  BY <1>1, <1>2 DEF NotGivenUp

----------------------------------------------------------------------------
(* Publication, always                                                      *)

Sound == Safe /\ Staged /\ Asking /\ Published

LEMMA SoundInitially ==
  ASSUME Init
  PROVE  Sound
<1>1. Safe
  BY SafeInitially
<1>2. /\ \A p \in Service : pc[p] = "idle" /\ verdict[p] = "none"
      /\ \A a \in Attempt : attempt[a].state = "absent" /\ attempt[a].gate = "none"
      /\ \A a \in Attempt, s \in Stage : effect[a][s].status = "none" /\ ~effect[a][s].asked
      /\ ended = {}
  BY DEF Init, AuthorityInit, Unqueued
<1>3. \A a \in Attempt : ~Moved(a)
  BY <1>1, <1>2 DEF Safe, GatedBeforePublished
<1>4. Staged
  BY <1>2 DEF Staged, Started, Stage, Hosted, Merging
<1>5. Asking
  BY <1>2 DEF Asking, Hosted
<1>6. \A a \in Attempt : ~AtLarge(a)
  BY <1>2, <1>3 DEF AtLarge, AfterFirstClaim
<1>7. Published
  BY <1>2, <1>3, <1>6 DEF Published, Based, Carried, NotGivenUp, Hosted
<1> QED
  BY <1>1, <1>4, <1>5, <1>7 DEF Sound

LEMMA SoundStep ==
  ASSUME Sound, [Next]_vars
  PROVE  Sound'
<1>1. Safe /\ Safe'
  BY SafeStep DEF Sound
<1>2. CASE Next
  <2>1. Typed /\ Typed' /\ Grounded /\ Evidence /\ Ownership /\ Leased
    BY <1>1 DEF Safe, Grounded
  <2>2. Staged' /\ Asking'
    BY <1>2, <2>1, StagedStep, AskingStep DEF Sound
  <2>3. Based' /\ Carried' /\ NotGivenUp'
    BY <1>1, <1>2, <2>1, BasedStep, CarriedStep, NotGivenUpStep DEF Sound, Published
  <2> QED
    BY <1>1, <2>2, <2>3 DEF Sound, Published
<1>3. CASE UNCHANGED vars
  <2> USE <1>3 DEF vars, stored, runner, local, frame
  <2>1. Staged'
    BY DEF Sound, Staged, Started, HoldsRun, Merging
  <2>2. Asking'
    BY DEF Sound, Asking, HoldsRun
  <2>3. Based'
    BY DEF Sound, Published, Based, Moved, Tip
  <2>4. \A a \in Attempt : /\ AtLarge(a)' <=> AtLarge(a)
                           /\ Owned(a)' <=> Owned(a)
                           /\ \A p : CarriedBy(p, a)' <=> CarriedBy(p, a)
    BY DEF AtLarge, Moved, Owned, Fenced, CarriedBy
  <2>5. Carried'
    BY <2>4 DEF Sound, Published, Carried
  <2>6. NotGivenUp'
    BY <2>4 DEF Sound, Published, NotGivenUp, HoldsRun
  <2> QED
    BY <1>1, <2>1, <2>2, <2>3, <2>5, <2>6 DEF Sound, Published
<1> QED
  BY <1>2, <1>3

\* What is at large is carried or out of reach of a cancellation.
THEOREM SoundAlways == Spec => []Sound
<1>1. Init => Sound
  BY SoundInitially
<1>2. Sound /\ [Next]_vars => Sound'
  BY SoundStep
<1> QED
  BY <1>1, <1>2, PTL DEF Spec

----------------------------------------------------------------------------
(* The ledger                                                               *)

Accepted == {a \in Attempt : attempt[a].barrier}
Dropped == {a \in Attempt : attempt[a].state \in GivenUp}

\* The ledger's words for sequences are these.
LEMMA LedgerReads ==
  /\ \A a : Ledger!On(a) <=> Moved(a)
  /\ Ledger!Last(branch) = Tip
BY DEF Ledger!On, Ledger!Range, Ledger!Last, Moved, Range, Tip

\* What was given up stays so.
LEMMA DroppedStays ==
  ASSUME Sound, Next, NEW a \in Attempt, attempt[a].state \in GivenUp
  PROVE  attempt'[a].state \in GivenUp
<1> USE DEF Sound, Safe, Grounded
<1> SUFFICES ASSUME NEW p \in Service, Change(p, a)
             PROVE  FALSE
  BY AttemptSteps
<1>1. pc[p] \in DOMAIN AfterClaim /\ ctx[p] /\ job[p].at = a /\ pc[p] \in Hosted
  <2>1. attempt[a].state \in States
    BY DEF Typed, TypeOK, AuthorityTypeOK, Records
  <2>2. ~(attempt'[a].state \in AllowedFrom[attempt[a].state])
    BY <2>1, AllowedMeans DEF GivenUp
  <2> QED
    BY <2>2 DEF Change, GivenUp
<1>2. HoldsRun(p)
  BY <1>1 DEF Leased
<1>3. pc[p] # "claim-prepare"
  BY <1>1, <1>2 DEF Staged, GivenUp
<1>4. pc[p] \in PublishClaims /\ pc[p] \in Hosted \ {"commit"}
  BY <1>1, <1>3 DEF AfterClaim, PublishClaims
<1>5. job[p].stage = "publish" /\ job[p].mode \notin CancelModes
  BY <1>1, <1>4, ClaimingHolds
<1> QED
  BY <1>1, <1>2, <1>4, <1>5 DEF Published, NotGivenUp

\* Service p's step on an attempt accepts it, drops it, or neither.
LEMMA RecordsKeepTheLedger ==
  ASSUME Sound, Next, UNCHANGED <<branch, base>>
  PROVE  Ledger!Next \/ UNCHANGED <<base, branch, Accepted, Dropped>>
<1> USE DEF Sound, Safe, Grounded
<1>1. CASE attempt' = attempt
  BY <1>1 DEF Accepted, Dropped
<1>2. ASSUME NEW p \in Service, Writes(p), NEW a \in Attempt, Change(p, a)
      PROVE  Ledger!Next \/ UNCHANGED <<base, branch, Accepted, Dropped>>
  <2>1. \A b \in Attempt \ {a} : attempt'[b] = attempt[b]
    BY <1>2, WritesChange DEF Change
  <2>2. /\ \A b \in Attempt \ {a} : /\ attempt'[b].barrier = attempt[b].barrier
                                    /\ attempt'[b].state = attempt[b].state
        /\ attempt[a].barrier \in BOOLEAN
    BY <2>1 DEF Typed, TypeOK, AuthorityTypeOK, Records
  <2>3. CASE attempt'[a].barrier = attempt[a].barrier
    <3>1. Accepted' = Accepted
      BY <2>2, <2>3 DEF Accepted
    <3>2. CASE (attempt'[a].state \in GivenUp) = (attempt[a].state \in GivenUp)
      <4>1. Dropped' = Dropped
        BY <2>2, <3>2 DEF Dropped
      <4> QED
        BY <3>1, <4>1
    <3>3. CASE attempt'[a].state \in GivenUp /\ attempt[a].state \notin GivenUp
      <4>1. Dropped' = Dropped \cup {a}
        BY <2>2, <3>3 DEF Dropped
      <4>2. ~AtLarge(a)'
        BY <3>3, AtLargeIsKept DEF Published
      <4>3. ~Moved(a)
        BY <4>2 DEF AtLarge, Moved
      <4>4. Ledger!Drop(a)
        BY <3>1, <4>1, <4>3, LedgerReads DEF Ledger!Drop, Accepted, Dropped
      <4> QED
        BY <4>4 DEF Ledger!Next
    <3> QED
      BY <3>2, <3>3, DroppedStays
  <2>4. CASE attempt'[a].barrier # attempt[a].barrier
    <3>1. /\ pc[p] = "barrier" /\ job[p].at = a /\ pc[p] \in Hosted
          /\ attempt[a].state \in {"published", "barrier-recorded"}
          /\ attempt'[a].state = "barrier-recorded" /\ attempt'[a].barrier
      BY <1>2, <2>4 DEF Change
    <3>2. Accepted' = Accepted \cup {a}
      BY <2>2, <3>1 DEF Accepted
    <3>3. Dropped' = Dropped
      BY <2>2, <3>1 DEF Dropped, GivenUp
    <3>4. Moved(a)
      BY <3>1 DEF Trusting, Typed, LocalOK, Fits
    <3>5. Ledger!Accept(a)
      BY <3>2, <3>3, <3>4, LedgerReads DEF Ledger!Accept, Accepted, Dropped
    <3> QED
      BY <3>5 DEF Ledger!Next
  <2> QED
    BY <2>3, <2>4
<1>3. ASSUME NEW p \in Service, Writes(p), \A a \in Attempt : ~Change(p, a)
      PROVE  attempt' = attempt
  <2>1. attempt \in [Attempt -> Records] /\ attempt' \in [Attempt -> Records]
    BY GroundedStep DEF Typed, TypeOK, AuthorityTypeOK
  <2> QED
    BY <1>3, <2>1, WritesChange
<1> QED
  BY <1>1, <1>2, <1>3, NextWrites DEF OthersWrite

LEMMA LedgerStep ==
  ASSUME Sound, Next
  PROVE  Ledger!Next \/ UNCHANGED <<base, branch, Accepted, Dropped>>
<1> USE DEF Sound, Safe, Grounded
<1>1. CASE UNCHANGED <<branch, base>>
  BY <1>1, RecordsKeepTheLedger
<1>2. ASSUME NEW r \in Run, Register(r), branch' = branch
      PROVE  Ledger!Next
  <2>1. attempt' = attempt
    BY <1>2 DEF Register, stored
  <2>2. Ledger!Begin(r)
    BY <1>2, <2>1, LedgerReads DEF Ledger!Begin, Register, Accepted, Dropped
  <2> QED
    BY <2>2 DEF Ledger!Next
<1>3. ASSUME NEW p \in Service, pc[p] = "move", branch' = Append(branch, job[p].at),
             job[p].at \in Attempt, Tip = base[job[p].at[1]], UNCHANGED <<stored, base>>
      PROVE  Ledger!Next
  <2> DEFINE a == job[p].at
  <2>1. a \notin Dropped
    BY <1>3 DEF Published, NotGivenUp, AtLarge, AfterFirstClaim, Dropped
  <2>2. \A b \in Attempt : b[1] = a[1] => ~Moved(b)
    BY <1>3 DEF Published, Based
  <2>3. attempt' = attempt
    BY <1>3 DEF stored
  <2>4. Ledger!Integrate(a)
    BY <1>3, <2>1, <2>2, <2>3, LedgerReads DEF Ledger!Integrate, Ledger!Siblings, Accepted, Dropped
  <2> QED
    BY <1>3, <2>4 DEF Ledger!Next
<1> QED
  BY <1>1, <1>2, <1>3, BranchSteps, BaseSteps

\* Worktree integration implements the ledger of the branch: a run's work
\* enters it at most once, onto the revision the run began from, is accepted
\* after that, and never after it was cancelled, in conflict or sent to
\* rework.
THEOREM IntegrationKeepsTheLedger == Spec => LedgerSpec
<1>1. Init => Ledger!Init
  <2> SUFFICES ASSUME Init
               PROVE  Ledger!Init
    OBVIOUS
  <2>1. \A a \in Attempt : attempt[a].state = "absent" /\ attempt[a].gate = "none"
                           /\ attempt[a].barrier = FALSE
    BY DEF Init, AuthorityInit
  <2>2. \A a \in Attempt : ~Moved(a)
    BY <2>1, SafeInitially DEF Safe, GatedBeforePublished
  <2>3. Accepted = {} /\ Dropped = {}
    BY <2>1 DEF Accepted, Dropped, GivenUp
  <2>4. branch = <<Origin>> /\ base = [r \in Run |-> NoAttempt]
    BY DEF Init
  <2> QED
    BY <2>2, <2>3, <2>4, LedgerReads DEF Ledger!Init, Accepted, Dropped
<1>2. Sound /\ [Next]_vars => [Ledger!Next]_<<base, branch, Accepted, Dropped>>
  <2>1. ASSUME Sound, Next
        PROVE  Ledger!Next \/ UNCHANGED <<base, branch, Accepted, Dropped>>
    BY <2>1, LedgerStep
  <2>2. ASSUME UNCHANGED vars
        PROVE  UNCHANGED <<base, branch, Accepted, Dropped>>
    BY <2>2 DEF vars, stored, Accepted, Dropped
  <2> QED
    BY <2>1, <2>2
<1>3. Sound /\ [Next]_vars =>
        [Ledger!Next]_<<base, branch, {a \in Attempt : attempt[a].barrier},
                        {a \in Attempt : attempt[a].state \in GivenUp}>>
  BY <1>2 DEF Accepted, Dropped
<1> QED
  BY <1>1, <1>3, SoundAlways, PTL DEF Spec, LedgerSpec, Ledger!Spec

----------------------------------------------------------------------------
(* What else follows                                                        *)

\* Work that is on the branch is never recorded as conflicted, to be reworked
\* or cancelled, whoever cancels while its publication is under way
\* (durable-workspace-effect-host.ts, cancel, inspect and #advanceToPublishing).
THEOREM GivenUpWorkStaysOff ==
  Spec => [](\A a \in Attempt : a \in Range(branch) => attempt[a].state \notin GivenUp)
<1>1. Sound => \A a \in Attempt : a \in Range(branch) => attempt[a].state \notin GivenUp
  BY DEF Sound, Published, NotGivenUp, AtLarge, Moved
<1> QED
  BY <1>1, SoundAlways, PTL
=============================================================================
