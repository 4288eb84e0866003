--------------------------- MODULE IntegrationTypes ---------------------------
(***************************************************************************)
(* Type correctness of the integration, for any runs, services, attempts   *)
(* and faults, and what a step may write.  The invariant says more of a    *)
(* service than its types: at each label of a host call it has an attempt  *)
(* of the run it drives, the stage the label belongs to, and a verdict     *)
(* that can have brought it there.                                         *)
(***************************************************************************)
EXTENDS Integration, SequenceTheorems, TLAPS

----------------------------------------------------------------------------
(* Where a service is                                                       *)

PrepareLabels == {"intend", "claim-prepare", "merge", "conflicted"}
ValidateLabels == {"validate", "evaluate", "rework"}
PublishLabels ==
  {"claim-check", "mark", "claim-again", "advance-again", "look", "claim-final",
   "advance-final", "move", "recheck", "advance-settle", "record", "trust", "barrier",
   "claim-found", "advance-found", "found"}

\* What job and which verdict a service can have at a label.
Fits(l, j, v) ==
  /\ l \notin {"idle", "dead"} => j.run \in Run
  /\ l \notin {"idle", "dead", "plan"} => j.at \in Attempt /\ j.at[1] = j.run
  /\ l \in PrepareLabels => j.stage = "prepare"
  /\ l \in ValidateLabels => j.stage = "validate"
  /\ l \in PublishLabels => j.stage = "publish"
  /\ l = "commit" => v \notin {"none", "refused", "interrupted"}
  /\ l = "conflicted" => v = "conflict"
  /\ l = "rework" => v = "failed"
  /\ l = "recheck" => v \in {"refused", "interrupted"}
  /\ l \in {"advance-settle", "record"} => v \in {"new", "other"}
  /\ l \in {"trust", "barrier"} => v = "new"

LocalOK ==
  /\ pc \in [Service -> Labels] /\ job \in [Service -> Jobs] /\ ctx \in [Service -> BOOLEAN]
  /\ held \in [Service -> Fences] /\ verdict \in [Service -> Verdicts]
  /\ \A p \in Service : Fits(pc[p], job[p], verdict[p])

Typed == TypeOK /\ LocalOK

LEMMA GotoLocal ==
  ASSUME LocalOK, NEW p \in Service, NEW l \in Labels, Goto(p, l),
         Fits(l, job[p], verdict[p])
  PROVE  LocalOK'
BY DEF LocalOK, Goto, frame, Fits

LEMMA ConcludeLocal ==
  ASSUME LocalOK, NEW p \in Service, NEW l \in Labels, NEW v \in Verdicts, Conclude(p, v, l),
         Fits(l, job[p], v)
  PROVE  LocalOK'
BY DEF LocalOK, Conclude, Fits

LEMMA LeaveLocal ==
  ASSUME LocalOK, NEW p \in Service, NEW l \in {"idle", "dead"}, Leave(p, l)
  PROVE  LocalOK'
<1>1. NoJob \in Jobs /\ NoOne \in Fences /\ "none" \in Verdicts /\ l \in Labels
  BY DEF NoJob, Jobs, NoOne, Fences, Verdicts, Labels, Stage, Modes
<1>2. Fits(l, NoJob, "none")
  BY DEF Fits, PrepareLabels, ValidateLabels, PublishLabels
<1> QED
  BY <1>1, <1>2 DEF LocalOK, Leave, Fits

LEMMA RecordLocal ==
  ASSUME LocalOK, NEW p \in Service, NEW a, NEW o, NEW f, NEW state, NEW l \in Labels,
         Record(p, a, o, f, state, l),
         Fenced(a, o, f) /\ Allowed(a, state) => Fits(l, job[p], verdict[p]),
         pc[p] \notin {"idle", "dead", "plan"}
  PROVE  LocalOK'
<1>1. "broken" \in Labels /\ Fits("broken", job[p], verdict[p])
  BY DEF Labels, LocalOK, Fits, PrepareLabels, ValidateLabels, PublishLabels
<1> QED
  BY <1>1, GotoLocal, LeaveLocal DEF Record, Quit

\* A step that replaces one service's place, job, context and verdict.
LEMMA ReplaceLocal ==
  ASSUME LocalOK, NEW p \in Service, NEW l \in Labels, NEW j \in Jobs, NEW c \in BOOLEAN,
         NEW h \in Fences, NEW v \in Verdicts, Fits(l, j, v),
         pc' = [pc EXCEPT ![p] = l], job' = [job EXCEPT ![p] = j], ctx' = [ctx EXCEPT ![p] = c],
         held' = [held EXCEPT ![p] = h], verdict' = [verdict EXCEPT ![p] = v]
  PROVE  LocalOK'
BY DEF LocalOK, Fits

\* The labels after a claim and after an advance belong to the same stage.
LEMMA AfterClaimFits ==
  ASSUME NEW l \in DOMAIN AfterClaim, NEW j, NEW v, NEW w, Fits(l, j, v)
  PROVE  AfterClaim[l] \in Labels /\ Fits(AfterClaim[l], j, w)
BY DEF AfterClaim, Labels, Fits, PrepareLabels, ValidateLabels, PublishLabels

LEMMA AfterAdvanceFits ==
  ASSUME NEW l \in DOMAIN AfterAdvance, NEW j, NEW v, Fits(l, j, v)
  PROVE  l \in Labels /\ AfterAdvance[l] \in Labels /\ Fits(AfterAdvance[l], j, v)
         /\ l \notin {"idle", "dead", "plan"}
BY DEF AfterAdvance, Labels, Fits, PrepareLabels, ValidateLabels, PublishLabels

LEMMA BrokenFits ==
  ASSUME NEW l \in Labels \ {"idle", "dead", "plan"}, NEW j, NEW v, NEW w, Fits(l, j, v)
  PROVE  "broken" \in Labels /\ Fits("broken", j, w)
BY DEF Labels, Fits, PrepareLabels, ValidateLabels, PublishLabels

LEMMA RunnerLocal ==
  ASSUME Typed, NEW p \in Service, Plan(p) \/ CommitEffect(p) \/ Broken(p)
  PROVE  LocalOK'
<1> DEFINE j == job[p]
<1>1. /\ j \in Jobs /\ ctx[p] \in BOOLEAN /\ held[p] \in Fences /\ verdict[p] \in Verdicts
      /\ Fits(pc[p], j, verdict[p]) /\ LocalOK
  BY DEF Typed, LocalOK
<1>2. CASE Plan(p) /\ ~HoldsRun(p)
  BY <1>1, <1>2, LeaveLocal DEF Plan, Quit
<1>3. CASE Plan(p) /\ HoldsRun(p)
  <2>1. PICK e \in Workable(effect, j.run) :
          LET rec == effect[e[1]][e[2]]
              choice == Chosen(rec)
          IN /\ job' = [job EXCEPT ![p] = [run |-> job[p].run, at |-> e[1], stage |-> e[2],
                       mode |-> IF choice = "settle" THEN "inspect" ELSE choice]]
             /\ ctx' = [ctx EXCEPT ![p] = TRUE]
             /\ pc' = [pc EXCEPT ![p] =
                  CASE choice = "dispatch" -> Entry(e[2])
                    [] choice = "settle" -> "commit"
                    [] OTHER -> choice]
             /\ verdict' = [verdict EXCEPT ![p] =
                  IF choice # "settle" THEN "none"
                  ELSE IF rec.status = "open" THEN "cancelled" ELSE "failed"]
             /\ UNCHANGED held
    BY <1>3 DEF Plan
  <2> DEFINE rec == effect[e[1]][e[2]]
             choice == Chosen(rec)
             k == [run |-> job[p].run, at |-> e[1], stage |-> e[2],
                   mode |-> IF choice = "settle" THEN "inspect" ELSE choice]
             l == CASE choice = "dispatch" -> Entry(e[2])
                    [] choice = "settle" -> "commit"
                    [] OTHER -> choice
             v == IF choice # "settle" THEN "none"
                  ELSE IF rec.status = "open" THEN "cancelled" ELSE "failed"
  <2>2. e[1] \in Attempt /\ e[2] \in Stage /\ e[1][1] = j.run /\ j.run \in Run
    BY <1>1, <1>3 DEF Workable, Plan, Fits
  <2>3. choice \in {"dispatch", "settle", "inspect", "cancel"}
    BY DEF Chosen
  <2>4. k \in Jobs
    BY <2>2, <2>3 DEF Jobs, Modes
  <2>5. l \in Labels /\ v \in Verdicts /\ Fits(l, k, v)
    <3>1. CASE choice = "dispatch"
      BY <2>2, <3>1 DEF Entry, Stage, Labels, Verdicts, Fits, PrepareLabels, ValidateLabels,
         PublishLabels
    <3>2. CASE choice = "settle"
      BY <2>2, <3>2 DEF Labels, Verdicts, Fits, PrepareLabels, ValidateLabels, PublishLabels
    <3>3. CASE choice \in {"inspect", "cancel"}
      BY <2>2, <3>3 DEF Labels, Verdicts, Fits, PrepareLabels, ValidateLabels, PublishLabels
    <3> QED
      BY <2>3, <3>1, <3>2, <3>3
  <2>6. /\ pc' = [pc EXCEPT ![p] = l] /\ job' = [job EXCEPT ![p] = k]
        /\ verdict' = [verdict EXCEPT ![p] = v] /\ ctx' = [ctx EXCEPT ![p] = TRUE]
        /\ held' = [held EXCEPT ![p] = held[p]]
    BY <1>1, <2>1 DEF LocalOK
  <2> HIDE DEF k, l, v
  <2> QED
    BY <1>1, <2>4, <2>5, <2>6, ReplaceLocal
<1>4. CASE CommitEffect(p)
  BY <1>1, <1>4, LeaveLocal DEF CommitEffect, Quit
<1>5. CASE Broken(p)
  <2>1. pc[p] = "broken"
    BY <1>5 DEF Broken
  <2>2. CASE j.mode \notin {"dispatch", "cancel"}
    <3>1. /\ "commit" \in Labels /\ "unknown" \in Verdicts /\ Conclude(p, "unknown", "commit")
          /\ Fits("commit", j, "unknown")
      BY <1>1, <1>5, <2>1, <2>2
         DEF Broken, Labels, Verdicts, Fits, PrepareLabels, ValidateLabels, PublishLabels
    <3> QED
      BY <1>1, <3>1, ConcludeLocal
  <2>3. CASE j.mode \in {"dispatch", "cancel"} /\ ~HoldsRun(p)
    BY <1>1, <1>5, <2>3, LeaveLocal DEF Broken, Quit
  <2>4. CASE j.mode \in {"dispatch", "cancel"} /\ HoldsRun(p)
    <3> DEFINE k == [j EXCEPT !.mode = IF @ = "cancel" THEN "lost-cancel" ELSE "lost"]
    <3>1. /\ pc' = [pc EXCEPT ![p] = "inspect"] /\ job' = [job EXCEPT ![p] = k]
          /\ ctx' = [ctx EXCEPT ![p] = TRUE]
          /\ held' = [held EXCEPT ![p] = held[p]] /\ verdict' = [verdict EXCEPT ![p] = verdict[p]]
      BY <1>1, <1>5, <2>4 DEF Broken, LocalOK
    <3>2. k \in Jobs /\ "inspect" \in Labels /\ Fits("inspect", k, verdict[p])
      BY <1>1, <2>1 DEF Jobs, Modes, Labels, Fits, PrepareLabels, ValidateLabels, PublishLabels
    <3> HIDE DEF k
    <3> QED
      BY <1>1, <3>1, <3>2, ReplaceLocal
  <2> QED
    BY <2>2, <2>3, <2>4
<1> QED
  BY <1>2, <1>3, <1>4, <1>5

LEMMA ClaimLocal ==
  ASSUME Typed, NEW p \in Service, ClaimSlot(p) \/ Advance(p)
  PROVE  LocalOK'
<1>1. /\ LocalOK /\ pc[p] \in Labels /\ Fits(pc[p], job[p], verdict[p])
      /\ job[p] \in Jobs /\ ctx[p] \in BOOLEAN /\ held[p] \in Fences /\ verdict[p] \in Verdicts
  BY DEF Typed, LocalOK
<1>2. CASE ClaimSlot(p)
  <2> DEFINE l == AfterClaim[pc[p]]
  <2>1. pc[p] \in DOMAIN AfterClaim /\ pc[p] \notin {"idle", "dead", "plan"}
    BY <1>2 DEF ClaimSlot, AfterClaim
  <2>2. l \in Labels /\ Fits(l, job[p], verdict[p])
    BY <1>1, <2>1, AfterClaimFits
  <2>3. "broken" \in Labels /\ Fits("broken", job[p], verdict[p])
    BY <1>1, <2>1, BrokenFits
  <2>4. CASE ctx[p] /\ (Replays(p, job[p].at) \/ MayClaim(p, job[p].at))
    <3> DEFINE h == held'[p]
    <3>1. \E f \in Nat : held' = [held EXCEPT ![p] = [owner |-> p, fence |-> f]]
      <4>1. CASE Replays(p, job[p].at)
        <5>1. attempt[job[p].at].fence = slot.fence /\ slot.fence \in Nat
          BY <4>1 DEF Replays, Typed, TypeOK, AuthorityTypeOK, Slots
        <5> QED
          BY <1>2, <2>4, <4>1, <5>1 DEF ClaimSlot
      <4>2. CASE ~Replays(p, job[p].at)
        <5>1. slot' = [owner |-> p, fence |-> IF slot.live THEN slot.fence ELSE slot.fence + 1,
                       live |-> TRUE]
              /\ held' = [held EXCEPT ![p] = [owner |-> p, fence |-> slot'.fence]]
          BY <1>2, <2>4, <4>2 DEF ClaimSlot, Claim
        <5>2. slot.fence \in Nat
          BY DEF Typed, TypeOK, AuthorityTypeOK, Slots
        <5>3. slot'.fence \in Nat
          BY <5>1, <5>2
        <5> QED
          BY <5>1, <5>3
      <4> QED
        BY <4>1, <4>2
    <3>2. PICK f \in Nat : held' = [held EXCEPT ![p] = [owner |-> p, fence |-> f]]
      BY <3>1
    <3>3. /\ pc' = [pc EXCEPT ![p] = l] /\ job' = [job EXCEPT ![p] = job[p]]
          /\ ctx' = [ctx EXCEPT ![p] = ctx[p]] /\ verdict' = [verdict EXCEPT ![p] = verdict[p]]
      BY <1>1, <1>2, <2>4 DEF ClaimSlot, LocalOK
    <3>4. [owner |-> p, fence |-> f] \in Fences
      BY DEF Fences
    <3> HIDE DEF l
    <3> QED
      BY <1>1, <2>2, <3>2, <3>3, <3>4, ReplaceLocal
  <2>5. CASE ~(ctx[p] /\ (Replays(p, job[p].at) \/ MayClaim(p, job[p].at)))
    <3>1. Goto(p, "broken")
      BY <1>2, <2>5 DEF ClaimSlot
    <3> QED
      BY <1>1, <2>3, <3>1, GotoLocal
  <2> QED
    BY <2>4, <2>5
<1>3. CASE Advance(p)
  <2>1. pc[p] \in DOMAIN AfterAdvance
    BY <1>3 DEF Advance
  <2>2. /\ AfterAdvance[pc[p]] \in Labels /\ Fits(AfterAdvance[pc[p]], job[p], verdict[p])
        /\ pc[p] \notin {"idle", "dead", "plan"}
    BY <1>1, <2>1, AfterAdvanceFits
  <2>3. CASE attempt[job[p].at].state \in {"claimed", "candidate-created"}
    <3>1. \E state : RecordHeld(p, state, pc[p])
      BY <1>3, <2>3 DEF Advance
    <3> QED
      BY <1>1, <2>2, <3>1, RecordLocal DEF RecordHeld
  <2>4. CASE attempt[job[p].at].state = "validating"
    <3>1. RecordHeld(p, "publishing", AfterAdvance[pc[p]])
      BY <1>3, <2>4 DEF Advance
    <3> QED
      BY <1>1, <2>2, <3>1, RecordLocal DEF RecordHeld
  <2>5. CASE attempt[job[p].at].state \notin {"claimed", "candidate-created", "validating"}
    <3>1. Goto(p, AfterAdvance[pc[p]])
      BY <1>3, <2>5 DEF Advance
    <3> QED
      BY <1>1, <2>2, <3>1, GotoLocal
  <2> QED
    BY <2>3, <2>4, <2>5
<1> QED
  BY <1>2, <1>3

\* A record under the fence a service goes by leaves it at its label or
\* broken, or out of its cycle.
LEMMA RecordHeldLocal ==
  ASSUME LocalOK, NEW p \in Service, NEW state, NEW l \in Labels, RecordHeld(p, state, l),
         Fits(l, job[p], verdict[p]), pc[p] \notin {"idle", "dead", "plan"}
  PROVE  LocalOK'
BY RecordLocal DEF RecordHeld

LEMMA PrepareLocal ==
  ASSUME Typed, NEW p \in Service, Intend(p) \/ MergeFails(p) \/ RecordCandidate(p)
  PROVE  LocalOK'
<1> USE DEF Labels, Verdicts, Fits, PrepareLabels, ValidateLabels, PublishLabels
<1>1. LocalOK /\ Fits(pc[p], job[p], verdict[p])
  BY DEF Typed, LocalOK
<1>2. CASE Intend(p)
  BY <1>1, <1>2, GotoLocal DEF Intend
<1>3. CASE MergeFails(p)
  BY <1>1, <1>3, GotoLocal DEF MergeFails
<1>4. CASE RecordCandidate(p)
  <2>1. CASE pc[p] = "conflicted" /\ RecordHeld(p, "conflicted", "commit")
    BY <1>1, <2>1, RecordHeldLocal
  <2>2. ASSUME NEW what \in {"candidate", "conflict"}, NEW l \in {"commit", "conflicted"},
               pc[p] = "merge", RecordOutcome(p, "candidate-created", what, l),
               l = "conflicted" => what = "conflict"
        PROVE  LocalOK'
    <3> DEFINE fits == /\ Fenced(job[p].at, held[p].owner, held[p].fence)
                       /\ Allowed(job[p].at, "candidate-created")
    <3>1. CASE fits
      <4>1. Conclude(p, what, l)
        BY <2>2, <3>1 DEF RecordOutcome, RecordHeld, Record
      <4> QED
        BY <1>1, <2>2, <4>1, ConcludeLocal
    <3>2. CASE ~fits
      <4>1. Goto(p, "broken") \/ Leave(p, "idle")
        BY <2>2, <3>2 DEF RecordOutcome, RecordHeld, Record, Quit
      <4> QED
        BY <1>1, <2>2, <4>1, GotoLocal, LeaveLocal
    <3> QED
      BY <3>1, <3>2
  <2> QED
    BY <1>4, <2>1, <2>2 DEF RecordCandidate
<1> QED
  BY <1>2, <1>3, <1>4

LEMMA ValidateLocal ==
  ASSUME Typed, NEW p \in Service, Validate(p) \/ EvaluationFails(p) \/ RecordDecision(p)
  PROVE  LocalOK'
<1> USE DEF Labels, Verdicts, Fits, PrepareLabels, ValidateLabels, PublishLabels
<1>1. /\ LocalOK /\ Fits(pc[p], job[p], verdict[p])
      /\ job[p] \in Jobs /\ ctx[p] \in BOOLEAN /\ verdict[p] \in Verdicts
  BY DEF Typed, LocalOK
<1>2. CASE Validate(p)
  <2> DEFINE h == [owner |-> attempt[job[p].at].owner, fence |-> attempt[job[p].at].fence]
  <2>1. pc[p] = "validate" /\ job[p].at \in Attempt
    BY <1>1, <1>2 DEF Validate
  <2>2. h \in Fences
    BY <2>1 DEF Typed, TypeOK, AuthorityTypeOK, Records, Fences
  <2>3. CASE Quit(p)
    BY <1>1, <2>3, LeaveLocal DEF Quit
  <2>4. CASE /\ held' = [held EXCEPT ![p] = h] /\ pc' = [pc EXCEPT ![p] = "evaluate"]
             /\ UNCHANGED <<job, ctx, verdict>>
    <3>1. /\ job' = [job EXCEPT ![p] = job[p]] /\ ctx' = [ctx EXCEPT ![p] = ctx[p]]
          /\ verdict' = [verdict EXCEPT ![p] = verdict[p]]
          /\ held' = [held EXCEPT ![p] = h] /\ pc' = [pc EXCEPT ![p] = "evaluate"]
      BY <1>1, <2>4 DEF LocalOK
    <3>2. "evaluate" \in Labels /\ Fits("evaluate", job[p], verdict[p])
      BY <1>1, <2>1
    <3> HIDE DEF h, Labels, Verdicts, Fits
    <3> QED
      BY <1>1, <2>2, <3>1, <3>2, ReplaceLocal
  <2> QED
    BY <1>2, <2>3, <2>4 DEF Validate
<1>3. CASE EvaluationFails(p)
  BY <1>1, <1>3, GotoLocal DEF EvaluationFails
<1>4. CASE RecordDecision(p)
  <2>1. \/ pc[p] = "evaluate" /\ Conclude(p, "failed", "rework")
        \/ pc[p] = "evaluate" /\ Conclude(p, "passed", "commit")
        \/ pc[p] = "evaluate" /\ Goto(p, "broken")
        \/ pc[p] = "evaluate" /\ Leave(p, "idle")
        \/ pc[p] = "rework" /\ RecordHeld(p, "rework-required", "commit")
    BY <1>4 DEF RecordDecision, Quit
  <2> QED
    BY <1>1, <2>1, ConcludeLocal, GotoLocal, LeaveLocal, RecordHeldLocal
<1> QED
  BY <1>2, <1>3, <1>4

LEMMA PublishLocal ==
  ASSUME Typed, NEW p \in Service, Mark(p) \/ Look(p) \/ Move(p) \/ Recheck(p)
  PROVE  LocalOK'
<1> USE DEF Labels, Verdicts, Fits, PrepareLabels, ValidateLabels, PublishLabels
<1>1. LocalOK /\ Fits(pc[p], job[p], verdict[p])
  BY DEF Typed, LocalOK
<1>2. CASE Mark(p)
  <2>1. /\ pc[p] = "mark"
        /\ Goto(p, "broken") \/ Goto(p, "claim-again") \/ RecordHeld(p, "publishing", "claim-again")
    BY <1>2 DEF Mark
  <2> QED
    BY <1>1, <2>1, GotoLocal, RecordHeldLocal
<1>3. AfterVerdict(p) \in {"record", "advance-settle"}
  BY DEF AfterVerdict
<1>4. Standing(job[p].at) \in {"old", "new", "other"}
  BY DEF Standing
<1>5. CASE Look(p)
  <2>1. /\ pc[p] \in {"look", "found"}
        /\ \/ Goto(p, "claim-final") \/ Goto(p, "claim-again") \/ Goto(p, "broken")
           \/ Conclude(p, "new", AfterVerdict(p)) \/ Conclude(p, "other", AfterVerdict(p))
    BY <1>4, <1>5 DEF Look
  <2> QED
    BY <1>1, <1>3, <2>1, GotoLocal, ConcludeLocal
<1>6. CASE Move(p)
  <2>1. /\ pc[p] = "move"
        /\ \/ Conclude(p, "new", AfterVerdict(p))
           \/ Conclude(p, "interrupted", "recheck") \/ Conclude(p, "refused", "recheck")
    BY <1>6 DEF Move
  <2> QED
    BY <1>1, <1>3, <2>1, ConcludeLocal
<1>7. CASE Recheck(p)
  <2>1. /\ pc[p] = "recheck"
        /\ \/ Conclude(p, "new", AfterVerdict(p)) \/ Conclude(p, "other", AfterVerdict(p))
           \/ Goto(p, "broken")
    BY <1>7 DEF Recheck
  <2> QED
    BY <1>1, <1>3, <2>1, GotoLocal, ConcludeLocal
<1> QED
  BY <1>2, <1>5, <1>6, <1>7

LEMMA BarrierLocal ==
  ASSUME Typed, NEW p \in Service, RecordPublication(p) \/ TrustBarrier(p) \/ Barrier(p)
  PROVE  LocalOK'
<1> USE DEF Labels, Verdicts, Fits, PrepareLabels, ValidateLabels, PublishLabels
<1>1. LocalOK /\ Fits(pc[p], job[p], verdict[p])
  BY DEF Typed, LocalOK
<1>2. CASE RecordPublication(p)
  <2>1. /\ pc[p] = "record"
        /\ \/ verdict[p] = "new" /\ Goto(p, "trust")
           \/ verdict[p] = "new" /\ RecordHeld(p, "published", "trust")
           \/ RecordHeld(p, "target-moved", "commit")
    BY <1>2 DEF RecordPublication
  <2> QED
    BY <1>1, <2>1, GotoLocal, RecordHeldLocal
<1>3. CASE TrustBarrier(p)
  <2>1. /\ pc[p] = "trust"
        /\ Goto(p, "barrier") \/ RecordHeld(p, "target-moved", "broken")
    BY <1>3 DEF TrustBarrier
  <2> QED
    BY <1>1, <2>1, GotoLocal, RecordHeldLocal
<1>4. CASE Barrier(p)
  <2>1. /\ pc[p] = "barrier"
        /\ Goto(p, "commit") \/ Goto(p, "broken") \/ Leave(p, "idle")
    BY <1>4 DEF Barrier, Quit
  <2> QED
    BY <1>1, <2>1, GotoLocal, LeaveLocal
<1> QED
  BY <1>2, <1>3, <1>4

LEMMA AskLocal ==
  ASSUME Typed, NEW p \in Service, Inspect(p) \/ Cancel(p)
  PROVE  LocalOK'
<1> USE DEF Labels, Verdicts, Fits, PrepareLabels, ValidateLabels, PublishLabels
<1>1. /\ LocalOK /\ Fits(pc[p], job[p], verdict[p])
      /\ job[p] \in Jobs /\ ctx[p] \in BOOLEAN /\ held[p] \in Fences /\ verdict[p] \in Verdicts
  BY DEF Typed, LocalOK
<1>2. CASE Inspect(p)
  <2> DEFINE k == [job[p] EXCEPT !.mode = "dispatch"]
             l == Entry(job[p].stage)
  <2>1. CASE Goto(p, "claim-found") /\ job[p].stage = "publish"
    <3>1. pc[p] = "inspect"
      BY <1>2 DEF Inspect
    <3> QED
      BY <1>1, <2>1, <3>1, GotoLocal
  <2>2. CASE \E v \in {"unknown", "completed", "cancelled", "active"} : Conclude(p, v, "commit")
    <3>1. pc[p] = "inspect"
      BY <1>2 DEF Inspect
    <3> QED
      BY <1>1, <2>2, <3>1, ConcludeLocal
  <2>3. CASE job' = [job EXCEPT ![p].mode = "dispatch"] /\ pc' = [pc EXCEPT ![p] = l]
             /\ UNCHANGED <<ctx, held, verdict>>
    <3>1. pc[p] = "inspect"
      BY <1>2 DEF Inspect
    <3>2. /\ job' = [job EXCEPT ![p] = k] /\ ctx' = [ctx EXCEPT ![p] = ctx[p]]
          /\ verdict' = [verdict EXCEPT ![p] = verdict[p]]
          /\ held' = [held EXCEPT ![p] = held[p]] /\ pc' = [pc EXCEPT ![p] = l]
      BY <1>1, <2>3 DEF LocalOK
    <3>3. k \in Jobs
      BY <1>1 DEF Jobs, Modes
    <3>4. l \in Labels /\ Fits(l, k, verdict[p])
      BY <1>1, <3>1 DEF Entry, Jobs, Stage
    <3> HIDE DEF k, l, Labels, Verdicts, Fits
    <3> QED
      BY <1>1, <3>2, <3>3, <3>4, ReplaceLocal
  <2> QED
    BY <1>2, <2>1, <2>2, <2>3 DEF Inspect
<1>3. CASE Cancel(p)
  <2>1. /\ pc[p] = "cancel"
        /\ \/ Conclude(p, "unknown", "commit") \/ Conclude(p, "cancelled", "commit")
           \/ Record(p, job[p].at, attempt[job[p].at].owner, attempt[job[p].at].fence,
                     "cancelled", "broken")
    BY <1>3 DEF Cancel
  <2> QED
    BY <1>1, <2>1, ConcludeLocal, RecordLocal
<1> QED
  BY <1>2, <1>3

\* Beginnings, lapses, aborts and crashes.
Other(p, r) ==
  \/ p \in Service /\ r \in Run /\ Begin(p, r)
  \/ p \in Service /\ (ContextLapses(p) \/ Abort(p) \/ Crash(p))
  \/ RunLeaseLapses(r) \/ Register(r) \/ Admit(r) \/ EndRun(r) \/ SlotLapses

LEMMA OthersLocal ==
  ASSUME Typed, NEW p, NEW r, Other(p, r)
  PROVE  LocalOK'
<1>1. /\ LocalOK
      /\ p \in Service => /\ Fits(pc[p], job[p], verdict[p]) /\ pc[p] \in Labels
                          /\ job[p] \in Jobs /\ ctx[p] \in BOOLEAN
                          /\ held[p] \in Fences /\ verdict[p] \in Verdicts
  BY DEF Typed, LocalOK
<1>2. CASE p \in Service /\ r \in Run /\ Begin(p, r)
  <2> DEFINE k == [job[p] EXCEPT !.run = r]
  <2>1. /\ job' = [job EXCEPT ![p] = k] /\ ctx' = [ctx EXCEPT ![p] = ctx[p]]
        /\ verdict' = [verdict EXCEPT ![p] = verdict[p]]
        /\ held' = [held EXCEPT ![p] = held[p]] /\ pc' = [pc EXCEPT ![p] = "plan"]
    BY <1>1, <1>2 DEF Begin, LocalOK
  <2>2. k \in Jobs /\ k.run = r /\ r \in Run /\ p \in Service
    BY <1>1, <1>2 DEF Jobs
  <2>3. "plan" \in Labels /\ Fits("plan", k, verdict[p])
    BY <2>2 DEF Labels, Fits, PrepareLabels, ValidateLabels, PublishLabels
  <2> HIDE DEF k
  <2> QED
    BY <1>1, <2>1, <2>2, <2>3, ReplaceLocal
<1>3. CASE p \in Service /\ ContextLapses(p)
  BY <1>1, <1>3 DEF ContextLapses, LocalOK
<1>4. CASE p \in Service /\ Abort(p)
  BY <1>1, <1>4, LeaveLocal DEF Abort, Quit
<1>5. CASE p \in Service /\ Crash(p)
  BY <1>1, <1>5, LeaveLocal DEF Crash
<1>6. CASE RunLeaseLapses(r)
  <2> DEFINE q == runLease[r].owner
             c == ctx[q] /\ job[q].run # r
  <2>1. ctx' = [ctx EXCEPT ![q] = c] /\ UNCHANGED <<pc, job, held, verdict>>
    BY <1>6 DEF RunLeaseLapses
  <2>2. c \in BOOLEAN
    OBVIOUS
  <2> HIDE DEF c, q
  <2> QED
    BY <1>1, <2>1, <2>2 DEF LocalOK
<1>7. CASE Register(r) \/ Admit(r) \/ EndRun(r) \/ SlotLapses
  BY <1>1, <1>7 DEF Register, Admit, EndRun, SlotLapses, local, frame, LocalOK
<1> QED
  BY <1>2, <1>3, <1>4, <1>5, <1>6, <1>7 DEF Other

----------------------------------------------------------------------------
(* What a step writes                                                       *)

\* The state a service may record at a label.
RecordedAt ==
  {<<"merge", "candidate-created">>, <<"conflicted", "conflicted">>,
   <<"validate", "validating">>, <<"rework", "rework-required">>, <<"mark", "publishing">>,
   <<"record", "published">>, <<"record", "target-moved">>, <<"trust", "target-moved">>,
   <<"cancel", "cancelled">>}
  \cup (DOMAIN AfterAdvance) \X {"candidate-created", "validating", "publishing"}

Owned(a) == Fenced(a, attempt[a].owner, attempt[a].fence)

WriteIntent(p) ==
  pc[p] = "intend" /\ PersistIntent(job[p].at) /\ slot' = slot
WriteClaim(p) ==
  /\ pc[p] \in DOMAIN AfterClaim /\ ctx[p] /\ MayClaim(p, job[p].at)
  /\ Claim(p, job[p].at)
WriteState(p, state) ==
  /\ <<pc[p], state>> \in RecordedAt
  /\ Owned(job[p].at) /\ Allowed(job[p].at, state)
  /\ RecordState(job[p].at, state)
WriteGate(p, decision) ==
  /\ pc[p] = "evaluate" /\ Owned(job[p].at) /\ MayRecordGate(job[p].at, decision)
  /\ RecordGate(job[p].at, decision) /\ slot' = slot
WriteBarrier(p) ==
  /\ pc[p] = "barrier" /\ Owned(job[p].at)
  /\ attempt[job[p].at].state \in {"published", "barrier-recorded"}
  /\ RecordBarrier(job[p].at)

\* A step of a service writes the attempt it works on, if any, in one of five
\* ways.
Writes(p) ==
  \/ attempt' = attempt /\ slot' = slot
  \/ WriteIntent(p) \/ WriteClaim(p) \/ WriteBarrier(p)
  \/ \E state \in States : WriteState(p, state)
  \/ \E decision \in {"passed", "failed"} : WriteGate(p, decision)

LEMMA RecordHeldWrites ==
  ASSUME NEW p \in Service, NEW state \in States, NEW l, RecordHeld(p, state, l),
         <<pc[p], state>> \in RecordedAt
  PROVE  Writes(p)
BY DEF RecordHeld, Record, Writes, WriteState, Owned, Fenced

LEMMA StepWrites ==
  ASSUME Typed, NEW p \in Service, Step(p)
  PROVE  Writes(p)
<1> DEFINE same == attempt' = attempt /\ slot' = slot
<1> USE DEF States, Active, Terminal, Released
<1>1. CASE Plan(p) \/ CommitEffect(p) \/ Broken(p) \/ MergeFails(p) \/ EvaluationFails(p)
           \/ Look(p) \/ Move(p) \/ Recheck(p) \/ Inspect(p)
  <2>1. same
    BY <1>1 DEF Plan, CommitEffect, Broken, MergeFails, EvaluationFails, Look, Move, Recheck,
       Inspect, stored
  <2> QED
    BY <2>1 DEF Writes
<1>2. CASE ClaimSlot(p)
  BY <1>2 DEF ClaimSlot, Writes, WriteClaim
<1>3. CASE Advance(p)
  <2>1. CASE attempt[job[p].at].state \in {"claimed", "candidate-created", "validating"}
    <3>1. \E state \in {"candidate-created", "validating", "publishing"} :
            \E l : RecordHeld(p, state, l)
      BY <1>3, <2>1 DEF Advance
    <3>2. pc[p] \in DOMAIN AfterAdvance
      BY <1>3 DEF Advance
    <3> QED
      BY <3>1, <3>2, RecordHeldWrites DEF RecordedAt
  <2>2. CASE attempt[job[p].at].state \notin {"claimed", "candidate-created", "validating"}
    BY <1>3, <2>2 DEF Advance, Writes
  <2> QED
    BY <2>1, <2>2
<1>4. CASE Intend(p)
  BY <1>4 DEF Intend, Writes, WriteIntent
<1>5. CASE RecordCandidate(p)
  <2>1. CASE pc[p] = "conflicted" /\ RecordHeld(p, "conflicted", "commit")
    BY <2>1, RecordHeldWrites DEF RecordedAt
  <2>2. ASSUME NEW what, NEW l, pc[p] = "merge", RecordOutcome(p, "candidate-created", what, l)
        PROVE  Writes(p)
    BY <2>2, RecordHeldWrites DEF RecordedAt, RecordOutcome, Writes, WriteState, Owned, Fenced
  <2> QED
    BY <1>5, <2>1, <2>2 DEF RecordCandidate
<1>6. CASE Validate(p)
  <2>1. CASE attempt[job[p].at].state = "candidate-created" /\ Owned(job[p].at)
    <3>1. RecordState(job[p].at, "validating") /\ pc[p] = "validate"
      BY <1>6, <2>1 DEF Validate, Owned
    <3>2. Allowed(job[p].at, "validating") /\ <<pc[p], "validating">> \in RecordedAt
      BY <2>1, <3>1 DEF Allowed, AllowedFrom, RecordedAt
    <3> QED
      BY <2>1, <3>1, <3>2 DEF Writes, WriteState
  <2>2. CASE ~(attempt[job[p].at].state = "candidate-created" /\ Owned(job[p].at))
    BY <1>6, <2>2 DEF Validate, Owned, Writes
  <2> QED
    BY <2>1, <2>2
<1>7. CASE RecordDecision(p)
  <2>1. CASE pc[p] = "rework" /\ RecordHeld(p, "rework-required", "commit")
    BY <2>1, RecordHeldWrites DEF RecordedAt
  <2>2. CASE pc[p] = "evaluate"
    BY <1>7, <2>2 DEF RecordDecision, Writes, WriteGate, Owned, Fenced
  <2> QED
    BY <1>7, <2>1, <2>2 DEF RecordDecision
<1>8. CASE Mark(p)
  <2>1. CASE RecordHeld(p, "publishing", "claim-again")
    BY <1>8, <2>1, RecordHeldWrites DEF RecordedAt, Mark
  <2> QED
    BY <1>8, <2>1 DEF Mark, Writes
<1>9. CASE RecordPublication(p)
  <2>1. CASE RecordHeld(p, "published", "trust")
    BY <1>9, <2>1, RecordHeldWrites DEF RecordedAt, RecordPublication
  <2>2. CASE RecordHeld(p, "target-moved", "commit")
    BY <1>9, <2>2, RecordHeldWrites DEF RecordedAt, RecordPublication
  <2> QED
    BY <1>9, <2>1, <2>2 DEF RecordPublication, Writes
<1>10. CASE TrustBarrier(p)
  <2>1. CASE RecordHeld(p, "target-moved", "broken")
    BY <1>10, <2>1, RecordHeldWrites DEF RecordedAt, TrustBarrier
  <2> QED
    BY <1>10, <2>1 DEF TrustBarrier, Writes
<1>11. CASE Barrier(p)
  BY <1>11 DEF Barrier, Writes, WriteBarrier, Owned, Fenced
<1>12. CASE Cancel(p)
  BY <1>12 DEF Cancel, Record, Writes, WriteState, Owned, RecordedAt
<1> QED
  BY <1>1, <1>2, <1>3, <1>4, <1>5, <1>6, <1>7, <1>8, <1>9, <1>10, <1>11, <1>12 DEF Step

\* No one else writes an attempt; the slot may only lapse.
OthersWrite == attempt' = attempt /\ (slot' = slot \/ slot' = [slot EXCEPT !.live = FALSE])

LEMMA OthersWriteNothing ==
  ASSUME NEW p, NEW r, Other(p, r)
  PROVE  OthersWrite
<1>1. CASE \/ Begin(p, r) \/ Abort(p) \/ Crash(p) \/ Register(r) \/ Admit(r) \/ EndRun(r)
           \/ SlotLapses
  BY <1>1 DEF Begin, Abort, Crash, Register, Admit, EndRun, SlotLapses, stored, OthersWrite
<1>2. CASE ContextLapses(p)
  BY <1>2 DEF ContextLapses, LapseSlot, OthersWrite
<1>3. CASE RunLeaseLapses(r)
  BY <1>3 DEF RunLeaseLapses, LapseSlot, OthersWrite
<1> QED
  BY <1>1, <1>2, <1>3 DEF Other

LEMMA NextSteps ==
  ASSUME Next
  PROVE  (\E p \in Service : Step(p)) \/ \E p, r : Other(p, r)
BY DEF Next, Other

LEMMA NextWrites ==
  ASSUME Typed, Next
  PROVE  OthersWrite \/ \E p \in Service : Step(p) /\ Writes(p)
BY NextSteps, StepWrites, OthersWriteNothing

LEMMA AuthorityKeepsItsTypes ==
  ASSUME Typed, OthersWrite \/ \E p \in Service : Step(p) /\ Writes(p)
  PROVE  attempt' \in [Attempt -> Records] /\ slot' \in Slots
<1>1. attempt \in [Attempt -> Records] /\ slot \in Slots
  BY DEF Typed, TypeOK, AuthorityTypeOK
<1>2. CASE OthersWrite
  BY <1>1, <1>2 DEF OthersWrite, Slots
<1>3. ASSUME NEW p \in Service, Step(p), Writes(p)
      PROVE  attempt' \in [Attempt -> Records] /\ slot' \in Slots
  <2> DEFINE a == job[p].at
  <2>1. CASE attempt' = attempt /\ slot' = slot
    BY <1>1, <2>1
  <2>2. CASE WriteIntent(p)
    BY <1>1, <2>2 DEF WriteIntent, PersistIntent, Records, States
  <2>3. CASE WriteClaim(p)
    <3> DEFINE fence == IF slot.live THEN slot.fence ELSE slot.fence + 1
    <3>1. fence \in Nat
      BY <1>1 DEF Slots
    <3>2. /\ slot' = [owner |-> p, fence |-> fence, live |-> TRUE]
          /\ attempt' = [attempt EXCEPT ![a].state = "claimed", ![a].owner = p, ![a].fence = fence]
      BY <2>3 DEF WriteClaim, Claim
    <3>3. a \in Attempt /\ attempt[a] \in Records
      BY <1>1, <2>3 DEF WriteClaim, AfterClaim, Typed, LocalOK, Fits
    <3> DEFINE rec == [attempt[a] EXCEPT !.state = "claimed", !.owner = p, !.fence = fence]
    <3>4. attempt' = [attempt EXCEPT ![a] = rec]
      BY <1>1, <3>2, <3>3
    <3>5. rec \in Records
      BY <3>1, <3>3 DEF Records, States, Active
    <3>6. slot' \in Slots
      BY <3>1, <3>2 DEF Slots
    <3> HIDE DEF rec
    <3> QED
      BY <1>1, <3>4, <3>5, <3>6
  <2>4. ASSUME NEW state \in States, WriteState(p, state)
        PROVE  attempt' \in [Attempt -> Records] /\ slot' \in Slots
    BY <1>1, <2>4 DEF WriteState, RecordState, Records, Slots
  <2>5. ASSUME NEW decision \in {"passed", "failed"}, WriteGate(p, decision)
        PROVE  attempt' \in [Attempt -> Records] /\ slot' \in Slots
    <3> DEFINE state == IF decision = "passed" THEN "validating" ELSE "gate-failed"
    <3>1. /\ attempt' = [attempt EXCEPT ![a].gate = decision, ![a].state = state]
          /\ slot' = slot
      BY <2>5 DEF WriteGate, RecordGate
    <3>2. state \in States
      BY DEF States, Active
    <3> HIDE DEF state
    <3> QED
      BY <1>1, <3>1, <3>2 DEF Records
  <2>6. CASE WriteBarrier(p)
    <3>1. a \in Attempt /\ attempt[a] \in Records
      BY <1>1, <2>6 DEF WriteBarrier, Typed, LocalOK, Fits
    <3> DEFINE rec == [attempt[a] EXCEPT !.state = "barrier-recorded", !.barrier = TRUE]
    <3>2. attempt' = attempt \/ attempt' = [attempt EXCEPT ![a] = rec]
      BY <1>1, <2>6, <3>1 DEF WriteBarrier, RecordBarrier
    <3>3. rec \in Records
      BY <3>1 DEF Records, States, Terminal
    <3>4. slot' \in Slots
      BY <1>1, <2>6 DEF WriteBarrier, RecordBarrier, Slots
    <3> HIDE DEF rec
    <3> QED
      BY <1>1, <3>2, <3>3, <3>4
  <2> QED
    BY <1>3, <2>1, <2>2, <2>3, <2>4, <2>5, <2>6 DEF Writes
<1> QED
  BY <1>2, <1>3

LEMMA TrustKeepsItsType ==
  ASSUME Typed, NEW p \in Service, Step(p)
  PROVE  trusted' \in [Run -> Attempt \cup {NoAttempt}] /\ eligible' \subseteq Run
<1>1. trusted \in [Run -> Attempt \cup {NoAttempt}] /\ eligible \subseteq Run
  BY DEF Typed, TypeOK, AuthorityTypeOK
<1>2. CASE TrustBarrier(p)
  <2>1. job[p].at \in Attempt
    BY <1>2 DEF Typed, LocalOK, Fits, TrustBarrier
  <2> QED
    BY <1>1, <1>2, <2>1 DEF TrustBarrier, Trust
<1>3. CASE ~TrustBarrier(p)
  <2>1. UNCHANGED <<trusted, eligible>>
    BY <1>3 DEF Step, Plan, CommitEffect, Broken, ClaimSlot, Advance, Intend, MergeFails,
       RecordCandidate, Validate, EvaluationFails, RecordDecision, Mark, Look, Move, Recheck,
       RecordPublication, Barrier, Inspect, Cancel, stored
  <2> QED
    BY <1>1, <2>1
<1> QED
  BY <1>2, <1>3

\* The effects' records, the run leases and what ended keep their types.
RunnerTyped ==
  /\ effect \in [Attempt -> [Stage -> EffectRecords]]
  /\ runLease \in [Run -> Leases]
  /\ ended \subseteq Run

LEMMA EnqueuedTyped ==
  ASSUME Typed, NEW r
  PROVE  Enqueued(r) \in [Attempt -> [Stage -> EffectRecords]]
<1>1. effect \in [Attempt -> [Stage -> EffectRecords]]
  BY DEF Typed, TypeOK
<1>2. [Unqueued EXCEPT !.status = "queued"] \in EffectRecords
  <2>1. 0 \in 0..MaxReconciliation
    BY IntegrationAssumption
  <2>2. Unqueued \in EffectRecords /\ "queued" \in Statuses
    BY <2>1 DEF Unqueued, EffectRecords, Statuses
  <2> QED
    BY <2>2 DEF EffectRecords
<1> QED
  BY <1>1, <1>2 DEF Enqueued

LEMMA RunnerKeepsItsTypes ==
  ASSUME Typed, NEW p \in Service, Step(p)
  PROVE  RunnerTyped'
<1>1. RunnerTyped
  BY DEF Typed, TypeOK, RunnerTyped
<1>2. CASE Plan(p)
  <2>1. CASE effect' = effect
    BY <1>1, <1>2, <2>1 DEF Plan, RunnerTyped
  <2>2. ASSUME NEW e \in Attempt \X Stage, effect' = [effect EXCEPT ![e[1]][e[2]].status = "open"]
        PROVE  RunnerTyped'
    <3>1. "open" \in Statuses
      BY DEF Statuses, Unsettled
    <3>2. effect' \in [Attempt -> [Stage -> EffectRecords]]
      <4> DEFINE rec == [effect[e[1]][e[2]] EXCEPT !.status = "open"]
      <4>1. effect[e[1]][e[2]] \in EffectRecords
        BY <1>1 DEF RunnerTyped
      <4>2. rec \in EffectRecords
        BY <3>1, <4>1 DEF EffectRecords
      <4>3. effect' = [effect EXCEPT ![e[1]][e[2]] = rec]
        BY <1>1, <2>2 DEF RunnerTyped
      <4> HIDE DEF rec
      <4> QED
        BY <1>1, <4>2, <4>3 DEF RunnerTyped
    <3> QED
      BY <1>1, <1>2, <3>2 DEF Plan, RunnerTyped
  <2> QED
    BY <1>2, <2>1, <2>2 DEF Plan, Workable
<1>3. CASE CommitEffect(p) /\ ~HoldsRun(p)
  BY <1>1, <1>3 DEF CommitEffect, RunnerTyped
<1>4. CASE CommitEffect(p) /\ HoldsRun(p)
  <2> DEFINE a == job[p].at
             s == job[p].stage
             before == effect[a][s]
             tries == IF before.status = "open" THEN IF Observed(p) = "unknown" THEN 1 ELSE 0
                      ELSE before.tries + 1
             bound == IF tries <= MaxReconciliation THEN tries ELSE MaxReconciliation
             given == job[p].mode \in {"cancel", "lost-cancel"}
  <2>1. /\ effect' = [effect EXCEPT ![a][s] =
                 [before EXCEPT !.status = Observed(p), !.tries = bound, !.byCancel = given]]
        /\ runLease' = [runLease EXCEPT ![job[p].run].live = FALSE]
        /\ ended' = ended
    BY <1>4 DEF CommitEffect
  <2>2. a \in Attempt /\ s \in Stage
    BY <1>4 DEF CommitEffect, Typed, LocalOK, Fits, Jobs
  <2>3. before \in EffectRecords
    BY <1>1, <2>2 DEF RunnerTyped
  <2>4. Observed(p) \in Statuses
    <3>1. verdict[p] \in Verdicts \ {"none", "refused", "interrupted"}
      BY <1>4 DEF CommitEffect, Typed, LocalOK, Fits
    <3> QED
      BY <3>1 DEF Observed, Verdicts, Statuses, Settled, Unsettled
  <2>5. bound \in 0..MaxReconciliation
    <3>1. tries \in Nat
      BY <2>3, IntegrationAssumption DEF EffectRecords
    <3> QED
      BY <3>1, IntegrationAssumption
  <2>6. given \in BOOLEAN
    OBVIOUS
  <2> HIDE DEF bound, given
  <2>7. [before EXCEPT !.status = Observed(p), !.tries = bound, !.byCancel = given]
          \in EffectRecords
    BY <2>3, <2>4, <2>5, <2>6 DEF EffectRecords
  <2>8. runLease' \in [Run -> Leases]
    BY <1>1, <2>1 DEF RunnerTyped, Leases
  <2> QED
    BY <1>1, <2>1, <2>7, <2>8 DEF RunnerTyped
<1>5. CASE ~Plan(p) /\ ~CommitEffect(p)
  <2>1. UNCHANGED runner
    BY <1>5 DEF Step, Broken, ClaimSlot, Advance, Intend, MergeFails,
       RecordCandidate, Validate, EvaluationFails, RecordDecision, Mark, Look, Move, Recheck,
       RecordPublication, TrustBarrier, Barrier, Inspect, Cancel
  <2> QED
    BY <1>1, <2>1 DEF RunnerTyped, runner
<1> QED
  BY <1>2, <1>3, <1>4, <1>5

LEMMA TipIsACommit ==
  ASSUME branch \in Seq(Commit), branch # <<>>
  PROVE  Tip \in Commit
BY DEF Tip

\* The branch starts with a commit and only grows.
Grown == branch # <<>>

LEMMA BranchKeepsItsType ==
  ASSUME Typed, Grown, NEW p \in Service, Step(p)
  PROVE  branch' \in Seq(Commit) /\ Grown' /\ base' = base
<1>1. branch \in Seq(Commit)
  BY DEF Typed, TypeOK
<1>2. CASE Move(p)
  <2>1. job[p].at \in Commit
    BY <1>2 DEF Typed, LocalOK, Fits, Move, Commit
  <2>2. branch' = branch \/ branch' = Append(branch, job[p].at)
    BY <1>2 DEF Move
  <2>3. Append(branch, job[p].at) \in Seq(Commit) /\ Append(branch, job[p].at) # <<>>
    BY <1>1, <2>1
  <2> QED
    BY <1>1, <1>2, <2>2, <2>3 DEF Grown, Move
<1>3. CASE ~Move(p)
  BY <1>1, <1>3 DEF Step, Plan, CommitEffect, Broken, ClaimSlot, Advance, Intend, MergeFails,
     RecordCandidate, Validate, EvaluationFails, RecordDecision, Mark, Look, Recheck,
     RecordPublication, TrustBarrier, Barrier, Inspect, Cancel, Grown
<1> QED
  BY <1>2, <1>3

\* What the others write, beyond the slot and themselves.
LEMMA OthersTyped ==
  ASSUME Typed, Grown, NEW p, NEW r, Other(p, r)
  PROVE  /\ trusted' \in [Run -> Attempt \cup {NoAttempt}] /\ eligible' \subseteq Run
         /\ RunnerTyped' /\ base' \in [Run -> Commit \cup {NoAttempt}]
         /\ branch' = branch
<1>1. /\ trusted \in [Run -> Attempt \cup {NoAttempt}] /\ eligible \subseteq Run
      /\ RunnerTyped /\ base \in [Run -> Commit \cup {NoAttempt}] /\ branch \in Seq(Commit)
  BY DEF Typed, TypeOK, AuthorityTypeOK, RunnerTyped
<1>2. CASE p \in Service /\ r \in Run /\ Begin(p, r)
  <2>1. /\ runLease' = [runLease EXCEPT ![r] = [owner |-> p, live |-> TRUE]]
        /\ effect' = Enqueued(r) /\ UNCHANGED <<trusted, eligible, ended, base, branch>>
    BY <1>2 DEF Begin, stored
  <2>2. [owner |-> p, live |-> TRUE] \in Leases
    BY <1>2 DEF Leases
  <2> QED
    BY <1>1, <2>1, <2>2, EnqueuedTyped DEF RunnerTyped
<1>3. CASE ContextLapses(p) \/ Abort(p) \/ Crash(p) \/ SlotLapses
  BY <1>1, <1>3 DEF ContextLapses, Abort, Crash, SlotLapses, stored, runner, RunnerTyped
<1>4. CASE RunLeaseLapses(r)
  BY <1>1, <1>4 DEF RunLeaseLapses, RunnerTyped, Leases
<1>5. CASE Register(r)
  <2>1. Tip \in Commit
    BY <1>1, TipIsACommit DEF Grown
  <2> QED
    BY <1>1, <1>5, <2>1 DEF Register, stored, runner, RunnerTyped
<1>6. CASE Admit(r)
  <2>1. r \in Run
    <3>1. PICK a \in Attempt : trusted[r] = a /\ \E b \in Attempt : b[1] = r
      BY <1>6 DEF Admit, Integrated
    <3> QED
      BY <3>1, AuthorityAssumption
  <2> QED
    BY <1>1, <1>6, <2>1 DEF Admit, runner, RunnerTyped
<1>7. CASE EndRun(r)
  <2>1. ended' \subseteq Run
    BY <1>1, <1>7, IntegrationAssumption DEF EndRun, RunnerTyped
  <2>2. effect' \in [Attempt -> [Stage -> EffectRecords]]
    <3>1. ASSUME NEW a \in Attempt, NEW s \in Stage
          PROVE  [effect[a][s] EXCEPT !.asked = TRUE] \in EffectRecords
      <4>1. effect[a][s] \in EffectRecords
        BY <1>1 DEF RunnerTyped
      <4> QED
        BY <4>1 DEF EffectRecords
    <3> QED
      BY <1>1, <1>7, <3>1 DEF EndRun, RunnerTyped
  <2> QED
    BY <1>1, <1>7, <2>1, <2>2 DEF EndRun, stored, RunnerTyped
<1> QED
  BY <1>2, <1>3, <1>4, <1>5, <1>6, <1>7 DEF Other

----------------------------------------------------------------------------
(* The invariant                                                            *)

Grounded == Typed /\ Grown

LEMMA GroundedInitially ==
  ASSUME Init
  PROVE  Grounded
<1>1. AuthorityTypeOK
  BY AuthorityAssumption, IntegrationAssumption
     DEF Init, AuthorityInit, AuthorityTypeOK, Records, Slots, States
<1>2. RunnerTyped
  <2>1. 0 \in 0..MaxReconciliation
    BY IntegrationAssumption
  <2>2. Unqueued \in EffectRecords
    BY <2>1 DEF Unqueued, EffectRecords, Statuses
  <2> QED
    BY <2>2 DEF Init, RunnerTyped, Leases
<1>3. base \in [Run -> Commit \cup {NoAttempt}]
  BY DEF Init
<1>4. branch \in Seq(Commit) /\ branch # <<>>
  BY DEF Init, Commit
<1>5. LocalOK
  <2>1. NoJob \in Jobs /\ NoOne \in Fences /\ "none" \in Verdicts /\ "idle" \in Labels
    BY DEF NoJob, Jobs, NoOne, Fences, Verdicts, Labels, Stage, Modes
  <2>2. Fits("idle", NoJob, "none")
    BY DEF Fits, PrepareLabels, ValidateLabels, PublishLabels
  <2> QED
    BY <2>1, <2>2 DEF Init, LocalOK
<1> QED
  BY <1>1, <1>2, <1>3, <1>4, <1>5 DEF Grounded, Typed, TypeOK, RunnerTyped, LocalOK, Grown

LEMMA GroundedStep ==
  ASSUME Grounded, [Next]_vars
  PROVE  Grounded'
<1>1. CASE UNCHANGED vars
  BY <1>1 DEF Grounded, Typed, TypeOK, AuthorityTypeOK, LocalOK, Grown, vars, stored, runner,
     local, frame
<1>2. CASE Next
  <2>1. attempt' \in [Attempt -> Records] /\ slot' \in Slots
    BY <1>2, NextWrites, AuthorityKeepsItsTypes DEF Grounded
  <2>2. ASSUME NEW p \in Service, Step(p)
        PROVE  Grounded'
    <3>1. LocalOK'
      BY <2>2, RunnerLocal, ClaimLocal, PrepareLocal, ValidateLocal, PublishLocal, BarrierLocal,
         AskLocal DEF Step, Grounded
    <3>2. trusted' \in [Run -> Attempt \cup {NoAttempt}] /\ eligible' \subseteq Run
      BY <2>2, TrustKeepsItsType DEF Grounded
    <3>3. RunnerTyped'
      BY <2>2, RunnerKeepsItsTypes DEF Grounded
    <3>4. branch' \in Seq(Commit) /\ Grown' /\ base' \in [Run -> Commit \cup {NoAttempt}]
      BY <2>2, BranchKeepsItsType DEF Grounded, Typed, TypeOK
    <3> QED
      BY <2>1, <3>1, <3>2, <3>3, <3>4
         DEF Grounded, Typed, TypeOK, AuthorityTypeOK, RunnerTyped, LocalOK
  <2>3. ASSUME NEW p, NEW r, Other(p, r)
        PROVE  Grounded'
    <3>1. LocalOK'
      BY <2>3, OthersLocal DEF Grounded
    <3>2. /\ trusted' \in [Run -> Attempt \cup {NoAttempt}] /\ eligible' \subseteq Run
          /\ RunnerTyped' /\ base' \in [Run -> Commit \cup {NoAttempt}]
          /\ branch' = branch
      BY <2>3, OthersTyped DEF Grounded
    <3>3. branch' \in Seq(Commit) /\ Grown'
      BY <3>2 DEF Grounded, Typed, TypeOK, Grown
    <3> QED
      BY <2>1, <3>1, <3>2, <3>3
         DEF Grounded, Typed, TypeOK, AuthorityTypeOK, RunnerTyped, LocalOK
  <2> QED
    BY <1>2, <2>2, <2>3, NextSteps
<1> QED
  BY <1>1, <1>2

\* Every service has, at each label of a host call, the attempt, the stage
\* and the verdict the label is about; the branch is never empty.
THEOREM GroundedAlways == Spec => []Grounded
<1>1. Init => Grounded
  BY GroundedInitially
<1>2. Grounded /\ [Next]_vars => Grounded'
  BY GroundedStep
<1> QED
  BY <1>1, <1>2, PTL DEF Spec

\* Every record of the integration keeps its type (the CHECK constraints of
\* runner_integration_attempts, the union types of the host's results).
THEOREM IntegrationTypeCorrect == Spec => []TypeOK
<1>1. Grounded => TypeOK
  BY DEF Grounded, Typed
<1> QED
  BY <1>1, GroundedAlways, PTL

----------------------------------------------------------------------------
(* How services move                                                        *)

\* A step of one service leaves the others' cycles alone.
Alone(p) ==
  \A q \in Service \ {p} :
    pc'[q] = pc[q] /\ job'[q] = job[q] /\ ctx'[q] = ctx[q] /\ held'[q] = held[q]
    /\ verdict'[q] = verdict[q]

Gone(p) ==
  /\ pc'[p] \in {"idle", "dead"} /\ job'[p] = NoJob /\ ctx'[p] = FALSE
  /\ held'[p] = NoOne /\ verdict'[p] = "none"

\* The effect a service works on stays the same until its cycle ends.
SameEffect(p) ==
  job'[p].run = job[p].run /\ job'[p].at = job[p].at /\ job'[p].stage = job[p].stage

LEMMA LeaveMoves ==
  ASSUME Typed, NEW p \in Service, NEW l \in {"idle", "dead"}, Leave(p, l)
  PROVE  Alone(p) /\ Gone(p)
BY DEF Typed, LocalOK, Leave, Alone, Gone

LEMMA StepMoves ==
  ASSUME Typed, NEW p \in Service, Step(p)
  PROVE  Alone(p) /\ (Gone(p) \/ Plan(p) \/ SameEffect(p))
<1>1. /\ pc \in [Service -> Labels] /\ job \in [Service -> Jobs] /\ ctx \in [Service -> BOOLEAN]
      /\ held \in [Service -> Fences] /\ verdict \in [Service -> Verdicts]
  BY DEF Typed, LocalOK
<1>2. ASSUME NEW l, Goto(p, l) \/ \E v : Conclude(p, v, l)
      PROVE  Alone(p) /\ SameEffect(p)
  BY <1>1, <1>2 DEF Goto, frame, Conclude, Alone, SameEffect
<1>3. ASSUME NEW a, NEW o, NEW f, NEW state, NEW l, Record(p, a, o, f, state, l)
      PROVE  Alone(p) /\ (Gone(p) \/ SameEffect(p))
  BY <1>2, <1>3, LeaveMoves DEF Record, Quit
<1>4. CASE Plan(p)
  BY <1>1, <1>4, LeaveMoves DEF Plan, Quit, Alone
<1>5. CASE CommitEffect(p)
  BY <1>5, LeaveMoves DEF CommitEffect, Quit
<1>6. CASE Broken(p)
  <2>1. CASE Conclude(p, "unknown", "commit")
    BY <1>2, <2>1
  <2>2. CASE Quit(p)
    BY <2>2, LeaveMoves DEF Quit
  <2>3. CASE job' = [job EXCEPT ![p].mode = IF @ = "cancel" THEN "lost-cancel" ELSE "lost"]
             /\ pc' = [pc EXCEPT ![p] = "inspect"] /\ ctx' = [ctx EXCEPT ![p] = TRUE]
             /\ UNCHANGED <<held, verdict>>
    BY <1>1, <2>3 DEF Alone, SameEffect, Jobs
  <2> QED
    BY <1>6, <2>1, <2>2, <2>3 DEF Broken
<1>7. CASE ClaimSlot(p)
  <2>1. CASE Goto(p, "broken")
    BY <1>2, <2>1
  <2>2. CASE \E h : held' = [held EXCEPT ![p] = h] /\ pc' = [pc EXCEPT ![p] = AfterClaim[pc[p]]]
             /\ UNCHANGED <<job, ctx, verdict>>
    BY <1>1, <2>2 DEF Alone, SameEffect
  <2> QED
    BY <1>7, <2>1, <2>2 DEF ClaimSlot
<1>8. CASE Advance(p)
  BY <1>2, <1>3, <1>8 DEF Advance, RecordHeld
<1>9. CASE Intend(p) \/ MergeFails(p) \/ EvaluationFails(p) \/ Look(p) \/ Move(p) \/ Recheck(p)
  BY <1>2, <1>9 DEF Intend, MergeFails, EvaluationFails, Look, Move, Recheck
<1>10. CASE RecordCandidate(p)
  BY <1>2, <1>3, <1>10 DEF RecordCandidate, RecordOutcome, RecordHeld
<1>11. CASE Validate(p)
  <2>1. CASE Quit(p)
    BY <2>1, LeaveMoves DEF Quit
  <2>2. CASE \E h : held' = [held EXCEPT ![p] = h] /\ pc' = [pc EXCEPT ![p] = "evaluate"]
             /\ UNCHANGED <<job, ctx, verdict>>
    BY <1>1, <2>2 DEF Alone, SameEffect
  <2> QED
    BY <1>11, <2>1, <2>2 DEF Validate
<1>12. CASE RecordDecision(p)
  BY <1>2, <1>3, <1>12, LeaveMoves DEF RecordDecision, RecordHeld, Quit
<1>13. CASE Mark(p) \/ RecordPublication(p) \/ TrustBarrier(p)
  BY <1>2, <1>3, <1>13 DEF Mark, RecordPublication, TrustBarrier, RecordHeld
<1>14. CASE Barrier(p)
  BY <1>2, <1>14, LeaveMoves DEF Barrier, Quit
<1>15. CASE Inspect(p)
  <2>1. CASE job' = [job EXCEPT ![p].mode = "dispatch"] /\ UNCHANGED <<ctx, held, verdict>>
             /\ pc' = [pc EXCEPT ![p] = Entry(job[p].stage)]
    BY <1>1, <2>1 DEF Alone, SameEffect, Jobs
  <2> QED
    BY <1>2, <1>15, <2>1 DEF Inspect
<1>16. CASE Cancel(p)
  BY <1>2, <1>3, <1>16 DEF Cancel
<1> QED
  BY <1>4, <1>5, <1>6, <1>7, <1>8, <1>9, <1>10, <1>11, <1>12, <1>13, <1>14, <1>15, <1>16 DEF Step

LEMMA MovesAt ==
  ASSUME Typed, NEW p \in Service, NEW l,
         Goto(p, l) \/ \E v : Conclude(p, v, l)
  PROVE  /\ pc'[p] = l /\ job'[p] = job[p] /\ ctx'[p] = ctx[p] /\ held'[p] = held[p]
         /\ Goto(p, l) => verdict'[p] = verdict[p]
         /\ \A v : Conclude(p, v, l) => verdict'[p] = v
BY DEF Typed, LocalOK, Goto, frame, Conclude

LEMMA RecordMovesAt ==
  ASSUME Typed, NEW p \in Service, NEW state, NEW l, NEW a, NEW o, NEW f,
         Record(p, a, o, f, state, l), ~Gone(p)
  PROVE  /\ job'[p] = job[p] /\ ctx'[p] = ctx[p] /\ held'[p] = held[p] /\ verdict'[p] = verdict[p]
         /\ pc'[p] = l \/ pc'[p] = "broken"
         /\ pc'[p] = "broken" /\ l # "broken" => Owned(a) /\ ~Allowed(a, state)
         /\ Owned(a) /\ Allowed(a, state) => pc'[p] = l
<1>1. ~Leave(p, "idle")
  BY LeaveMoves
<1>2. Fenced(a, o, f) /\ o = attempt[a].owner /\ f = attempt[a].fence
  BY <1>1 DEF Record, Quit, Fenced
<1>3. CASE Allowed(a, state)
  BY <1>2, <1>3, MovesAt DEF Record, Owned
<1>4. CASE ~Allowed(a, state)
  BY <1>2, <1>4, MovesAt DEF Record, Owned
<1> QED
  BY <1>3, <1>4

Hosted == Labels \ {"idle", "dead", "plan"}
AfterFirstClaim ==
  {"mark", "claim-again", "advance-again", "look", "claim-final", "advance-final", "move",
   "advance-found", "found"}

\* How a service comes to its next label.
Arrives(p) ==
  LET a == job[p].at
      l == pc[p]
      m == pc'[p]
  IN
  /\ l \in Hosted \ {"commit"} /\ m \in Hosted \ {"cancel"}
  /\ m = "intend" => l = "inspect" /\ attempt[a].state = "absent"
  /\ m = "claim-prepare" => l = "intend"
  /\ m = "merge" => l = "claim-prepare" /\ ctx[p]
  /\ m = "conflicted" => l = "merge"
  /\ m = "rework" => WriteGate(p, "failed")
  /\ m = "barrier" => Trust(a)
  /\ m \in AfterFirstClaim =>
       l \in AfterFirstClaim \/ (l \in {"claim-check", "claim-found"} /\ ctx[p])
  /\ m = "move" => l = "advance-final"
  /\ l = "cancel" => m \in {"commit", "broken"}

LEMMA StepArrives ==
  ASSUME Typed, NEW p \in Service, Step(p), ~Plan(p), ~Gone(p)
  PROVE  Arrives(p)
<1> USE DEF Hosted, Labels, AfterFirstClaim
<1>0. ~Leave(p, "idle")
  BY LeaveMoves
<1>1. pc \in [Service -> Labels] /\ job[p] \in Jobs
  BY DEF Typed, LocalOK
<1>2. CASE CommitEffect(p)
  BY <1>0, <1>2 DEF CommitEffect, Quit
<1>3. CASE Broken(p)
  BY <1>0, <1>1, <1>3, MovesAt DEF Broken, Quit, Arrives
<1>4. CASE ClaimSlot(p)
  <2>1. pc[p] \in DOMAIN AfterClaim /\ (pc'[p] = "broken" \/ (pc'[p] = AfterClaim[pc[p]] /\ ctx[p]))
    BY <1>1, <1>4, MovesAt DEF ClaimSlot
  <2> QED
    BY <2>1 DEF Arrives, AfterClaim
<1>5. CASE Advance(p)
  <2>1. pc[p] \in DOMAIN AfterAdvance
    BY <1>5 DEF Advance
  <2>2. pc'[p] \in {"broken", pc[p], AfterAdvance[pc[p]]}
    <3>1. \/ Goto(p, AfterAdvance[pc[p]])
          \/ RecordHeld(p, "candidate-created", pc[p]) \/ RecordHeld(p, "validating", pc[p])
          \/ RecordHeld(p, "publishing", AfterAdvance[pc[p]])
      <4> DEFINE next == AfterAdvance[pc[p]]
      <4> HIDE DEF next
      <4>1. \/ Goto(p, next)
            \/ RecordHeld(p, "candidate-created", pc[p]) \/ RecordHeld(p, "validating", pc[p])
            \/ RecordHeld(p, "publishing", next)
        BY <1>5 DEF Advance, next
      <4> QED
        BY <4>1 DEF next
    <3>2. CASE Goto(p, AfterAdvance[pc[p]])
      BY <3>2, MovesAt
    <3>3. CASE RecordHeld(p, "candidate-created", pc[p]) \/ RecordHeld(p, "validating", pc[p])
      BY <3>3, RecordMovesAt DEF RecordHeld
    <3>4. CASE RecordHeld(p, "publishing", AfterAdvance[pc[p]])
      BY <3>4, RecordMovesAt DEF RecordHeld
    <3> QED
      BY <3>1, <3>2, <3>3, <3>4
  <2> QED
    BY <2>1, <2>2 DEF Arrives, AfterAdvance
<1>6. CASE Intend(p) \/ MergeFails(p) \/ EvaluationFails(p)
  BY <1>6, MovesAt DEF Intend, MergeFails, EvaluationFails, Arrives
<1>7. CASE RecordCandidate(p)
  <2>1. \/ /\ pc[p] = "merge"
           /\ \E l2 \in {"commit", "conflicted"} :
                (\E v : Conclude(p, v, l2)) \/ RecordHeld(p, "candidate-created", l2)
        \/ pc[p] = "conflicted" /\ RecordHeld(p, "conflicted", "commit")
    BY <1>7 DEF RecordCandidate, RecordOutcome
  <2>2. \/ pc[p] = "merge" /\ pc'[p] \in {"commit", "conflicted", "broken"}
        \/ pc[p] = "conflicted" /\ pc'[p] \in {"commit", "broken"}
    BY <2>1, MovesAt, RecordMovesAt DEF RecordHeld
  <2> QED
    BY <2>2 DEF Arrives
<1>8. CASE Validate(p)
  <2>1. pc[p] = "validate" /\ pc'[p] = "evaluate"
    BY <1>0, <1>1, <1>8 DEF Validate, Quit
  <2> QED
    BY <2>1 DEF Arrives
<1>9. CASE RecordDecision(p)
  <2>1. CASE pc[p] = "rework"
    BY <1>9, <2>1, RecordMovesAt DEF RecordDecision, RecordHeld, Arrives
  <2>2. CASE pc[p] = "evaluate"
    <3>1. CASE Goto(p, "broken")
      BY <2>2, <3>1, MovesAt DEF Arrives
    <3>2. CASE Conclude(p, "passed", "commit")
      BY <2>2, <3>2, MovesAt DEF Arrives
    <3>3. CASE Conclude(p, "failed", "rework") /\ WriteGate(p, "failed")
      BY <2>2, <3>3, MovesAt DEF Arrives
    <3> QED
      BY <1>0, <1>9, <2>2, <3>1, <3>2, <3>3 DEF RecordDecision, Quit, WriteGate, Owned, Fenced
  <2> QED
    BY <1>9, <2>1, <2>2 DEF RecordDecision
<1>10. CASE Mark(p)
  BY <1>10, MovesAt, RecordMovesAt DEF Mark, RecordHeld, Arrives
<1>11. AfterVerdict(p) \in {"record", "advance-settle"}
  BY DEF AfterVerdict
<1>12. CASE Look(p)
  <2>1. /\ pc[p] \in {"look", "found"}
        /\ \E l2 \in {"claim-final", "claim-again", "broken", AfterVerdict(p)} :
             Goto(p, l2) \/ \E v : Conclude(p, v, l2)
    BY <1>12 DEF Look
  <2>2. pc'[p] \in {"claim-final", "claim-again", "broken", AfterVerdict(p)}
    BY <2>1, MovesAt
  <2> QED
    BY <1>11, <2>1, <2>2 DEF Arrives
<1>13. CASE Move(p)
  BY <1>11, <1>13, MovesAt DEF Move, Arrives
<1>14. CASE Recheck(p)
  <2>1. pc[p] = "recheck" /\ pc'[p] \in {"broken", AfterVerdict(p)}
    BY <1>14, MovesAt DEF Recheck
  <2> QED
    BY <1>11, <2>1 DEF Arrives
<1>15. CASE RecordPublication(p)
  BY <1>15, MovesAt, RecordMovesAt DEF RecordPublication, RecordHeld, Arrives
<1>16. CASE TrustBarrier(p)
  BY <1>16, MovesAt, RecordMovesAt DEF TrustBarrier, RecordHeld, Arrives
<1>17. CASE Barrier(p)
  BY <1>0, <1>17, MovesAt DEF Barrier, Quit, Arrives
<1>18. CASE Inspect(p)
  <2>1. CASE job' = [job EXCEPT ![p].mode = "dispatch"] /\ attempt[job[p].at].state = "absent"
             /\ pc' = [pc EXCEPT ![p] = Entry(job[p].stage)]
    <3>1. pc'[p] \in {"intend", "validate", "claim-check"}
      BY <1>1, <2>1 DEF Entry, Jobs, Stage
    <3> QED
      BY <1>18, <2>1, <3>1 DEF Inspect, Arrives
  <2>2. CASE \E v : Conclude(p, v, "commit")
    BY <1>18, <2>2, MovesAt DEF Inspect, Arrives
  <2>3. CASE Goto(p, "claim-found")
    BY <1>18, <2>3, MovesAt DEF Inspect, Arrives
  <2> QED
    BY <1>18, <2>1, <2>2, <2>3 DEF Inspect
<1>19. CASE Cancel(p)
  <2>1. pc[p] = "cancel" /\ pc'[p] \in {"commit", "broken"}
    BY <1>19, MovesAt, RecordMovesAt DEF Cancel
  <2> QED
    BY <2>1 DEF Arrives
<1> QED
  BY <1>2, <1>3, <1>4, <1>5, <1>6, <1>7, <1>8, <1>9, <1>10, <1>12, <1>13, <1>14, <1>15, <1>16,
     <1>17, <1>18, <1>19 DEF Step

\* What a service concludes, and how its mode and its context change.
Concludes(p) ==
  LET l == pc[p]
      new == verdict'[p]
      mode == job[p].mode
  IN
  /\ new # verdict[p] =>
       /\ new = "candidate" => l = "merge"
       /\ new = "passed" => l = "evaluate"
       /\ new = "completed" => l = "inspect" /\ attempt[job[p].at].state = "barrier-recorded"
       /\ new = "new" => l \in {"look", "found", "move", "recheck"}
  /\ \/ job'[p].mode = mode
     \/ l = "broken" /\ mode = "cancel" /\ job'[p].mode = "lost-cancel"
     \/ l = "broken" /\ mode = "dispatch" /\ job'[p].mode = "lost"
     \/ l = "inspect" /\ mode = "inspect" /\ job'[p].mode = "dispatch"
  /\ ctx'[p] => ctx[p] \/ HoldsRun(p)

LEMMA StepConcludes ==
  ASSUME Typed, NEW p \in Service, Step(p), ~Plan(p), ~Gone(p)
  PROVE  Concludes(p)
<1>0. ~Leave(p, "idle")
  BY LeaveMoves
<1>1. /\ pc \in [Service -> Labels] /\ job \in [Service -> Jobs] /\ job[p] \in Jobs
      /\ ctx \in [Service -> BOOLEAN] /\ verdict \in [Service -> Verdicts]
  BY DEF Typed, LocalOK
<1>2. ASSUME NEW l, Goto(p, l)
      PROVE  Concludes(p)
  BY <1>2, MovesAt DEF Concludes
<1>3. ASSUME NEW state, NEW l, NEW a, NEW o, NEW f, Record(p, a, o, f, state, l)
      PROVE  Concludes(p)
  BY <1>3, RecordMovesAt DEF Concludes
<1>4. ASSUME NEW v, NEW l, Conclude(p, v, l),
             v = verdict[p] \/
             (/\ v = "candidate" => pc[p] = "merge"
              /\ v = "passed" => pc[p] = "evaluate"
              /\ v = "completed" => pc[p] = "inspect"
                                    /\ attempt[job[p].at].state = "barrier-recorded"
              /\ v = "new" => pc[p] \in {"look", "found", "move", "recheck"})
      PROVE  Concludes(p)
  BY <1>4, MovesAt DEF Concludes
<1>5. CASE CommitEffect(p)
  BY <1>0, <1>5 DEF CommitEffect, Quit
<1>6. CASE Broken(p)
  <2>1. CASE Conclude(p, "unknown", "commit")
    BY <1>4, <2>1
  <2>2. CASE ~Conclude(p, "unknown", "commit")
    <3>1. /\ job[p].mode \in {"dispatch", "cancel"} /\ HoldsRun(p) /\ pc[p] = "broken"
          /\ job' = [job EXCEPT ![p].mode = IF @ = "cancel" THEN "lost-cancel" ELSE "lost"]
          /\ UNCHANGED verdict
      BY <1>0, <1>6, <2>2 DEF Broken, Quit
    <3>2. job'[p].mode = IF job[p].mode = "cancel" THEN "lost-cancel" ELSE "lost"
      BY <1>1, <3>1 DEF Jobs
    <3> QED
      BY <3>1, <3>2 DEF Concludes
  <2> QED
    BY <2>1, <2>2
<1>7. CASE ClaimSlot(p)
  <2>1. Goto(p, "broken") \/ UNCHANGED <<job, ctx, verdict>>
    BY <1>7 DEF ClaimSlot
  <2> QED
    BY <1>2, <2>1 DEF Concludes
<1>8. CASE Advance(p)
  BY <1>2, <1>3, <1>8 DEF Advance, RecordHeld
<1>9. CASE Intend(p) \/ MergeFails(p) \/ EvaluationFails(p)
  BY <1>2, <1>9 DEF Intend, MergeFails, EvaluationFails
<1>10. CASE RecordCandidate(p)
  BY <1>3, <1>4, <1>10 DEF RecordCandidate, RecordOutcome, RecordHeld
<1>11. CASE Validate(p)
  BY <1>0, <1>11 DEF Validate, Quit, Concludes
<1>12. CASE RecordDecision(p)
  BY <1>0, <1>2, <1>3, <1>4, <1>12 DEF RecordDecision, RecordHeld, Quit
<1>13. CASE Mark(p) \/ TrustBarrier(p) \/ RecordPublication(p)
  BY <1>2, <1>3, <1>13 DEF Mark, TrustBarrier, RecordPublication, RecordHeld
<1>14. CASE Look(p)
  <2>1. Standing(job[p].at) \in {"old", "new", "other"}
    BY DEF Standing
  <2> QED
    BY <1>2, <1>4, <1>14, <2>1 DEF Look
<1>15. CASE Move(p) \/ Recheck(p)
  BY <1>2, <1>4, <1>15 DEF Move, Recheck
<1>16. CASE Barrier(p)
  BY <1>0, <1>2, <1>16 DEF Barrier, Quit
<1>17. CASE Inspect(p)
  <2>1. CASE /\ attempt[job[p].at].state = "absent" /\ job[p].mode = "inspect" /\ pc[p] = "inspect"
             /\ job' = [job EXCEPT ![p].mode = "dispatch"] /\ UNCHANGED <<ctx, verdict>>
    <3>1. job'[p].mode = "dispatch"
      BY <1>1, <2>1 DEF Jobs
    <3> QED
      BY <2>1, <3>1 DEF Concludes
  <2>2. CASE Goto(p, "claim-found")
    BY <1>2, <2>2
  <2>3. CASE \E v \in {"unknown", "cancelled", "active"} : Conclude(p, v, "commit")
    BY <1>4, <2>3
  <2>4. CASE attempt[job[p].at].state = "barrier-recorded" /\ Conclude(p, "completed", "commit")
    BY <1>4, <1>17, <2>4 DEF Inspect
  <2> QED
    BY <1>17, <2>1, <2>2, <2>3, <2>4 DEF Inspect
<1>18. CASE Cancel(p)
  BY <1>3, <1>4, <1>18 DEF Cancel
<1> QED
  BY <1>5, <1>6, <1>7, <1>8, <1>9, <1>10, <1>11, <1>12, <1>13, <1>14, <1>15, <1>16, <1>17,
     <1>18 DEF Step

----------------------------------------------------------------------------
(* How effects' records change                                              *)

LEMMA DueMeans ==
  ASSUME NEW r, NEW a, NEW s, <<a, s>> \in Due(r)
  PROVE  /\ a[1] = r
         /\ s = "validate" => effect[a]["prepare"].status = "completed"
         /\ s = "publish" => attempt[a].gate = "passed"
<1> DEFINE n == Cardinality(Made(r))
<1>1. \/ <<a, s>> = <<<<r, 1>>, "prepare">>
      \/ <<a, s>> = <<<<r, n + 1>>, "prepare">>
      \/ /\ <<a, s>> = <<<<r, n>>, "validate">> /\ effect[<<r, n>>]["prepare"].status = "completed"
      \/ /\ <<a, s>> = <<<<r, n>>, "publish">> /\ attempt[<<r, n>>].gate \in {"passed"}
  <2> HIDE DEF n
  <2>1. Due(r) = IF n = 0 THEN {<<<<r, 1>>, "prepare">>}
     ELSE IF attempt[<<r, n>>].state = "rework-required"
     THEN {<<<<r, n + 1>>, "prepare">>} \cap (Attempt \X Stage)
     ELSE IF effect[<<r, n>>]["prepare"].status # "completed" THEN {}
     ELSE IF attempt[<<r, n>>].state = "candidate-created" /\ attempt[<<r, n>>].gate = "none"
     THEN {<<<<r, n>>, "validate">>}
     ELSE IF attempt[<<r, n>>].state = "validating" /\ attempt[<<r, n>>].gate \in {"passed"}
     THEN {<<<<r, n>>, "publish">>}
     ELSE {}
    BY DEF Due, DueOnGate, n
  <2> QED
    BY <2>1
<1> HIDE DEF n
<1> QED
  BY <1>1

Scheduled(a, s) ==
  /\ effect[a][s].status = "none" /\ effect'[a][s].status = "queued"
  /\ ~effect'[a][s].asked /\ a[1] \notin ended /\ <<a, s>> \in Due(a[1])
Dispatched(p, a, s) ==
  /\ Plan(p) /\ HoldsRun(p) /\ job[p].run = a[1]
  /\ job'[p].at = a /\ job'[p].stage = s /\ job'[p].mode = "dispatch"
  /\ effect[a][s].status = "queued" /\ a[1] \notin ended
  /\ effect'[a][s].status = "open" /\ effect'[a][s].asked = effect[a][s].asked
Committed(p, a, s) ==
  /\ CommitEffect(p) /\ HoldsRun(p) /\ job[p].at = a /\ job[p].stage = s
  /\ effect'[a][s].status = Observed(p) /\ effect'[a][s].asked = effect[a][s].asked
Asked(a, s) ==
  /\ EndRun(a[1]) /\ effect[a][s].status \in Unsettled
  /\ effect'[a][s].status = effect[a][s].status /\ effect'[a][s].asked

\* An effect is scheduled, dispatched, committed, or asked to cancel.
EffectMoves(a, s) ==
  \/ effect'[a][s] = effect[a][s]
  \/ Scheduled(a, s) \/ Asked(a, s)
  \/ \E p \in Service : Dispatched(p, a, s) \/ Committed(p, a, s)

LEMMA BeginSchedules ==
  ASSUME Typed, NEW p, NEW r, Begin(p, r), NEW a \in Attempt, NEW s \in Stage
  PROVE  EffectMoves(a, s)
<1> DEFINE up == [Unqueued EXCEPT !.status = "queued"]
<1>1. up.status = "queued" /\ up.asked = FALSE
  BY DEF Unqueued
<1> HIDE DEF up
<1>2. effect'[a][s] = IF r \notin ended /\ <<a, s>> \in Due(r) /\ effect[a][s].status = "none"
                      THEN up ELSE effect[a][s]
  BY DEF Begin, Enqueued, up
<1>3. <<a, s>> \in Due(r) => a[1] = r
  BY DueMeans
<1>4. CASE r \notin ended /\ <<a, s>> \in Due(r) /\ effect[a][s].status = "none"
  <2>1. Scheduled(a, s)
    BY <1>1, <1>2, <1>3, <1>4 DEF Scheduled
  <2> QED
    BY <2>1 DEF EffectMoves
<1>5. CASE ~(r \notin ended /\ <<a, s>> \in Due(r) /\ effect[a][s].status = "none")
  BY <1>2, <1>5 DEF EffectMoves
<1> QED
  BY <1>4, <1>5

LEMMA PlanDispatches ==
  ASSUME Typed, NEW p \in Service, Plan(p), NEW a \in Attempt, NEW s \in Stage
  PROVE  EffectMoves(a, s)
<1>1. job \in [Service -> Jobs] /\ effect \in [Attempt -> [Stage -> EffectRecords]]
      /\ Fits(pc[p], job[p], verdict[p])
  BY DEF Typed, TypeOK, LocalOK
<1>2. CASE effect' = effect
  BY <1>2 DEF EffectMoves
<1>3. CASE effect' # effect
  <2>1. HoldsRun(p)
    BY <1>3 DEF Plan
  <2>2. PICK e \in Workable(effect, job[p].run) :
          /\ Chosen(effect[e[1]][e[2]]) = "dispatch"
          /\ job' = [job EXCEPT ![p] = [run |-> job[p].run, at |-> e[1], stage |-> e[2],
                                        mode |-> "dispatch"]]
          /\ effect' = [effect EXCEPT ![e[1]][e[2]].status = "open"]
    <3>1. PICK e \in Workable(effect, job[p].run) :
            LET choice == Chosen(effect[e[1]][e[2]]) IN
            /\ job' = [job EXCEPT ![p] = [run |-> job[p].run, at |-> e[1], stage |-> e[2],
                         mode |-> IF choice = "settle" THEN "inspect" ELSE choice]]
            /\ effect' = IF choice = "dispatch"
                         THEN [effect EXCEPT ![e[1]][e[2]].status = "open"] ELSE effect
      BY <2>1 DEF Plan
    <3> QED
      BY <1>3, <3>1
  <2>3. /\ e[1] \in Attempt /\ e[2] \in Stage /\ e[1][1] = job[p].run
        /\ effect[e[1]][e[2]].status = "queued" /\ job[p].run \notin ended
    BY <2>2 DEF Workable, Chosen, Unsettled
  <2>4. job'[p].at = e[1] /\ job'[p].stage = e[2] /\ job'[p].mode = "dispatch"
    BY <1>1, <2>2
  <2>5. CASE a = e[1] /\ s = e[2]
    <3>1. effect'[a][s] = [effect[a][s] EXCEPT !.status = "open"] /\ effect[a][s] \in EffectRecords
      BY <1>1, <2>2, <2>3, <2>5
    <3>2. effect'[a][s].status = "open" /\ effect'[a][s].asked = effect[a][s].asked
      BY <3>1 DEF EffectRecords
    <3>3. Dispatched(p, a, s)
      BY <2>1, <2>3, <2>4, <2>5, <3>2 DEF Dispatched
    <3> QED
      BY <3>3 DEF EffectMoves
  <2>6. CASE ~(a = e[1] /\ s = e[2])
    BY <1>1, <2>2, <2>3, <2>6 DEF EffectMoves
  <2> QED
    BY <2>5, <2>6
<1> QED
  BY <1>2, <1>3

LEMMA CommitSettles ==
  ASSUME Typed, NEW p \in Service, CommitEffect(p), NEW a \in Attempt, NEW s \in Stage
  PROVE  EffectMoves(a, s)
<1>1. effect \in [Attempt -> [Stage -> EffectRecords]]
      /\ job[p].at \in Attempt /\ job[p].stage \in Stage
  BY DEF Typed, TypeOK, LocalOK, Fits, Jobs, CommitEffect
<1>2. CASE ~HoldsRun(p) \/ ~(job[p].at = a /\ job[p].stage = s)
  BY <1>1, <1>2 DEF CommitEffect, EffectMoves
<1>3. CASE HoldsRun(p) /\ job[p].at = a /\ job[p].stage = s
  <2> DEFINE tries == IF effect[a][s].status = "open"
                      THEN IF Observed(p) = "unknown" THEN 1 ELSE 0
                      ELSE effect[a][s].tries + 1
             bound == IF tries <= MaxReconciliation THEN tries ELSE MaxReconciliation
             given == job[p].mode \in {"cancel", "lost-cancel"}
  <2>1. effect' = [effect EXCEPT ![a][s] =
          [effect[a][s] EXCEPT !.status = Observed(p), !.tries = bound, !.byCancel = given]]
    BY <1>3 DEF CommitEffect
  <2> HIDE DEF bound, given
  <2>2. effect[a][s] \in EffectRecords
    BY <1>1
  <2>3. effect'[a][s].status = Observed(p) /\ effect'[a][s].asked = effect[a][s].asked
    BY <1>1, <2>1, <2>2 DEF EffectRecords
  <2>4. Committed(p, a, s)
    BY <1>3, <2>3 DEF Committed
  <2> QED
    BY <2>4 DEF EffectMoves
<1> QED
  BY <1>2, <1>3

LEMMA EffectSteps ==
  ASSUME Typed, Next, NEW a \in Attempt, NEW s \in Stage
  PROVE  EffectMoves(a, s)
<1>1. ASSUME NEW p \in Service, Step(p)
      PROVE  EffectMoves(a, s)
  <2>1. CASE Plan(p)
    BY <2>1, PlanDispatches
  <2>2. CASE CommitEffect(p)
    BY <2>2, CommitSettles
  <2>3. CASE ~Plan(p) /\ ~CommitEffect(p)
    BY <1>1, <2>3 DEF Step, Broken, ClaimSlot, Advance, Intend, MergeFails,
       RecordCandidate, Validate, EvaluationFails, RecordDecision, Mark, Look, Move, Recheck,
       RecordPublication, TrustBarrier, Barrier, Inspect, Cancel, runner, EffectMoves
  <2> QED
    BY <2>1, <2>2, <2>3
<1>2. ASSUME NEW p, NEW r, Other(p, r)
      PROVE  EffectMoves(a, s)
  <2>1. CASE Begin(p, r)
    BY <2>1, BeginSchedules
  <2>2. CASE EndRun(r)
    <3>1. effect[a][s] \in EffectRecords
      BY DEF Typed, TypeOK
    <3>2. CASE a[1] = r /\ effect[a][s].status \in Unsettled
      <4>1. effect'[a][s] = [effect[a][s] EXCEPT !.asked = TRUE]
        BY <2>2, <3>2 DEF EndRun
      <4>2. Asked(a, s)
        BY <2>2, <3>1, <3>2, <4>1 DEF Asked, EffectRecords
      <4> QED
        BY <4>2 DEF EffectMoves
    <3>3. CASE ~(a[1] = r /\ effect[a][s].status \in Unsettled)
      BY <2>2, <3>3 DEF EndRun, EffectMoves
    <3> QED
      BY <3>2, <3>3
  <2>3. CASE ~Begin(p, r) /\ ~EndRun(r)
    BY <1>2, <2>3 DEF Other, ContextLapses, Abort, Crash, RunLeaseLapses, Register, Admit,
       SlotLapses, runner, EffectMoves
  <2> QED
    BY <2>1, <2>2, <2>3
<1> QED
  BY <1>1, <1>2, NextSteps

\* What a cycle sets out to do.
Plans(p) ==
  LET a == job'[p].at
      s == job'[p].stage
      e == effect[a][s]
      m == job'[p].mode
      l == pc'[p]
  IN
  /\ pc[p] = "plan" /\ HoldsRun(p) /\ job'[p].run = job[p].run
  /\ a \in Attempt /\ s \in Stage /\ a[1] = job[p].run
  /\ \/ m = "dispatch" /\ l = Entry(s) /\ e.status = "queued" /\ a[1] \notin ended
        /\ effect'[a][s].status = "open"
     \/ /\ e.status \in Unsettled /\ effect' = effect
        /\ \/ m = "inspect" /\ l = "commit"
           \/ m = "inspect" /\ l = "inspect" /\ ~e.asked
           \/ m = "cancel" /\ l = "cancel" /\ e.asked
  /\ ctx'[p] /\ verdict'[p] \in {"none", "cancelled", "failed"}

LEMMA PlanPlans ==
  ASSUME Typed, NEW p \in Service, Plan(p), ~Gone(p)
  PROVE  Plans(p)
<1>1. /\ job \in [Service -> Jobs] /\ effect \in [Attempt -> [Stage -> EffectRecords]]
      /\ pc \in [Service -> Labels] /\ ctx \in [Service -> BOOLEAN]
      /\ verdict \in [Service -> Verdicts]
  BY DEF Typed, TypeOK, LocalOK
<1>2. HoldsRun(p)
  BY LeaveMoves DEF Plan, Quit
<1>3. PICK e \in Workable(effect, job[p].run) :
        LET rec == effect[e[1]][e[2]]
            choice == Chosen(rec)
        IN /\ job' = [job EXCEPT ![p] = [run |-> job[p].run, at |-> e[1], stage |-> e[2],
                       mode |-> IF choice = "settle" THEN "inspect" ELSE choice]]
           /\ ctx' = [ctx EXCEPT ![p] = TRUE]
           /\ pc' = [pc EXCEPT ![p] =
                CASE choice = "dispatch" -> Entry(e[2])
                  [] choice = "settle" -> "commit"
                  [] OTHER -> choice]
           /\ verdict' = [verdict EXCEPT ![p] =
                IF choice # "settle" THEN "none"
                ELSE IF rec.status = "open" THEN "cancelled" ELSE "failed"]
           /\ effect' = IF choice = "dispatch"
                        THEN [effect EXCEPT ![e[1]][e[2]].status = "open"] ELSE effect
  BY <1>2 DEF Plan
<1> DEFINE rec == effect[e[1]][e[2]]
           choice == Chosen(rec)
<1>4. /\ e[1] \in Attempt /\ e[2] \in Stage /\ e[1][1] = job[p].run
      /\ \/ rec.status = "queued" /\ job[p].run \notin ended
         \/ rec.status \in Unsettled
  BY DEF Workable
<1>5. \/ choice = "dispatch" /\ rec.status = "queued"
      \/ choice = "settle" /\ rec.status # "queued"
      \/ choice = "inspect" /\ rec.status # "queued" /\ ~rec.asked
      \/ choice = "cancel" /\ rec.status # "queued" /\ rec.asked
  <2>1. rec \in EffectRecords
    BY <1>1, <1>4
  <2> QED
    BY <2>1 DEF Chosen, EffectRecords
<1>6. /\ job'[p].run = job[p].run /\ job'[p].at = e[1] /\ job'[p].stage = e[2]
      /\ job'[p].mode = IF choice = "settle" THEN "inspect" ELSE choice
  BY <1>1, <1>3
<1>7. pc'[p] = CASE choice = "dispatch" -> Entry(e[2])
                 [] choice = "settle" -> "commit"
                 [] OTHER -> choice
  BY <1>1, <1>3
<1>8. ctx'[p] /\ verdict'[p] \in {"none", "cancelled", "failed"}
  BY <1>1, <1>3
<1>9. choice = "dispatch" => effect'[e[1]][e[2]].status = "open"
  <2>1. rec \in EffectRecords
    BY <1>1, <1>4
  <2> QED
    BY <1>1, <1>3, <1>4, <2>1 DEF EffectRecords
<1>10. choice # "dispatch" => effect' = effect
  BY <1>3
<1>11. rec.status \in Unsettled => rec.status # "queued"
  BY DEF Unsettled
<1>12. pc[p] = "plan"
  BY DEF Plan
<1> HIDE DEF choice
<1>13. CASE choice = "dispatch"
  BY <1>2, <1>4, <1>5, <1>6, <1>7, <1>8, <1>9, <1>11, <1>12, <1>13 DEF Plans
<1>14. CASE choice # "dispatch"
  <2>1. rec.status \in Unsettled
    BY <1>4, <1>5, <1>14
  <2>2. choice \in {"settle", "inspect", "cancel"}
    BY <1>5, <1>14
  <2>3. pc'[p] = IF choice = "settle" THEN "commit" ELSE choice
    BY <1>7, <2>2
  <2> QED
    BY <1>2, <1>4, <1>5, <1>6, <1>8, <1>10, <1>12, <1>14, <2>1, <2>2, <2>3 DEF Plans
<1> QED
  BY <1>13, <1>14

\* A lease that holds after a step, and not of a cycle just begun, held
\* before.
LEMMA StillHolds ==
  ASSUME Typed, Next, NEW q \in Service, pc'[q] \in Hosted, HoldsRun(q)'
  PROVE  HoldsRun(q) /\ job'[q].run = job[q].run
<1>1. /\ job \in [Service -> Jobs] /\ runLease \in [Run -> Leases] /\ pc \in [Service -> Labels]
      /\ \A p \in Service : Fits(pc[p], job[p], verdict[p])
  BY DEF Typed, TypeOK, LocalOK
<1>2. ASSUME NEW p \in Service, Step(p)
      PROVE  HoldsRun(q) /\ job'[q].run = job[q].run
  <2>1. job'[q].run = job[q].run
    <3>1. CASE p = q
      BY <1>2, <3>1, StepMoves, PlanPlans DEF Gone, Hosted, SameEffect, Plans
    <3> QED
      BY <1>2, <3>1, StepMoves DEF Alone
  <2>2. CASE CommitEffect(p)
    <3>1. job[p].run \in Run
      BY <1>1, <2>2 DEF Fits, CommitEffect
    <3>2. runLease' = runLease \/ runLease' = [runLease EXCEPT ![job[p].run].live = FALSE]
      BY <2>2 DEF CommitEffect
    <3>3. q # p
      BY <2>2, LeaveMoves DEF CommitEffect, Quit, Gone, Hosted
    <3>4. job[q].run \in Run
      BY <1>1, <1>2, <3>3, StepMoves DEF Alone, Fits, Hosted
    <3> QED
      BY <1>1, <2>1, <3>1, <3>2, <3>4 DEF HoldsRun, Leases
  <2>3. CASE ~CommitEffect(p)
    <3>1. runLease' = runLease
      BY <1>2, <2>3 DEF Step, Plan, Broken, ClaimSlot, Advance, Intend, MergeFails,
         RecordCandidate, Validate, EvaluationFails, RecordDecision, Mark, Look, Move, Recheck,
         RecordPublication, TrustBarrier, Barrier, Inspect, Cancel, runner
    <3> QED
      BY <2>1, <3>1 DEF HoldsRun
  <2> QED
    BY <2>2, <2>3
<1>3. ASSUME NEW p, NEW r, Other(p, r)
      PROVE  HoldsRun(q) /\ job'[q].run = job[q].run
  <2>1. CASE p \in Service /\ r \in Run /\ Begin(p, r)
    <3>1. p # q
      BY <1>1, <2>1 DEF Begin, Hosted
    <3>2. job'[q] = job[q]
      BY <1>1, <2>1, <3>1 DEF Begin
    <3>3. runLease' = [runLease EXCEPT ![r] = [owner |-> p, live |-> TRUE]]
      BY <2>1 DEF Begin
    <3>4. job[q].run # r
      BY <1>1, <2>1, <3>1, <3>2, <3>3 DEF HoldsRun
    <3> QED
      BY <1>1, <3>2, <3>3, <3>4 DEF HoldsRun
  <2>2. CASE p \in Service /\ (Abort(p) \/ Crash(p))
    BY <1>1, <2>2, LeaveMoves DEF Abort, Crash, Quit, Gone, Alone, Hosted, runner, HoldsRun
  <2>3. CASE RunLeaseLapses(r)
    BY <1>1, <2>3 DEF RunLeaseLapses, HoldsRun, Leases
  <2>4. CASE ContextLapses(p) \/ Register(r) \/ Admit(r) \/ EndRun(r) \/ SlotLapses
    BY <2>4 DEF ContextLapses, Register, Admit, EndRun, SlotLapses, runner, local, frame, HoldsRun
  <2> QED
    BY <1>3, <2>1, <2>2, <2>3, <2>4 DEF Other
<1> QED
  BY <1>2, <1>3, NextSteps

\* How the others move: they begin, end or lose time, and nobody else's cycle
\* goes to another label.
OtherMoves(q) ==
  \/ Gone(q)
  \/ pc'[q] = "plan" /\ pc[q] = "idle" /\ verdict'[q] = verdict[q] /\ ctx'[q] = ctx[q]
  \/ /\ pc'[q] = pc[q] /\ job'[q] = job[q] /\ held'[q] = held[q] /\ verdict'[q] = verdict[q]
     /\ ctx'[q] => ctx[q]

LEMMA OthersMove ==
  ASSUME Typed, NEW p, NEW r, Other(p, r), NEW q \in Service
  PROVE  OtherMoves(q)
<1>1. /\ job \in [Service -> Jobs] /\ pc \in [Service -> Labels] /\ ctx \in [Service -> BOOLEAN]
      /\ held \in [Service -> Fences] /\ verdict \in [Service -> Verdicts]
  BY DEF Typed, LocalOK
<1>2. CASE p \in Service /\ r \in Run /\ Begin(p, r)
  BY <1>1, <1>2 DEF Begin, OtherMoves
<1>3. CASE p \in Service /\ (Abort(p) \/ Crash(p))
  BY <1>1, <1>3, LeaveMoves DEF Abort, Crash, Quit, Alone, OtherMoves
<1>4. CASE p \in Service /\ ContextLapses(p)
  BY <1>1, <1>4 DEF ContextLapses, OtherMoves
<1>5. CASE RunLeaseLapses(r)
  <2>1. UNCHANGED <<pc, job, held, verdict>>
    BY <1>5 DEF RunLeaseLapses
  <2>2. ctx'[q] => ctx[q]
    BY <1>1, <1>5 DEF RunLeaseLapses
  <2> QED
    BY <2>1, <2>2 DEF OtherMoves
<1>6. CASE Register(r) \/ Admit(r) \/ EndRun(r) \/ SlotLapses
  BY <1>6 DEF Register, Admit, EndRun, SlotLapses, local, frame, OtherMoves
<1> QED
  BY <1>2, <1>3, <1>4, <1>5, <1>6 DEF Other

Stays(q) ==
  /\ pc'[q] = pc[q] /\ job'[q] = job[q] /\ held'[q] = held[q] /\ verdict'[q] = verdict[q]
  /\ ctx'[q] => ctx[q]

\* A service at a label of a host call stayed there, has just set out, or has
\* come from another such label with the same effect.
LEMMA HostedMove ==
  ASSUME Typed, Next, NEW q \in Service, pc'[q] \in Hosted
  PROVE  \/ Stays(q)
         \/ Step(q) /\ Plan(q) /\ Plans(q)
         \/ Step(q) /\ ~Plan(q) /\ SameEffect(q) /\ Arrives(q) /\ Concludes(q)
<1>1. ASSUME NEW p \in Service, Step(p)
      PROVE  Stays(q) \/ p = q
  BY <1>1, StepMoves DEF Alone, Stays
<1>2. ASSUME NEW p, NEW r, Other(p, r)
      PROVE  Stays(q)
  BY <1>2, OthersMove DEF OtherMoves, Gone, Hosted, Stays
<1>3. CASE Step(q)
  BY <1>3, StepMoves, PlanPlans, StepArrives, StepConcludes DEF Gone, Hosted
<1> QED
  BY <1>1, <1>2, <1>3, NextSteps

\* What a transition allows, read backwards.
LEMMA AllowedMeans ==
  ASSUME NEW old \in States, NEW new \in AllowedFrom[old]
  PROVE  /\ new \in {"candidate-created", "cancelled", "validating", "conflicted", "gate-failed",
                     "publishing", "rework-required", "published", "target-moved",
                     "barrier-recorded"}
         /\ new = "candidate-created" => old = "claimed"
         /\ new = "cancelled" => old \in {"claimed", "candidate-created", "validating"}
         /\ new \in {"validating", "conflicted"} => old = "candidate-created"
         /\ new \in {"gate-failed", "publishing"} => old = "validating"
         /\ new = "rework-required" => old \in {"validating", "gate-failed"}
         /\ new = "published" => old = "publishing"
         /\ new = "target-moved" => old \in {"publishing", "published"}
         /\ new = "barrier-recorded" => old = "published"
BY DEF AllowedFrom

\* How service p changes attempt b's record.
Change(p, b) ==
  LET old == attempt[b]
      new == attempt'[b]
  IN
  /\ b = job[p].at /\ pc[p] \in Hosted
  /\ \/ /\ pc[p] = "intend" /\ old.state = "absent" /\ new.state = "intent"
        /\ new.owner = old.owner /\ new.fence = old.fence
        /\ new.gate = old.gate /\ new.barrier = old.barrier
     \/ /\ pc[p] \in DOMAIN AfterClaim /\ ctx[p] /\ MayClaim(p, b)
        /\ new.state = "claimed" /\ new.owner = p /\ new.fence = slot'.fence
        /\ new.gate = old.gate /\ new.barrier = old.barrier
        /\ slot'.live /\ slot'.owner = p
     \/ /\ Owned(b) /\ new.owner = old.owner /\ new.fence = old.fence
        /\ slot'.owner = slot.owner /\ slot'.fence = slot.fence
        /\ new.state \in Terminal => ~slot'.live
        /\ \/ /\ <<pc[p], new.state>> \in RecordedAt /\ new.state \in AllowedFrom[old.state]
              /\ new.gate = old.gate /\ new.barrier = old.barrier
           \/ /\ pc[p] = "evaluate" /\ old.state \in {"validating", "gate-failed"}
              /\ old.gate \in {"none", new.gate} /\ new.barrier = old.barrier
              /\ \/ new.gate = "passed" /\ new.state = "validating"
                 \/ new.gate = "failed" /\ new.state = "gate-failed"
           \/ /\ pc[p] = "barrier" /\ old.state \in {"published", "barrier-recorded"}
              /\ new.gate = old.gate /\ new.barrier /\ new.state = "barrier-recorded"

LEMMA WritesChange ==
  ASSUME Typed, NEW p \in Service, Writes(p), NEW b \in Attempt
  PROVE  attempt'[b] = attempt[b] \/ Change(p, b)
<1>1. attempt \in [Attempt -> Records] /\ slot \in Slots /\ pc[p] \in Labels
      /\ Fits(pc[p], job[p], verdict[p])
  BY DEF Typed, TypeOK, AuthorityTypeOK, LocalOK
<1>2. attempt[b] \in Records
  BY <1>1
<1>3. attempt[b].state \in States
  BY <1>2 DEF Records
<1>4. CASE attempt' = attempt
  BY <1>4
<1>5. CASE WriteIntent(p)
  <2>1. CASE b = job[p].at /\ attempt[b].state = "absent"
    <3>1. attempt'[b] = [attempt[b] EXCEPT !.state = "intent"]
      BY <1>1, <1>5, <2>1 DEF WriteIntent, PersistIntent
    <3> QED
      BY <1>2, <1>5, <2>1, <3>1 DEF WriteIntent, Records, Change, Hosted, Labels
  <2>2. CASE ~(b = job[p].at /\ attempt[b].state = "absent")
    BY <1>1, <1>5, <2>2 DEF WriteIntent, PersistIntent
  <2> QED
    BY <2>1, <2>2
<1>6. CASE WriteClaim(p)
  <2> DEFINE fence == IF slot.live THEN slot.fence ELSE slot.fence + 1
  <2>1. /\ slot' = [owner |-> p, fence |-> fence, live |-> TRUE]
        /\ attempt' = [attempt EXCEPT ![job[p].at].state = "claimed", ![job[p].at].owner = p,
                                      ![job[p].at].fence = fence]
        /\ pc[p] \in DOMAIN AfterClaim /\ ctx[p] /\ MayClaim(p, job[p].at)
    BY <1>6 DEF WriteClaim, Claim
  <2> HIDE DEF fence
  <2>2. pc[p] \in Hosted
    BY <2>1 DEF AfterClaim, Hosted, Labels
  <2>3. CASE b = job[p].at
    <3>1. attempt'[b] = [attempt[b] EXCEPT !.state = "claimed", !.owner = p, !.fence = fence]
      BY <1>1, <2>1, <2>3
    <3>2. /\ attempt'[b].state = "claimed" /\ attempt'[b].owner = p /\ attempt'[b].fence = fence
          /\ attempt'[b].gate = attempt[b].gate /\ attempt'[b].barrier = attempt[b].barrier
      BY <1>2, <3>1 DEF Records
    <3> QED
      BY <2>1, <2>2, <2>3, <3>2 DEF Change
  <2>4. CASE b # job[p].at
    BY <1>1, <2>1, <2>4
  <2> QED
    BY <2>3, <2>4
<1>7. ASSUME NEW state \in States, WriteState(p, state)
      PROVE  attempt'[b] = attempt[b] \/ Change(p, b)
  <2>1. CASE b = job[p].at /\ state # attempt[b].state
    <3>1. attempt'[b] = [attempt[b] EXCEPT !.state = state]
      BY <1>1, <1>7, <2>1 DEF WriteState, RecordState
    <3>2. /\ attempt'[b].state = state /\ attempt'[b].owner = attempt[b].owner
          /\ attempt'[b].fence = attempt[b].fence
          /\ attempt'[b].gate = attempt[b].gate /\ attempt'[b].barrier = attempt[b].barrier
      BY <1>2, <3>1 DEF Records
    <3>3. state \in AllowedFrom[attempt[b].state]
      BY <1>7, <2>1 DEF WriteState, Allowed
    <3>4. /\ slot'.owner = slot.owner /\ slot'.fence = slot.fence
          /\ state \in Terminal => ~slot'.live
      BY <1>1, <1>7, <2>1 DEF WriteState, RecordState, Slots
    <3>5. pc[p] \in Hosted
      BY <1>7 DEF WriteState, RecordedAt, AfterAdvance, Hosted, Labels
    <3> QED
      BY <1>7, <2>1, <3>2, <3>3, <3>4, <3>5 DEF WriteState, Change
  <2>2. CASE b = job[p].at /\ state = attempt[b].state
    BY <1>1, <1>2, <1>7, <2>2 DEF WriteState, RecordState, Records
  <2>3. CASE b # job[p].at
    BY <1>1, <1>7, <2>3 DEF WriteState, RecordState
  <2> QED
    BY <2>1, <2>2, <2>3
<1>8. ASSUME NEW decision \in {"passed", "failed"}, WriteGate(p, decision)
      PROVE  attempt'[b] = attempt[b] \/ Change(p, b)
  <2> DEFINE state == IF decision = "passed" THEN "validating" ELSE "gate-failed"
  <2>1. attempt' = [attempt EXCEPT ![job[p].at].gate = decision, ![job[p].at].state = state]
        /\ slot' = slot
    BY <1>8 DEF WriteGate, RecordGate
  <2>2. state \notin Terminal
    BY DEF Terminal, Released
  <2>3. CASE b = job[p].at
    <3> HIDE DEF state
    <3>1. attempt'[b] = [attempt[b] EXCEPT !.gate = decision, !.state = state]
      BY <1>1, <2>1, <2>3
    <3>2. /\ attempt'[b].state = state /\ attempt'[b].owner = attempt[b].owner
          /\ attempt'[b].fence = attempt[b].fence
          /\ attempt'[b].gate = decision /\ attempt'[b].barrier = attempt[b].barrier
      BY <1>2, <3>1 DEF Records
    <3>3. pc[p] \in Hosted
      BY <1>8 DEF WriteGate, Hosted, Labels
    <3> QED
      BY <1>8, <2>1, <2>2, <2>3, <3>2, <3>3 DEF WriteGate, MayRecordGate, Change, state
  <2>4. CASE b # job[p].at
    BY <1>1, <2>1, <2>4
  <2> QED
    BY <2>3, <2>4
<1>9. CASE WriteBarrier(p)
  <2>1. CASE b = job[p].at /\ ~attempt[b].barrier
    <3>1. attempt'[b] = [attempt[b] EXCEPT !.state = "barrier-recorded", !.barrier = TRUE]
          /\ slot' = [slot EXCEPT !.live = FALSE]
      BY <1>1, <1>9, <2>1 DEF WriteBarrier, RecordBarrier
    <3>2. /\ attempt'[b].state = "barrier-recorded" /\ attempt'[b].owner = attempt[b].owner
          /\ attempt'[b].fence = attempt[b].fence
          /\ attempt'[b].gate = attempt[b].gate /\ attempt'[b].barrier
      BY <1>2, <3>1 DEF Records
    <3>3. slot'.owner = slot.owner /\ slot'.fence = slot.fence /\ ~slot'.live
      BY <1>1, <3>1 DEF Slots
    <3>4. pc[p] \in Hosted
      BY <1>9 DEF WriteBarrier, Hosted, Labels
    <3> QED
      BY <1>9, <2>1, <3>2, <3>3, <3>4 DEF WriteBarrier, Change
  <2>2. CASE ~(b = job[p].at /\ ~attempt[b].barrier)
    BY <1>1, <1>9, <2>2 DEF WriteBarrier, RecordBarrier
  <2> QED
    BY <2>1, <2>2
<1> QED
  BY <1>4, <1>5, <1>6, <1>7, <1>8, <1>9 DEF Writes

LEMMA AttemptSteps ==
  ASSUME Typed, Next, NEW b \in Attempt
  PROVE  attempt'[b] = attempt[b] \/ \E p \in Service : Step(p) /\ Change(p, b)
BY NextWrites, WritesChange DEF OthersWrite
=============================================================================
