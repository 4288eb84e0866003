---------------------------- MODULE Integration ----------------------------
(***************************************************************************)
(* Worktree mode's integration of finished work onto the integration       *)
(* branch: the stages #scheduleIntegration enqueues                        *)
(* (apps/senawa/src/production-scheduler.ts), the effect host that carries *)
(* them out (packages/execution-host: durable-workspace-effect-host.ts and *)
(* git-integration.ts) over IntegrationAuthority, and the barrier and the  *)
(* completion that follow.                                                 *)
(*                                                                         *)
(* Every transaction, Git command and host answer is a step of its own.  A *)
(* slot lapses no later than the context of the host call that claimed it, *)
(* and the context no later than the run's lease, as expiry times go.  The *)
(* runner around the host is FencedRunner's, one effect per cycle.  A run  *)
(* has one phase and one graph revision, and its members are captured.     *)
(***************************************************************************)
EXTENDS IntegrationAuthority, SequencesExt

CONSTANTS
  MaxReconciliation,  \* maxReconciliationAttempts
  Endable,            \* runs that a person may end
  Faulty,             \* services that may crash, or hang past their leases
  HangsIn,            \* the stages in which they hang, and
  QuietFence          \* the slot's fence up to which they do

ASSUME IntegrationAssumption ==
  /\ MaxReconciliation \in Nat
  /\ Endable \subseteq Run
  /\ Faulty \subseteq Service
  /\ HangsIn \subseteq {"prepare", "validate", "publish"}
  /\ QuietFence \in Nat

VARIABLES
  effect,    \* per attempt and stage: the Git effect's record
  runLease,  \* per run: the supervisor's lease
  ended,     \* runs whose mode is "ending"
  base,      \* per run: the revision its dispatches were registered at
  branch,    \* the integration branch, oldest commit first
  pc, job,   \* per service: where it is in a cycle, and with what
  ctx,       \* per service: the host context's lease has not run out
  held,      \* per service: the slot owner and fence it goes by
  verdict    \* per service: what Git, the gate or the host has said

runner == <<effect, runLease, ended>>
frame == <<job, ctx, held, verdict>>
local == <<pc, frame>>
vars == <<stored, runner, base, branch, local>>

----------------------------------------------------------------------------
(* Values *)

Stage == {"prepare", "validate", "publish"}

\* Commits of the branch: an attempt's candidate goes by the attempt's name,
\* what the branch began with by another.  No one else commits to it.
Origin == <<0, 1>>
Commit == Attempt \cup {Origin}
Tip == branch[Len(branch)]
Moved(a) == a \in Range(branch)

Settled == {"completed", "failed", "cancelled"}
Unsettled == {"open", "active", "unknown"}
Statuses == {"none", "queued"} \cup Unsettled \cup Settled
Unqueued == [status |-> "none", tries |-> 0, asked |-> FALSE, byCancel |-> FALSE]

\* "advance" labels carry an attempt on to "publishing", "claim" labels
\* claim the slot; the rest are named for the step that comes next.
Labels ==
  {"idle", "dead", "plan", "intend", "claim-prepare", "merge", "conflicted",
   "validate", "evaluate", "rework", "claim-check", "mark", "claim-again",
   "advance-again", "look", "claim-final", "advance-final", "move", "recheck",
   "advance-settle", "record", "trust", "barrier", "inspect", "claim-found",
   "advance-found", "found", "cancel", "broken", "commit"}
Modes == {"dispatch", "inspect", "cancel", "lost", "lost-cancel"}
Verdicts ==
  {"none", "candidate", "conflict", "passed", "failed", "refused", "interrupted", "new",
   "other", "active", "unknown", "completed", "cancelled"}

EffectRecords == [status : Statuses, tries : 0..MaxReconciliation,
                  asked : BOOLEAN, byCancel : BOOLEAN]
Leases == [owner : Service \cup {NoService}, live : BOOLEAN]
Jobs == [run : Run \cup {0}, at : Attempt \cup {NoAttempt}, stage : Stage, mode : Modes]
Fences == [owner : Service \cup {NoService}, fence : Nat]

NoJob == [run |-> 0, at |-> NoAttempt, stage |-> "prepare", mode |-> "dispatch"]
NoOne == [owner |-> NoService, fence |-> 0]

Init ==
  /\ AuthorityInit
  /\ effect = [a \in Attempt |-> [s \in Stage |-> Unqueued]]
  /\ runLease = [r \in Run |-> [owner |-> NoService, live |-> FALSE]]
  /\ ended = {}
  /\ base = [r \in Run |-> NoAttempt]
  /\ branch = <<Origin>>
  /\ pc = [p \in Service |-> "idle"]
  /\ job = [p \in Service |-> NoJob]
  /\ ctx = [p \in Service |-> FALSE]
  /\ held = [p \in Service |-> NoOne]
  /\ verdict = [p \in Service |-> "none"]

----------------------------------------------------------------------------
(* Moves of one service *)

Goto(p, label) == pc' = [pc EXCEPT ![p] = label] /\ UNCHANGED frame

Conclude(p, what, label) ==
  /\ pc' = [pc EXCEPT ![p] = label]
  /\ verdict' = [verdict EXCEPT ![p] = what]
  /\ UNCHANGED <<job, ctx, held>>

Leave(p, label) ==
  /\ pc' = [pc EXCEPT ![p] = label]
  /\ job' = [job EXCEPT ![p] = NoJob]
  /\ ctx' = [ctx EXCEPT ![p] = FALSE]
  /\ held' = [held EXCEPT ![p] = NoOne]
  /\ verdict' = [verdict EXCEPT ![p] = "none"]

\* A cycle that ends, however it ends.
Quit(p) == Leave(p, "idle")

HoldsRun(p) == runLease[job[p].run] = [owner |-> p, live |-> TRUE]

\* recordIntegrationState under owner o and fence f: a stale fence ends the
\* cycle with the lease still held, a forbidden transition breaks the call.
Record(p, a, o, f, state, label) ==
  \/ /\ Fenced(a, o, f) /\ Allowed(a, state)
     /\ RecordState(a, state)
     /\ Goto(p, label)
  \/ /\ Fenced(a, o, f) /\ ~Allowed(a, state)
     /\ Goto(p, "broken")
     /\ UNCHANGED <<attempt, slot>>
  \/ /\ ~Fenced(a, o, f)
     /\ Quit(p)
     /\ UNCHANGED <<attempt, slot>>

RecordHeld(p, state, label) ==
  Record(p, job[p].at, held[p].owner, held[p].fence, state, label)

\* What follows the end of an "advance" loop, and of a claim.
AfterAdvance ==
  [label \in {"advance-again", "advance-final", "advance-found", "advance-settle"} |->
     CASE label = "advance-again" -> "look"
       [] label = "advance-final" -> "move"
       [] label = "advance-found" -> "found"
       [] label = "advance-settle" -> "record"]
AfterClaim ==
  [label \in {"claim-prepare", "claim-check", "claim-again", "claim-final", "claim-found"} |->
     CASE label = "claim-prepare" -> "merge"
       [] label = "claim-check" -> "mark"
       [] label = "claim-again" -> "advance-again"
       [] label = "claim-final" -> "advance-final"
       [] label = "claim-found" -> "advance-found"]

----------------------------------------------------------------------------
(* The runner's cycle *)

\* #scheduleIntegration: the stage the run's latest attempt is due.  (Faulty
\* variant: publication does not wait for the gate.)
Made(r) == {a \in Attempt : a[1] = r /\ attempt[a].state # "absent"}
DueOnGate(r, decisions) ==
  LET n == Cardinality(Made(r))
      a == <<r, n>>
  IN IF n = 0 THEN {<<<<r, 1>>, "prepare">>}
     ELSE IF attempt[a].state = "rework-required"
     THEN {<<<<r, n + 1>>, "prepare">>} \cap (Attempt \X Stage)
     ELSE IF effect[a]["prepare"].status # "completed" THEN {}
     ELSE IF attempt[a].state = "candidate-created" /\ attempt[a].gate = "none"
     THEN {<<a, "validate">>}
     ELSE IF attempt[a].state = "validating" /\ attempt[a].gate \in decisions
     THEN {<<a, "publish">>}
     ELSE {}
DueUngated(r) == DueOnGate(r, {"none", "passed"})
Due(r) == DueOnGate(r, {"passed"})

Enqueued(r) ==
  [a \in Attempt |-> [s \in Stage |->
     IF r \notin ended /\ <<a, s>> \in Due(r) /\ effect[a][s].status = "none"
     THEN [Unqueued EXCEPT !.status = "queued"] ELSE effect[a][s]]]

Workable(eff, r) ==
  {e \in Attempt \X Stage :
     /\ e[1][1] = r
     /\ \/ eff[e[1]][e[2]].status = "queued" /\ r \notin ended
        \/ eff[e[1]][e[2]].status \in Unsettled}

\* runOnceAsync up to the effects: the lease, then the schedule.  Cycles with
\* nothing to work on are left out.
Begin(p, r) ==
  /\ pc[p] = "idle"
  /\ ~runLease[r].live
  /\ base[r] # NoAttempt
  /\ Workable(Enqueued(r), r) # {}
  /\ runLease' = [runLease EXCEPT ![r] = [owner |-> p, live |-> TRUE]]
  /\ effect' = Enqueued(r)
  /\ pc' = [pc EXCEPT ![p] = "plan"]
  /\ job' = [job EXCEPT ![p].run = r]
  /\ UNCHANGED <<stored, ended, base, branch, ctx, held, verdict>>

\* selectEffectAttemptAction.
Chosen(e) ==
  IF e.status = "queued" THEN "dispatch"
  ELSE IF e.status = "open" THEN IF e.asked THEN "settle" ELSE "inspect"
  ELSE IF e.asked /\ ~e.byCancel THEN "cancel"
  ELSE IF e.asked \/ e.tries >= MaxReconciliation THEN "settle"
  ELSE "inspect"

\* Where a dispatch enters the host.
Entry(s) ==
  CASE s = "prepare" -> "intend" [] s = "validate" -> "validate" [] s = "publish" -> "claim-check"

\* One effect is claimed, under a lease that is asserted; the host's context
\* carries that lease.
Plan(p) ==
  /\ pc[p] = "plan"
  /\ IF ~HoldsRun(p) THEN Quit(p) /\ UNCHANGED effect
     ELSE \E e \in Workable(effect, job[p].run) :
       LET rec == effect[e[1]][e[2]]
           choice == Chosen(rec)
       IN /\ job' = [job EXCEPT ![p] = [run |-> job[p].run, at |-> e[1], stage |-> e[2],
                       mode |-> IF choice = "settle" THEN "inspect" ELSE choice]]
          /\ ctx' = [ctx EXCEPT ![p] = TRUE]
          /\ pc' = [pc EXCEPT ![p] =
               CASE choice = "dispatch" -> Entry(e[2])
                 [] choice = "settle" -> "commit"
                 [] OTHER -> choice]
          /\ verdict' = [verdict EXCEPT ![p] =
               IF choice # "settle" THEN "none"
               ELSE IF rec.status = "open" THEN "cancelled" ELSE "failed"]
          /\ effect' = IF choice = "dispatch"
                       THEN [effect EXCEPT ![e[1]][e[2]].status = "open"] ELSE effect
          /\ UNCHANGED held
  /\ UNCHANGED <<stored, runLease, ended, base, branch>>

\* The status of the observation a host call has come to.  (Faulty variant:
\* what Git said is taken for a status.)
ObservedRaw(p) == verdict[p]
Observed(p) ==
  CASE verdict[p] \in {"candidate", "passed", "new"} -> "completed"
    [] verdict[p] = "conflict" -> "failed"
    [] verdict[p] = "other" -> IF job[p].mode = "dispatch" THEN "failed" ELSE "cancelled"
    [] OTHER -> verdict[p]

\* commitEffect, for a lease that still holds, and the release of the lease.
CommitEffect(p) ==
  /\ pc[p] = "commit"
  /\ Quit(p)
  /\ IF ~HoldsRun(p) THEN UNCHANGED <<effect, runLease>>
     ELSE LET a == job[p].at
              s == job[p].stage
              before == effect[a][s]
              status == Observed(p)
              tries == IF before.status = "open" THEN IF status = "unknown" THEN 1 ELSE 0
                       ELSE before.tries + 1
          IN /\ effect' = [effect EXCEPT ![a][s] =
                  [before EXCEPT !.status = status,
                     !.tries = IF tries <= MaxReconciliation THEN tries ELSE MaxReconciliation,
                     !.byCancel = job[p].mode \in {"cancel", "lost-cancel"}]]
             /\ runLease' = [runLease EXCEPT ![job[p].run].live = FALSE]
  /\ UNCHANGED <<stored, ended, base, branch>>

\* A host call that threw: after a dispatch or a cancellation the effect is
\* inspected once, under a lease asserted anew; otherwise it is unknown.
Broken(p) ==
  /\ pc[p] = "broken"
  /\ IF job[p].mode \notin {"dispatch", "cancel"} THEN Conclude(p, "unknown", "commit")
     ELSE IF ~HoldsRun(p) THEN Quit(p)
     ELSE /\ pc' = [pc EXCEPT ![p] = "inspect"]
          /\ job' = [job EXCEPT ![p].mode = IF @ = "cancel" THEN "lost-cancel" ELSE "lost"]
          /\ ctx' = [ctx EXCEPT ![p] = TRUE]
          /\ UNCHANGED <<held, verdict>>
  /\ UNCHANGED <<stored, runner, base, branch>>

----------------------------------------------------------------------------
(* The effect host: claims and advances *)

\* #claimIntegration.  A context that has run out cannot lease the slot.
ClaimSlot(p) ==
  LET a == job[p].at IN
  /\ pc[p] \in DOMAIN AfterClaim
  /\ IF ctx[p] /\ Replays(p, a)
     THEN /\ held' = [held EXCEPT ![p] = [owner |-> p, fence |-> attempt[a].fence]]
          /\ pc' = [pc EXCEPT ![p] = AfterClaim[pc[p]]]
          /\ UNCHANGED <<attempt, slot, job, ctx, verdict>>
     ELSE IF ctx[p] /\ MayClaim(p, a)
     THEN /\ Claim(p, a)
          /\ held' = [held EXCEPT ![p] = [owner |-> p, fence |-> slot'.fence]]
          /\ pc' = [pc EXCEPT ![p] = AfterClaim[pc[p]]]
          /\ UNCHANGED <<job, ctx, verdict>>
     ELSE Goto(p, "broken") /\ UNCHANGED <<attempt, slot>>
  /\ UNCHANGED <<trusted, eligible, runner, base, branch>>

\* #advanceToPublishing, a transaction per state.
Advance(p) ==
  LET state == attempt[job[p].at].state IN
  /\ pc[p] \in DOMAIN AfterAdvance
  /\ \/ state = "claimed" /\ RecordHeld(p, "candidate-created", pc[p])
     \/ state = "candidate-created" /\ RecordHeld(p, "validating", pc[p])
     \/ state = "validating" /\ RecordHeld(p, "publishing", AfterAdvance[pc[p]])
     \/ /\ state \notin {"claimed", "candidate-created", "validating"}
        /\ Goto(p, AfterAdvance[pc[p]])
        /\ UNCHANGED <<attempt, slot>>
  /\ UNCHANGED <<trusted, eligible, runner, base, branch>>

----------------------------------------------------------------------------
(* The effect host: prepare and validate *)

\* #prepareIntegration: the intent, the claim, then merge-tree and
\* commit-tree, which touch no branch and may fail.
Intend(p) ==
  /\ pc[p] = "intend"
  /\ PersistIntent(job[p].at)
  /\ Goto(p, "claim-prepare")
  /\ UNCHANGED <<slot, trusted, eligible, runner, base, branch>>

MergeFails(p) ==
  /\ pc[p] = "merge"
  /\ Goto(p, "broken")
  /\ UNCHANGED <<stored, runner, base, branch>>

\* recordIntegrationState, when the fence holds, of an outcome just come to.
RecordOutcome(p, state, what, label) ==
  LET a == job[p].at IN
  \/ /\ Fenced(a, held[p].owner, held[p].fence) /\ Allowed(a, state)
     /\ RecordState(a, state)
     /\ Conclude(p, what, label)
  \/ /\ ~(Fenced(a, held[p].owner, held[p].fence) /\ Allowed(a, state))
     /\ RecordHeld(p, state, label)

RecordCandidate(p) ==
  /\ \/ pc[p] = "merge" /\ RecordOutcome(p, "candidate-created", "candidate", "commit")
     \/ pc[p] = "merge" /\ RecordOutcome(p, "candidate-created", "conflict", "conflicted")
     \/ pc[p] = "conflicted" /\ RecordHeld(p, "conflicted", "commit")
  /\ UNCHANGED <<trusted, eligible, runner, base, branch>>

\* #validateIntegration goes by the owner and fence it finds on the attempt,
\* whoever that is, and claims nothing.
Validate(p) ==
  LET a == job[p].at
      found == [owner |-> attempt[a].owner, fence |-> attempt[a].fence]
  IN
  /\ pc[p] = "validate"
  /\ IF attempt[a].state = "candidate-created" /\ ~Fenced(a, found.owner, found.fence)
     THEN Quit(p) /\ UNCHANGED <<attempt, slot>>
     ELSE /\ IF attempt[a].state = "candidate-created" THEN RecordState(a, "validating")
             ELSE UNCHANGED <<attempt, slot>>
          /\ held' = [held EXCEPT ![p] = found]
          /\ pc' = [pc EXCEPT ![p] = "evaluate"]
          /\ UNCHANGED <<job, ctx, verdict>>
  /\ UNCHANGED <<trusted, eligible, runner, base, branch>>

\* The gate runs in a worktree of its own, when that can be made; its
\* decision is recorded.
EvaluationFails(p) ==
  /\ pc[p] = "evaluate"
  /\ Goto(p, "broken")
  /\ UNCHANGED <<stored, runner, base, branch>>

RecordDecision(p) ==
  LET a == job[p].at
      fenced == Fenced(a, held[p].owner, held[p].fence)
  IN
  /\ \/ /\ pc[p] = "evaluate"
        /\ \E decision \in {"passed", "failed"} :
             /\ fenced /\ MayRecordGate(a, decision)
             /\ RecordGate(a, decision)
             /\ Conclude(p, decision, IF decision = "failed" THEN "rework" ELSE "commit")
        /\ UNCHANGED slot
     \/ /\ pc[p] = "evaluate"
        /\ \E decision \in {"passed", "failed"} : fenced /\ ~MayRecordGate(a, decision)
        /\ Goto(p, "broken")
        /\ UNCHANGED <<attempt, slot>>
     \/ pc[p] = "evaluate" /\ ~fenced /\ Quit(p) /\ UNCHANGED <<attempt, slot>>
     \/ pc[p] = "rework" /\ RecordHeld(p, "rework-required", "commit")
  /\ UNCHANGED <<trusted, eligible, runner, base, branch>>

----------------------------------------------------------------------------
(* The effect host: publish *)

\* #publishIntegration between its first two claims.
Mark(p) ==
  LET a == job[p].at IN
  /\ pc[p] = "mark"
  /\ \/ /\ attempt[a].gate # "passed"
        /\ Goto(p, "broken")
        /\ UNCHANGED <<attempt, slot>>
     \/ /\ attempt[a].gate = "passed" /\ attempt[a].state = "validating"
        /\ RecordHeld(p, "publishing", "claim-again")
     \/ /\ attempt[a].gate = "passed" /\ attempt[a].state # "validating"
        /\ Goto(p, "claim-again")
        /\ UNCHANGED <<attempt, slot>>
  /\ UNCHANGED <<trusted, eligible, runner, base, branch>>

\* What inspectPublication tells of the branch.  (Faulty variant: a branch
\* that has moved has moved to the candidate.)
StandingMoved(a) == IF Tip = base[a[1]] THEN "old" ELSE "new"
Standing(a) ==
  CASE Tip = base[a[1]] -> "old" [] Tip = a -> "new" [] OTHER -> "other"

\* What follows a publication's verdict: an inspection advances once more.
AfterVerdict(p) == IF job[p].mode = "dispatch" THEN "record" ELSE "advance-settle"

\* GitIntegrationAdapter.publish's first look, and inspect's own.
Look(p) ==
  LET standing == Standing(job[p].at) IN
  /\ pc[p] \in {"look", "found"}
  /\ \/ standing = "old" /\ Goto(p, IF pc[p] = "look" THEN "claim-final" ELSE "claim-again")
     \/ standing # "old" /\ Conclude(p, standing, AfterVerdict(p))
     \/ Goto(p, "broken")
  /\ UNCHANGED <<stored, runner, base, branch>>

\* update-ref with the expected old commit.  It may be refused for another
\* reason than the branch's tip, and it may not be answered.  (Faulty
\* variant: without the expected old commit.)
MoveBlindly(p) ==
  /\ pc[p] = "move"
  /\ \/ /\ branch' = Append(branch, job[p].at)
        /\ \/ Conclude(p, "new", AfterVerdict(p))
           \/ Conclude(p, "interrupted", "recheck")
     \/ \E why \in {"refused", "interrupted"} : Conclude(p, why, "recheck") /\ UNCHANGED branch
  /\ UNCHANGED <<stored, runner, base>>
Move(p) ==
  /\ pc[p] = "move"
  /\ \/ /\ Tip = base[job[p].run]
        /\ branch' = Append(branch, job[p].at)
        /\ \/ Conclude(p, "new", AfterVerdict(p))
           \/ Conclude(p, "interrupted", "recheck")
     \/ \E why \in {"refused", "interrupted"} : Conclude(p, why, "recheck") /\ UNCHANGED branch
  /\ UNCHANGED <<stored, runner, base>>

\* publish's look after an update-ref that did not say it had succeeded,
\* which may fail as well where calls fail.
Recheck(p) ==
  LET standing == Standing(job[p].at) IN
  /\ pc[p] = "recheck"
  /\ \/ standing = "new" /\ Conclude(p, "new", AfterVerdict(p))
     \/ /\ standing # "new"
        /\ verdict[p] = "refused" \/ standing = "other"
        /\ Conclude(p, "other", AfterVerdict(p))
     \/ p \in Faulty /\ Goto(p, "broken")
  /\ UNCHANGED <<stored, runner, base, branch>>

\* The rest of #publishIntegration, and of inspect: what Git said is recorded.
RecordPublication(p) ==
  LET known == job[p].mode # "dispatch" /\ attempt[job[p].at].state = "published" IN
  /\ pc[p] = "record"
  /\ \/ verdict[p] = "new" /\ known /\ Goto(p, "trust") /\ UNCHANGED <<attempt, slot>>
     \/ verdict[p] = "new" /\ ~known /\ RecordHeld(p, "published", "trust")
     \/ verdict[p] = "other" /\ RecordHeld(p, "target-moved", "commit")
  /\ UNCHANGED <<trusted, eligible, runner, base, branch>>

\* #recordBarrier: the command authority's barrier first, then the attempt's.
TrustBarrier(p) ==
  LET a == job[p].at IN
  /\ pc[p] = "trust"
  /\ \/ trusted[a[1]] \in {NoAttempt, a} /\ Trust(a) /\ Goto(p, "barrier")
        /\ UNCHANGED <<attempt, slot>>
     \/ /\ trusted[a[1]] \notin {NoAttempt, a}
        /\ RecordHeld(p, "target-moved", "broken")
        /\ UNCHANGED trusted
  /\ UNCHANGED <<eligible, runner, base, branch>>

Barrier(p) ==
  LET a == job[p].at
      fenced == Fenced(a, held[p].owner, held[p].fence)
      published == attempt[a].state \in {"published", "barrier-recorded"}
  IN
  /\ pc[p] = "barrier"
  /\ \/ fenced /\ published /\ RecordBarrier(a) /\ Goto(p, "commit")
     \/ fenced /\ ~published /\ Goto(p, "broken") /\ UNCHANGED <<attempt, slot>>
     \/ ~fenced /\ Quit(p) /\ UNCHANGED <<attempt, slot>>
  /\ UNCHANGED <<trusted, eligible, runner, base, branch>>

----------------------------------------------------------------------------
(* The effect host: inspect and cancel *)

\* An inspection of a publication carries it on; one of the other stages only
\* tells what the attempt's record says.  A missing attempt is dispatched
\* anew, unless it was looked for after a lost answer.
Inspect(p) ==
  LET a == job[p].at
      state == attempt[a].state
  IN
  /\ pc[p] = "inspect"
  /\ \/ /\ state = "absent" /\ job[p].mode = "inspect"
        /\ job' = [job EXCEPT ![p].mode = "dispatch"]
        /\ pc' = [pc EXCEPT ![p] = Entry(job[p].stage)]
        /\ UNCHANGED <<ctx, held, verdict>>
     \/ state = "absent" /\ job[p].mode # "inspect" /\ Conclude(p, "unknown", "commit")
     \/ state = "barrier-recorded" /\ Conclude(p, "completed", "commit")
     \/ /\ state \notin {"absent", "barrier-recorded"} /\ job[p].stage = "publish"
        /\ Goto(p, "claim-found")
     \/ /\ state \notin {"absent", "barrier-recorded"} /\ job[p].stage # "publish"
        /\ Conclude(p, IF state \in Terminal THEN "cancelled" ELSE "active", "commit")
  /\ UNCHANGED <<stored, runner, base, branch>>

\* A cancellation goes by the attempt's own owner and fence, whoever it is.
Cancel(p) ==
  LET a == job[p].at
      owner == attempt[a].owner
      fence == attempt[a].fence
      uncertain == /\ job[p].stage = "publish"
                   /\ attempt[a].state \in {"publishing", "published", "barrier-recorded"}
  IN
  /\ pc[p] = "cancel"
  /\ \/ uncertain /\ Conclude(p, "unknown", "commit") /\ UNCHANGED <<attempt, slot>>
     \/ /\ ~uncertain /\ owner = NoService
        /\ Conclude(p, "cancelled", "commit")
        /\ UNCHANGED <<attempt, slot>>
     \/ /\ ~uncertain /\ owner # NoService
        /\ Fenced(a, owner, fence) /\ Allowed(a, "cancelled")
        /\ RecordState(a, "cancelled")
        /\ Conclude(p, "cancelled", "commit")
     \/ /\ ~uncertain /\ owner # NoService
        /\ ~(Fenced(a, owner, fence) /\ Allowed(a, "cancelled"))
        /\ Record(p, a, owner, fence, "cancelled", "broken")
  /\ UNCHANGED <<trusted, eligible, runner, base, branch>>

----------------------------------------------------------------------------
(* Everyone else *)

\* A run's dispatches are registered at the branch as it is.
Register(r) ==
  /\ base[r] = NoAttempt
  /\ base' = [base EXCEPT ![r] = Tip]
  /\ UNCHANGED <<stored, runner, branch, local>>

\* recordCompletionEligibility.
Admit(r) ==
  /\ r \notin eligible
  /\ Integrated(r)
  /\ eligible' = eligible \cup {r}
  /\ UNCHANGED <<attempt, slot, trusted, runner, base, branch, local>>

\* A person ends a run: its open effects are asked to cancel, and nothing of
\* it starts or is scheduled any more.  (Runs that have none are not ended.)
EndRun(r) ==
  /\ r \in Endable \ ended
  /\ \E a \in Attempt, s \in Stage : a[1] = r /\ effect[a][s].status \in Unsettled
  /\ ended' = ended \cup {r}
  /\ effect' = [a \in Attempt |-> [s \in Stage |->
       IF a[1] = r /\ effect[a][s].status \in Unsettled
       THEN [effect[a][s] EXCEPT !.asked = TRUE] ELSE effect[a][s]]]
  /\ UNCHANGED <<stored, runLease, base, branch, local>>

----------------------------------------------------------------------------
(* Time and failure *)

Down(p) == pc[p] \in {"idle", "dead"}
Disturbed(p) ==
  \/ Down(p)
  \/ p \in Faulty /\ job[p].stage \in HangsIn /\ slot.fence <= QuietFence

\* The slot was claimed by p for run r.
SlotOf(p, r) ==
  /\ slot.owner = p
  /\ \E a \in Attempt : a[1] = r /\ attempt[a].owner = p /\ attempt[a].fence = slot.fence
LapseSlot(p, r) == slot' = IF SlotOf(p, r) THEN [slot EXCEPT !.live = FALSE] ELSE slot

SlotLapses ==
  /\ slot.live
  /\ Disturbed(slot.owner)
  /\ slot' = [slot EXCEPT !.live = FALSE]
  /\ UNCHANGED <<attempt, trusted, eligible, runner, base, branch, local>>

ContextLapses(p) ==
  /\ ctx[p] /\ Disturbed(p)
  /\ ctx' = [ctx EXCEPT ![p] = FALSE]
  /\ LapseSlot(p, job[p].run)
  /\ UNCHANGED <<attempt, trusted, eligible, runner, base, branch, pc, job, held, verdict>>

RunLeaseLapses(r) ==
  LET p == runLease[r].owner IN
  /\ runLease[r].live /\ Disturbed(p)
  /\ runLease' = [runLease EXCEPT ![r].live = FALSE]
  /\ ctx' = [ctx EXCEPT ![p] = @ /\ job[p].run # r]
  /\ LapseSlot(p, r)
  /\ UNCHANGED <<attempt, trusted, eligible, effect, ended, base, branch, pc, job, held, verdict>>

\* A renewal that failed aborts the cycle at its next await.
Abort(p) ==
  /\ ~Down(p)
  /\ ~HoldsRun(p)
  /\ Quit(p)
  /\ UNCHANGED <<stored, runner, base, branch>>

\* The process dies; another goes on.
Crash(p) ==
  /\ p \in Faulty
  /\ pc[p] # "dead"
  /\ \E q \in Service \ {p} : pc[q] # "dead"
  /\ Leave(p, "dead")
  /\ UNCHANGED <<stored, runner, base, branch>>

----------------------------------------------------------------------------
(* Specification *)

Step(p) ==
  \/ Plan(p) \/ CommitEffect(p) \/ Broken(p)
  \/ ClaimSlot(p) \/ Advance(p)
  \/ Intend(p) \/ MergeFails(p) \/ RecordCandidate(p)
  \/ Validate(p) \/ EvaluationFails(p) \/ RecordDecision(p)
  \/ Mark(p) \/ Look(p) \/ Move(p) \/ Recheck(p)
  \/ RecordPublication(p) \/ TrustBarrier(p) \/ Barrier(p)
  \/ Inspect(p) \/ Cancel(p)

Next ==
  \/ \E p \in Service : Step(p) \/ ContextLapses(p) \/ Abort(p) \/ Crash(p)
  \/ \E p \in Service, r \in Run : Begin(p, r)
  \/ \E r \in Run : Register(r) \/ Admit(r) \/ EndRun(r) \/ RunLeaseLapses(r)
  \/ SlotLapses

Spec == Init /\ [][Next]_vars

----------------------------------------------------------------------------
(* Properties *)

\* Each variable holds a value of its kind.
TypeOK ==
  /\ AuthorityTypeOK
  /\ effect \in [Attempt -> [Stage -> EffectRecords]]
  /\ runLease \in [Run -> Leases]
  /\ ended \subseteq Run
  /\ base \in [Run -> Commit \cup {NoAttempt}]
  /\ branch \in Seq(Commit)
  /\ pc \in [Service -> Labels]
  /\ job \in [Service -> Jobs]
  /\ ctx \in [Service -> BOOLEAN]
  /\ held \in [Service -> Fences]
  /\ verdict \in [Service -> Verdicts]

\* Only what the gate has passed reaches the branch: an inspection publishes
\* without asking for the gate, and relies on the scheduler having done so
\* (#scheduleIntegration; durable-workspace-effect-host.ts's inspect).
GatedBeforePublished == \A a \in Attempt : Moved(a) => attempt[a].gate = "passed"

\* Two runs never have their integrations in progress at once
\* (runner_integration_one_active_repository_idx), also while one service
\* still goes by a lease that another has taken over.
OneIntegrationAtATime ==
  \A a, b \in Attempt :
    attempt[a].state \in Active /\ attempt[b].state \in Active => a = b

\* The barrier on an attempt is the one the command authority trusts for its
\* run, and stands for work that is on the branch, whichever of the two
\* transactions of #recordBarrier a crash came between.
TrustedAgrees ==
  /\ \A a \in Attempt : attempt[a].barrier => trusted[a[1]] = a
  /\ \A r \in Run : trusted[r] # NoAttempt => Moved(trusted[r])

\* An attempt changes hands with the slot: once an attempt has an owner, its
\* record changes only under the slot's lease, and goes on naming that
\* lease's owner and fence (#assertIntegrationFence), however late the
\* service that changes it wakes up.
OnlyUnderTheSlot ==
  [][\A a \in Attempt :
       attempt'[a] # attempt[a] /\ attempt'[a].owner # NoService =>
         /\ slot.live \/ slot'.live
         /\ slot'.owner = attempt'[a].owner /\ slot'.fence = attempt'[a].fence]_vars

\* A run's completion is found eligible only once its work is on the branch
\* and the barrier says so (DurableCompletionEligibility; a task that closes
\* before its integration is a disproof of the design).
CompletionAfterIntegration ==
  \A r \in eligible :
    \E a \in Attempt : a[1] = r /\ Moved(a) /\ attempt[a].gate = "passed" /\ attempt[a].barrier

\* The states of an attempt that say its work will not be on the branch.
GivenUp == {"conflicted", "rework-required", "cancelled"}
Ledger == INSTANCE IntegrationLedger WITH
  accepted <- {a \in Attempt : attempt[a].barrier},
  dropped <- {a \in Attempt : attempt[a].state \in GivenUp}

\* Attempts are integrated, accepted and given up as IntegrationLedger says:
\* a run's work enters the branch once, onto the revision it began from; what
\* was cancelled or sent back to rework never does.
LedgerSpec == Ledger!Spec
=============================================================================
