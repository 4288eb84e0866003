------------------------ MODULE IntegrationAuthority ------------------------
(***************************************************************************)
(* The durable integration records of a repository in worktree mode:       *)
(* SqliteWorkspaceIntegrationAuthority (packages/storage-sqlite).  Each    *)
(* run makes attempts to integrate its members' work; one lease, the       *)
(* repository's integration slot, fences all of them.  Each operator here  *)
(* is one immediate transaction, or the condition of one.                  *)
(***************************************************************************)
EXTENDS Integers

CONSTANTS
  Run,          \* runs of one repository, a set of positive integers
  Service,      \* incarnations of the daemon, the owners of the slot
  NoService,
  Attempt       \* <<run, ordinal>>: the attempts that may be made

ASSUME AuthorityAssumption ==
  /\ Run \subseteq Nat \ {0}
  /\ NoService \notin Service
  /\ Attempt \subseteq Run \X (Nat \ {0})
  /\ \A r \in Run : <<r, 1>> \in Attempt

VARIABLES
  attempt,  \* runner_integration_attempts, with gate and barrier
  slot,     \* the lease of the integration slot
  trusted,  \* per run: the attempt whose barrier the command authority holds
  eligible  \* runs whose completion facts have been found eligible

stored == <<attempt, slot, trusted, eligible>>

----------------------------------------------------------------------------
(* Values *)

NoAttempt == <<0, 0>>

Released == {"conflicted", "target-moved", "rework-required", "cancelled"}
Terminal == Released \cup {"barrier-recorded"}
\* The states of runner_integration_one_active_repository_idx.
Active == {"claimed", "candidate-created", "validating", "publishing"}
States == {"absent", "intent", "gate-failed", "published"} \cup Active \cup Terminal

\* isAllowedIntegrationTransition; nothing records "failed" or "unknown".
AllowedFrom ==
  [s \in States |->
     CASE s = "claimed" -> {"candidate-created", "cancelled"}
       [] s = "candidate-created" -> {"validating", "conflicted", "cancelled"}
       [] s = "validating" -> {"gate-failed", "publishing", "rework-required", "cancelled"}
       [] s = "gate-failed" -> {"rework-required"}
       [] s = "publishing" -> {"published", "target-moved"}
       [] s = "published" -> {"barrier-recorded", "target-moved"}
       [] OTHER -> {}]

AuthorityInit ==
  /\ attempt = [a \in Attempt |-> [state |-> "absent", owner |-> NoService, fence |-> 0,
                                   gate |-> "none", barrier |-> FALSE]]
  /\ slot = [owner |-> NoService, fence |-> 0, live |-> FALSE]
  /\ trusted = [r \in Run |-> NoAttempt]
  /\ eligible = {}

Records == [state : States, owner : Service \cup {NoService}, fence : Nat,
            gate : {"none", "passed", "failed"}, barrier : BOOLEAN]
Slots == [owner : Service \cup {NoService}, fence : Nat, live : BOOLEAN]

AuthorityTypeOK ==
  /\ attempt \in [Attempt -> Records]
  /\ slot \in Slots
  /\ trusted \in [Run -> Attempt \cup {NoAttempt}]
  /\ eligible \subseteq Run

----------------------------------------------------------------------------
(* Transactions *)

\* persistIntegrationIntent, which finds its own record on a replay.
PersistIntent(a) ==
  attempt' = IF attempt[a].state = "absent" THEN [attempt EXCEPT ![a].state = "intent"]
             ELSE attempt

\* claimIntegrationSlot's first branch: the attempt is already claimed by the
\* slot's live lease.
Replays(p, a) ==
  /\ attempt[a].state # "intent"
  /\ slot.live
  /\ attempt[a].owner = p /\ slot.owner = p /\ slot.fence = attempt[a].fence

SlotBusy(p, a) ==
  /\ slot.live
  /\ slot.owner # p \/ (attempt[a].state # "intent" /\ ~Replays(p, a))

\* The unique index admits one active attempt in the repository.  (Faulty
\* variant: without the index.)
OthersMayBeActive(a) == FALSE
AnotherIsActive(a) == \E b \in Attempt \ {a} : attempt[b].state \in Active

MayClaim(p, a) == ~SlotBusy(p, a) /\ ~Replays(p, a) /\ ~AnotherIsActive(a)

\* A claim moves the attempt to "claimed" from wherever it was, under the
\* live lease's fence or the next.
Claim(p, a) ==
  LET fence == IF slot.live THEN slot.fence ELSE slot.fence + 1 IN
  /\ slot' = [owner |-> p, fence |-> fence, live |-> TRUE]
  /\ attempt' = [attempt EXCEPT ![a].state = "claimed", ![a].owner = p, ![a].fence = fence]

\* #assertIntegrationFence, for a caller that goes by owner o and fence f.
\* (Faulty variant: the lease row is not looked at.)
GoesByAttempt(a, o, f) == attempt[a].owner = o /\ attempt[a].fence = f /\ f # 0
Fenced(a, o, f) ==
  /\ attempt[a].owner = o /\ attempt[a].fence = f /\ f # 0
  /\ slot.owner = o /\ slot.fence = f /\ slot.live

Allowed(a, state) == state = attempt[a].state \/ state \in AllowedFrom[attempt[a].state]

\* recordIntegrationState's writes: a terminal state releases the slot.
RecordState(a, state) ==
  /\ attempt' = [attempt EXCEPT ![a].state = state]
  /\ slot' = IF state \in Terminal /\ state # attempt[a].state
             THEN [slot EXCEPT !.live = FALSE] ELSE slot

\* recordIntegrationGate.
MayRecordGate(a, decision) ==
  /\ attempt[a].state \in {"validating", "gate-failed"}
  /\ attempt[a].gate \in {"none", decision}
RecordGate(a, decision) ==
  attempt' = [attempt EXCEPT ![a].gate = decision,
                ![a].state = IF decision = "passed" THEN "validating" ELSE "gate-failed"]

\* recordIntegrationBarrier.
RecordBarrier(a) ==
  IF attempt[a].barrier THEN UNCHANGED <<attempt, slot>>
  ELSE /\ attempt' = [attempt EXCEPT ![a].state = "barrier-recorded", ![a].barrier = TRUE]
       /\ slot' = [slot EXCEPT !.live = FALSE]

\* The command authority's record-integration-barrier: the first one stays.
Trust(a) ==
  /\ trusted[a[1]] \in {NoAttempt, a}
  /\ trusted' = [trusted EXCEPT ![a[1]] = a]

\* DurableCompletionEligibility.completionAdmission: one attempt with a
\* recorded barrier, which is the barrier the command authority holds.
\* (Faulty variant: published is enough.)
IntegratedWhenPublished(r) ==
  \E a \in Attempt : a[1] = r /\ attempt[a].state \in {"published", "barrier-recorded"}
Integrated(r) ==
  \E a \in Attempt :
    /\ {b \in Attempt : b[1] = r /\ attempt[b].state = "barrier-recorded"
                        /\ attempt[b].barrier} = {a}
    /\ trusted[r] = a
=============================================================================
