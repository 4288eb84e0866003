-------------------------- MODULE RunnerAuthority --------------------------
(***************************************************************************)
(* The durable authority of one run: the SQLite tables behind              *)
(* SqliteRunnerAuthority (packages/storage-sqlite/src/index.ts) and the    *)
(* conditions its transactions test.  Every transaction runs under         *)
(* BEGIN IMMEDIATE, so each is one atomic step of the modules that extend  *)
(* this one; a transaction that throws rolls back and changes nothing.     *)
(*                                                                         *)
(* Only what the transactions compare is kept:                             *)
(*   - a lease's expiry is the flag `live`;                                *)
(*   - a task scope is accepting until it is fenced, and a fence is never  *)
(*     lifted, so the scope a command was queued with is still current     *)
(*     exactly when its task is not in `fenced`;                           *)
(*   - an attempt identity is unique to one supervisor cycle, so it is     *)
(*     enough that a cycle knows which intents it wrote itself.            *)
(***************************************************************************)
EXTENDS Integers, FiniteSets

CONSTANTS
  Owner,              \* incarnations of the supervisor process
  NoOwner,            \* nobody has held the lease yet
  Op,                 \* effect operations, numbered in operation order
  WorkerOp,           \* the operations whose command kind is "worker"
  WriterOp,           \* the operations that reserve one writer slot
  Task,
  TaskOf,             \* the task an operation belongs to
  ContextTask,        \* the tasks whose scope the context broker registered
  Amount,             \* the budget an operation reserves
  InitialLimit,       \* the admitted budget limit
  Ceiling,            \* the allowance policy's maximum limit
  WriterLimit,        \* the limit of the "writer" capacity
  MaxReconciliation   \* maxReconciliationAttempts of every command

ASSUME OwnerAssumption == NoOwner \notin Owner
ASSUME OpAssumption ==
  /\ Op \subseteq Nat /\ IsFiniteSet(Op)
  /\ WorkerOp \subseteq Op /\ WriterOp \subseteq Op
ASSUME TaskAssumption == ContextTask \subseteq Task /\ TaskOf \in [Op -> Task]
ASSUME BudgetAssumption ==
  /\ Amount \in [Op -> Nat \ {0}]
  /\ InitialLimit \in Nat /\ Ceiling \in Nat
ASSUME LimitAssumption ==
  WriterLimit \in Nat /\ MaxReconciliation \in Nat \ {0}

VARIABLES
  lease,      \* the row of table leases for this run
  mode,       \* run_control_state.mode
  fenced,     \* tasks whose scope no longer accepts claims
  queued,     \* operations with a row in runner_commands
  intents,    \* operations with a row in runner_effect_intents
  claim,      \* runner_effect_claims, at most one row per operation
  outcome,    \* the latest row of runner_effect_outcomes
  cancelled,  \* operations with a row in runner_cancellation_requests
  escalated,  \* operations with a row in runner_escalations
  resolved,   \* operations with a row in runner_allowance_resolutions
  limit, reserved, spent,  \* the row of runner_budgets
  occupied    \* runner_capacities.occupied

budgetVars == <<limit, reserved, spent, occupied>>
durableVars == <<lease, mode, fenced, queued, intents, claim, outcome,
                 cancelled, escalated, resolved, budgetVars>>

----------------------------------------------------------------------------
(* Values *)

Modes == {"running", "paused", "ending", "ended"}
Origins == {"dispatch", "inspection", "cancellation", "settlement"}
Terminal == {"completed", "failed", "cancelled"}
Statuses == Terminal \cup {"active", "unknown"}

Leases == [owner : Owner \cup {NoOwner}, fence : Nat, live : BOOLEAN]

\* A claim records who took it, under which fence, for which action, and
\* whether the scope was already fenced; fence 0 stands for "no row".
Claims == [owner : Owner \cup {NoOwner}, fence : Nat,
           origin : Origins, stale : BOOLEAN]
NoClaim == [owner |-> NoOwner, fence |-> 0,
            origin |-> "dispatch", stale |-> FALSE]

Outcomes == [status : Statuses \cup {"none"}, attempts : Nat,
             origin : Origins, fresh : BOOLEAN]
NoOutcome == [status |-> "none", attempts |-> 0,
              origin |-> "dispatch", fresh |-> TRUE]

DurableTypeOK ==
  /\ lease \in Leases
  /\ mode \in Modes
  /\ fenced \subseteq Task
  /\ queued \subseteq Op
  /\ intents \subseteq Op
  /\ claim \in [Op -> Claims]
  /\ outcome \in [Op -> Outcomes]
  /\ cancelled \subseteq Op
  /\ escalated \subseteq Op
  /\ resolved \subseteq Op
  /\ limit \in Nat /\ reserved \in Nat /\ spent \in Nat /\ occupied \in Nat

DurableInit ==
  /\ lease = [owner |-> NoOwner, fence |-> 0, live |-> FALSE]
  /\ mode = "running"
  /\ fenced = {}
  /\ queued = {}
  /\ intents = {}
  /\ claim = [o \in Op |-> NoClaim]
  /\ outcome = [o \in Op |-> NoOutcome]
  /\ cancelled = {}
  /\ escalated = {}
  /\ resolved = {}
  /\ limit = InitialLimit
  /\ reserved = 0
  /\ spent = 0
  /\ occupied = 0

----------------------------------------------------------------------------
(* What the transactions ask of the tables *)

IsFenced(o) == TaskOf[o] \in fenced
IsTerminal(o) == outcome[o].status \in Terminal
OpenIntents == {o \in intents : ~IsTerminal(o)}

\* assertRunnerFence: the caller names the lease row exactly and it is live.
HoldsLease(p, fence) ==
  lease.live /\ lease.owner = p /\ lease.fence = fence

\* acquireLeaseTransaction: a live lease of the same owner keeps its fence,
\* a dead one is taken with the next fence, a live one of another owner is
\* unavailable.
LeaseAvailable(p) == lease.live => lease.owner = p
\* (Faulty variant: a takeover keeps the fence of the lease it takes.)
GrantedFenceKept == IF lease.fence = 0 THEN 1 ELSE lease.fence
GrantedFence == IF lease.live THEN lease.fence ELSE lease.fence + 1
AcquireLease(p) ==
  /\ LeaseAvailable(p)
  /\ lease' = [owner |-> p, fence |-> GrantedFence, live |-> TRUE]

\* An escalation counts as answered once it has a resolution row, or once
\* the budget not yet spent covers the request (reservations not deducted).
HasRoomUnspent(o) == limit - spent >= Amount[o]
IsAnswered(o) == o \in resolved \/ HasRoomUnspent(o)

\* Admission itself deducts the reservations of the open intents.
\* (Faulty variants: reservations are not deducted; room for one too many.)
AvailableUnreserved == limit - spent
AvailableOffByOne == limit - spent - reserved + 1
Available == limit - spent - reserved
\* (Faulty variant: the slots in use are not deducted.)
FreeSlotsUnoccupied == WriterLimit
FreeSlots == WriterLimit - occupied
HasSlot(o) == o \in WriterOp => FreeSlots >= 1
SlotsOf(o) == IF o \in WriterOp THEN 1 ELSE 0

\* (Faulty variants of the next definition: any attempt dispatches an effect
\* without an outcome; a cancellation is looked at only after an outcome.)
AttemptActionRedispatching(o, cancelRequired, ownIntent) ==
  CASE outcome[o].status = "none" -> IF cancelRequired THEN "settlement" ELSE "dispatch"
    [] outcome[o].status # "none" /\ cancelRequired -> "cancellation"
    [] OTHER -> IF outcome[o].attempts >= MaxReconciliation THEN "settlement"
                                                            ELSE "inspection"
AttemptActionDeaf(o, cancelRequired, ownIntent) ==
  CASE outcome[o].status = "none" -> IF ownIntent THEN "dispatch" ELSE "inspection"
    [] outcome[o].status # "none" /\ cancelRequired -> "cancellation"
    [] OTHER -> IF outcome[o].attempts >= MaxReconciliation THEN "settlement"
                                                            ELSE "inspection"

\* selectEffectAttemptAction, given whether cancellation is required by a
\* request or a passed deadline, and whether this very attempt wrote the
\* intent.
AttemptAction(o, cancelRequired, ownIntent) ==
  CASE outcome[o].status = "none" /\ cancelRequired -> "settlement"
    [] outcome[o].status = "none" /\ ~cancelRequired /\ ownIntent -> "dispatch"
    [] outcome[o].status = "none" /\ ~cancelRequired /\ ~ownIntent -> "inspection"
    [] outcome[o].status # "none" /\ cancelRequired
         /\ outcome[o].origin # "cancellation" -> "cancellation"
    [] outcome[o].status # "none" /\ cancelRequired
         /\ outcome[o].origin = "cancellation" -> "settlement"
    [] outcome[o].status # "none" /\ ~cancelRequired
         /\ outcome[o].attempts >= MaxReconciliation -> "settlement"
    [] OTHER -> "inspection"

\* installDurableTaskScopeFences stops the scopes from accepting claims and
\* asks for the cancellation of every open intent of those tasks.
\* (Faulty variant: only effects that have reported are cancelled.)
OpenIntentsOfReported(tasks) ==
  {o \in OpenIntents : TaskOf[o] \in tasks /\ outcome[o].status # "none"}
OpenIntentsOf(tasks) == {o \in OpenIntents : TaskOf[o] \in tasks}
InstallFences(tasks) ==
  /\ fenced' = fenced \cup tasks
  /\ cancelled' = cancelled \cup OpenIntentsOf(tasks)

\* commitEffect's count of reconciliations.  (Faulty variant: without the cap.)
NextAttemptsUncapped(o, status) ==
  IF outcome[o].status = "none"
  THEN IF status = "unknown" THEN 1 ELSE 0
  ELSE outcome[o].attempts + 1
NextAttempts(o, status) ==
  LET next == outcome[o].attempts + 1 IN
  IF outcome[o].status = "none"
  THEN IF status = "unknown" THEN 1 ELSE 0
  ELSE IF next <= MaxReconciliation THEN next ELSE MaxReconciliation

\* listRunnableRuns: unstarted commands count while running, open intents
\* until the run has ended.  (Faulty variant: both only while running.)
RunnableWhileRunning == mode = "running" /\ (queued \ intents) \cup OpenIntents # {}
Runnable ==
  \/ mode = "running" /\ queued \ intents # {}
  \/ mode # "ended" /\ OpenIntents # {}
============================================================================
