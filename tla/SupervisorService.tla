------------------------- MODULE SupervisorService -------------------------
(***************************************************************************)
(* The process that serves the command queue: SupervisorService            *)
(* (packages/supervisor/src/service.ts) and the cycle of                   *)
(* SupervisorRunController.runOnceAsync, as incarnations of the daemon     *)
(* start, drain, stop and die, beside one-shot processes that recover a    *)
(* run directly (recovery.ts).  CommandQueue has the transactions; the     *)
(* effects of a cycle are one step here and FencedRunner in detail.        *)
(*                                                                         *)
(* The daemon is one thread: what it does between two awaits of a cycle is *)
(* not interleaved with its own handlers, only with other processes.       *)
(***************************************************************************)
EXTENDS CommandQueue

CONSTANTS
  Daemon,      \* incarnations of the service
  Direct,      \* one-shot recoverers
  Bridged,     \* commands that come through the outbox of completions
  Working,     \* commands whose execution leaves an effect to run
  CycleLimit,  \* startupCycleLimit: cycles of a start, and of a pump
  MaxFailures  \* bounds the operations that throw

ASSUME ServiceAssumption ==
  /\ Owner = Daemon \cup Direct
  /\ Daemon \cap Direct = {}
  /\ Bridged \subseteq Command /\ Working \subseteq Command
  /\ CycleLimit \in Nat \ {0} /\ MaxFailures \in Nat

VARIABLES
  daemon,    \* the incarnation that runs, or NoOwner
  used,      \* processes that have run
  phase,     \* the service's lifecycle state; "listening": starting its listeners
  pump,      \* the loop of cycles: "on", "ending" (it returned), "failed" or "off"
  cycles,    \* cycles this loop has run
  deferred,  \* what the one retry timer waits for: {}, or a lease as <<run, owner>>;
             \* run 0 stands for a short while
  recovery,  \* the run a recovery is queued for, 0 for none
  cycle,     \* per process: the cycle in progress
  effects,   \* per run: no effect, one that is ready, or one that cannot run
  outbox,    \* per command: "none", "pending" or "delivered"
  failures

serviceVars == <<daemon, used, phase, pump, cycles, deferred, recovery>>
worldVars == <<effects, outbox, failures>>
vars == <<queueVars, serviceVars, cycle, worldVars>>

Phases == {"stopped", "starting", "listening", "running", "draining", "drained"}
Stages == {"idle", "begun", "claim", "execute", "answer", "deliver", "mark",
           "effects", "release", "settle"}
Soon == <<0, NoOwner>>
IdleCycle == [at |-> "idle", by |-> "none", run |-> 0, wake |-> 0,
              command |-> NoCommand, worked |-> FALSE]
CycleRecords == [at : Stages, by : {"none", "pump", "recovery", "direct"}, run : Run \cup {0},
                 wake : Nat, command : Command \cup {NoCommand}, worked : BOOLEAN]

ServiceTypeOK ==
  /\ daemon \in Daemon \cup {NoOwner}
  /\ used \subseteq Owner
  /\ phase \in Phases
  /\ pump \in {"off", "on", "ending", "failed"}
  /\ cycles \in 0..(CycleLimit - 1)
  /\ deferred \subseteq (Run \cup {0}) \X (Owner \cup {NoOwner})
  /\ recovery \in Run \cup {0}
  /\ cycle \in [Owner -> CycleRecords]
  /\ effects \in [Run -> {"none", "ready", "stuck"}]
  /\ outbox \in [Command -> {"none", "pending", "delivered"}]
  /\ failures \in 0..MaxFailures

\* Each record type is right, and the queue's as well.  (Every operation of
\* command-queue.ts and service.ts writes values of its columns' domains.)
TypeOK == QueueTypeOK /\ ServiceTypeOK

Init ==
  /\ QueueInit
  /\ daemon = NoOwner /\ used = {} /\ phase = "stopped" /\ pump = "off" /\ cycles = 0
  /\ deferred = {} /\ recovery = 0
  /\ cycle = [p \in Owner |-> IdleCycle]
  /\ effects = [r \in Run |-> "none"]
  /\ outbox = [c \in Command |-> "none"]
  /\ failures = 0

----------------------------------------------------------------------------
(* The cycle of one process on one run (runOnceAsync)                      *)

Idle(p) == cycle[p].at = "idle"
AtStage(p, stage) == cycle[p].at = stage
Goto(p, stage) == cycle' = [cycle EXCEPT ![p].at = stage]

\* The awaits of a cycle: whether effects are allowed, and the runner.
Yielding == daemon # NoOwner /\ cycle[daemon].at \in {"idle", "begun", "effects"}

MayDefer == phase \in {"starting", "listening", "running"}
\* #deferWakeUntil: of two retries the earlier stays.
\* (Faulty variant: also for a service that is draining.)
DeferAlways(retry) ==
  deferred' \in IF deferred = {} THEN {{retry}} ELSE {deferred, {retry}}
Defer(retry) ==
  IF MayDefer
  THEN deferred' \in IF deferred = {} THEN {{retry}} ELSE {deferred, {retry}}
  ELSE UNCHANGED deferred

\* The loop of start and of the pump takes the next cycle after one that worked.
\* (Faulty variant: one cycle too many.)
LoopEndLate(worked) ==
  IF ~worked THEN "ending"
  ELSE IF cycles < CycleLimit THEN "on"
  ELSE IF phase = "starting" THEN "failed" ELSE "ending"
LoopEnd(worked) ==
  IF ~worked THEN "ending"
  ELSE IF cycles + 1 < CycleLimit THEN "on"
  ELSE IF phase = "starting" THEN "failed" ELSE "ending"
CycleEnds(p, worked) ==
  /\ cycle' = [cycle EXCEPT ![p] = IdleCycle]
  /\ IF cycle[p].by = "pump"
     THEN /\ pump' = LoopEnd(worked)
          /\ cycles' = IF pump' = "on" THEN cycles + 1 ELSE 0
     ELSE UNCHANGED <<cycles, pump>>
  /\ UNCHANGED <<daemon, used, phase, recovery>>

\* An error leaves the lease to expire.
CycleThrows(p) ==
  /\ cycle' = [cycle EXCEPT ![p] = IdleCycle]
  /\ IF cycle[p].by = "pump"
     THEN pump' = "failed" /\ cycles' = 0
     ELSE UNCHANGED <<pump, cycles>>
  /\ UNCHANGED <<daemon, used, phase, deferred, recovery>>

\* A lease of another live owner ends the cycle before it began, and the run
\* is looked at again when that lease expires.
AcquireStep(p) ==
  LET r == cycle[p].run IN
  /\ AtStage(p, "begun")
  /\ \/ /\ AcquireRunLease(p, r)
        /\ Goto(p, "claim")
        /\ UNCHANGED serviceVars
     \/ /\ ~LeaseFree(p, r)
        /\ IF cycle[p].by = "pump"
           THEN CycleEnds(p, FALSE) /\ Defer(<<r, leased[r]>>)
           ELSE CycleThrows(p)
        /\ NoChange
  /\ UNCHANGED worldVars

ClaimStep(p) ==
  LET r == cycle[p].run IN
  /\ AtStage(p, "claim")
  /\ \/ \E c \in Command :
          /\ ClaimNext(p, r, c)
          /\ cycle' = [cycle EXCEPT ![p].at = "execute", ![p].command = c]
          /\ UNCHANGED serviceVars
     \/ /\ mode = "running" => CanClaim(p, r) /\ NextClaimable(r) = {}
        /\ Goto(p, "deliver")
        /\ NoChange /\ UNCHANGED serviceVars
     \/ /\ mode = "running" /\ ~CanClaim(p, r)
        /\ CycleThrows(p)
        /\ NoChange
  /\ UNCHANGED worldVars

ExecuteStep(p) ==
  LET c == cycle[p].command IN
  /\ AtStage(p, "execute")
  /\ Submit(c)
  /\ \E left \in {"ready", "stuck"} :
       effects' = IF c \in Working /\ applied[c] = 0
                  THEN [effects EXCEPT ![RunOf[c]] = left] ELSE effects
  /\ Goto(p, "answer")
  /\ UNCHANGED <<mode, leaseVars, state, place, claim, claimant, receipts, wakeVars,
                 serviceVars, outbox, failures>>

\* The notification of an answer wakes the service, which is in a cycle.  An
\* answer of which the lease has moved on is dropped with an error.
AnswerStep(p) ==
  LET c == cycle[p].command IN
  /\ AtStage(p, "answer")
  /\ \/ /\ AnswerTerminal(p, c)
        /\ cycle' = [cycle EXCEPT ![p].at = "deliver", ![p].worked = TRUE,
                                    ![p].command = NoCommand]
        /\ UNCHANGED serviceVars
     \/ /\ ~MayAnswer(p, c)
        /\ IF Holds(p, RunOf[c]) /\ state[c] = "terminal"
           THEN /\ cycle' = [cycle EXCEPT ![p].at = "deliver", ![p].worked = TRUE,
                                    ![p].command = NoCommand]
                /\ UNCHANGED serviceVars
           ELSE CycleThrows(p)
        /\ NoChange
  /\ UNCHANGED worldVars

\* The completion bridge: the command is accepted in one transaction and its
\* outbox entry is marked in the next.  A direct recovery has no bridge.
DeliverStep(p) ==
  /\ AtStage(p, "deliver")
  /\ \/ \E c \in Command :
          /\ p \in Daemon /\ outbox[c] = "pending"
          /\ Accept(c)
          /\ cycle' = [cycle EXCEPT ![p].at = "mark", ![p].command = c]
     \/ /\ p \in Daemon => \A c \in Command : outbox[c] # "pending"
        /\ cycle' = [cycle EXCEPT ![p].at = IF p \in Daemon THEN "effects" ELSE "release"]
        /\ NoChange
  /\ UNCHANGED <<serviceVars, worldVars>>

MarkStep(p) ==
  /\ AtStage(p, "mark")
  /\ outbox' = [outbox EXCEPT ![cycle[p].command] = "delivered"]
  /\ cycle' = [cycle EXCEPT ![p].at = "effects", ![p].worked = TRUE,
                              ![p].command = NoCommand]
  /\ UNCHANGED <<queueVars, serviceVars, effects, failures>>

\* One run of the effect runner; it reports no work for an effect it cannot run.
EffectsStep(p) ==
  LET r == cycle[p].run IN
  /\ AtStage(p, "effects")
  /\ effects' = [effects EXCEPT ![r] = IF @ = "ready" THEN "none" ELSE @]
  /\ cycle' = [cycle EXCEPT ![p].at = "release", ![p].worked = @ \/ effects[r] = "ready"]
  /\ UNCHANGED <<queueVars, serviceVars, outbox, failures>>

ReleaseStep(p) ==
  /\ AtStage(p, "release")
  /\ \/ /\ ReleaseRunLease(p, cycle[p].run)
        /\ Goto(p, "settle")
        /\ UNCHANGED serviceVars
     \/ /\ ~CanRelease(p, cycle[p].run)
        /\ CycleThrows(p)
        /\ NoChange
  /\ UNCHANGED worldVars

\* A cycle of the loop that did no work acknowledges the wake it began with.
SettleStep(p) ==
  LET r == cycle[p].run IN
  /\ AtStage(p, "settle")
  /\ IF cycle[p].wake > 0 /\ ~cycle[p].worked
     THEN AcknowledgeWake(r, cycle[p].wake)
     ELSE UNCHANGED acknowledged
  /\ CycleEnds(p, cycle[p].worked)
  /\ UNCHANGED <<mode, leaseVars, commandVars, generation, deferred, worldVars>>

\* A database that is busy, a clock that steps back, a command that cannot be
\* executed: any operation of a cycle may throw, but an error of the bridge is
\* contained and leaves its entry pending.
Fail(p) ==
  /\ ~Idle(p) /\ failures < MaxFailures
  /\ IF cycle[p].at = "mark"
     THEN /\ cycle' = [cycle EXCEPT ![p].at = "effects", ![p].command = NoCommand]
          /\ UNCHANGED serviceVars
     ELSE CycleThrows(p)
  /\ failures' = failures + 1
  /\ UNCHANGED <<queueVars, effects, outbox>>

CycleStep(p) ==
  \/ AcquireStep(p) \/ ClaimStep(p) \/ ExecuteStep(p) \/ AnswerStep(p)
  \/ DeliverStep(p) \/ MarkStep(p) \/ EffectsStep(p) \/ ReleaseStep(p)
  \/ SettleStep(p)

----------------------------------------------------------------------------
(* The service's loops and handlers                                        *)

\* A process that dies leaves its lease and its claims behind.
ProcessEnds == daemon' = NoOwner /\ phase' = "stopped" /\ pump' = "off" /\ deferred' = {}
               /\ recovery' = 0 /\ cycles' = 0 /\ UNCHANGED used

Start(d) ==
  /\ phase = "stopped" /\ d \in Daemon \ used
  /\ daemon' = d /\ used' = used \cup {d}
  /\ phase' = "starting" /\ pump' = "on"
  /\ SetMode("running")
  /\ UNCHANGED <<leaseVars, commandVars, wakeVars, cycles, deferred, recovery, cycle, worldVars>>

\* What #runCycle looks at: the first pending wake, then the first run with an
\* effect to run.
HasEffects(r) == effects[r] # "none"
Targets == IF PendingWakes # {} THEN PendingWakes ELSE {r \in Run : HasEffects(r)}

\* A cycle of the loop begins.  With nothing to do, and in a service that is
\* draining, it ends at once.
MayBegin == Targets # {} /\ phase # "draining"
BeginCycle ==
  /\ pump = "on" /\ daemon # NoOwner /\ Idle(daemon)
  /\ IF MayBegin
     THEN LET r == Earliest(Targets) IN
          /\ cycle' = [cycle EXCEPT ![daemon] =
               [IdleCycle EXCEPT !.at = "begun", !.by = "pump", !.run = r,
                  !.wake = IF PendingWakes # {} THEN generation[r] ELSE 0]]
          /\ UNCHANGED <<cycles, pump>>
     ELSE /\ cycles' = 0 /\ pump' = "ending"
          /\ UNCHANGED cycle
  /\ UNCHANGED <<queueVars, daemon, used, phase, deferred, recovery, worldVars>>

\* start: the first cycle without work ends the recovery, and the listeners
\* are started; an error, or too many cycles with work, end the service.
StartupRecovered ==
  /\ phase = "starting" /\ pump = "ending"
  /\ phase' = "listening" /\ pump' = "off"
  /\ UNCHANGED <<queueVars, daemon, used, cycles, deferred, recovery, cycle, worldVars>>
ReportRunning ==
  /\ phase = "listening"
  /\ phase' = "running"
  /\ UNCHANGED <<queueVars, daemon, used, pump, cycles, deferred, recovery, cycle, worldVars>>
StartupFails ==
  /\ phase = "starting" /\ pump = "failed"
  /\ SetMode("stopped") /\ ProcessEnds
  /\ UNCHANGED <<leaseVars, commandVars, wakeVars, cycle, worldVars>>

\* wake: ignored unless the service is running and its pump is off.
WakeUp ==
  pump' = IF phase = "running" /\ pump = "off" THEN "on" ELSE pump

\* The pump's end: after an error it is tried again shortly, otherwise at once
\* while a wake is pending.  (Faulty variant: in every state of the service.)
LooksAgainAlways == pump = "ending" /\ PendingWakes # {}
LooksAgain == pump = "ending" /\ PendingWakes # {} /\ phase = "running"
PumpEnds ==
  /\ phase # "starting" /\ pump \in {"ending", "failed"}
  /\ pump' = IF LooksAgain THEN "on" ELSE "off"
  /\ IF pump = "failed" THEN Defer(Soon) ELSE UNCHANGED deferred
  /\ UNCHANGED <<queueVars, daemon, used, phase, cycles, recovery, cycle, worldVars>>

\* The retry timer: a short while has passed, or the lease it waits for has
\* expired or was replaced.
IsDue(retry) ==
  retry # Soon => ~(live[retry[1]] /\ leased[retry[1]] = retry[2])
RetryFires ==
  /\ Yielding /\ \E retry \in deferred : IsDue(retry)
  /\ deferred' = {}
  /\ WakeUp
  /\ UNCHANGED <<queueVars, daemon, used, phase, cycles, recovery, cycle, worldVars>>

\* POST /commands, open once the listeners start: accept, and the notification.
SubmitCommand(c) ==
  /\ Yielding /\ phase \in {"listening", "running", "draining"}
  /\ c \notin Bridged /\ state[c] = "none"
  /\ Accept(c)
  /\ WakeUp
  /\ UNCHANGED <<daemon, used, phase, cycles, deferred, recovery, cycle, worldVars>>

\* The wake route of the operational listener.
RequestWake ==
  /\ Yielding /\ phase = "running" /\ pump = "off"
  /\ WakeUp
  /\ UNCHANGED <<queueVars, daemon, used, phase, cycles, deferred, recovery, cycle, worldVars>>

\* A worker's completion fact is recorded, to be delivered as a command.
RecordCompletion(c) ==
  /\ c \in Bridged /\ outbox[c] = "none"
  /\ outbox' = [outbox EXCEPT ![c] = "pending"]
  /\ UNCHANGED <<queueVars, serviceVars, cycle, effects, failures>>

\* The worker's submission delivers its fact itself when it can.
DeliverInline(c) ==
  /\ Yielding /\ outbox[c] = "pending"
  /\ Accept(c)
  /\ outbox' = [outbox EXCEPT ![c] = "delivered"]
  /\ WakeUp
  /\ UNCHANGED <<daemon, used, phase, cycles, deferred, recovery, cycle, effects, failures>>

\* recover: queued behind the operation in progress.
RequestRecovery(r) ==
  /\ Yielding /\ phase = "running" /\ recovery = 0
  /\ recovery' = r
  /\ UNCHANGED <<queueVars, daemon, used, phase, pump, cycles, deferred, cycle, worldVars>>
BeginRecovery ==
  /\ daemon # NoOwner /\ Idle(daemon) /\ recovery # 0
  /\ cycle' = [cycle EXCEPT ![daemon] =
       [IdleCycle EXCEPT !.at = "begun", !.by = "recovery", !.run = recovery]]
  /\ recovery' = 0
  /\ UNCHANGED <<queueVars, daemon, used, phase, pump, cycles, deferred, worldVars>>

\* senawa recover --direct, in a process of its own.
DirectRecover(p, r) ==
  /\ p \in Direct \ used
  /\ used' = used \cup {p}
  /\ cycle' = [cycle EXCEPT ![p] =
       [IdleCycle EXCEPT !.at = "begun", !.by = "direct", !.run = r]]
  /\ UNCHANGED <<queueVars, daemon, phase, pump, cycles, deferred, recovery, worldVars>>

\* drain: the retry is cancelled, and what is under way comes to its end.
\* (Faulty variant: the cycle in progress is not waited for.)
Drain ==
  /\ Yielding /\ phase = "running"
  /\ phase' = "draining" /\ SetMode("draining") /\ deferred' = {}
  /\ UNCHANGED <<leaseVars, commandVars, wakeVars, daemon, used, pump, cycles, recovery,
                 cycle, worldVars>>
QuietUnawaited == pump = "off"
Quiet == pump = "off" /\ Idle(daemon) /\ recovery = 0
FinishDrain ==
  /\ phase = "draining" /\ Quiet
  /\ phase' = "drained" /\ SetMode("drained")
  /\ UNCHANGED <<leaseVars, commandVars, wakeVars, daemon, used, pump, cycles, deferred,
                 recovery, cycle, worldVars>>
Stop ==
  /\ phase = "drained"
  /\ SetMode("stopped") /\ ProcessEnds
  /\ UNCHANGED <<leaseVars, commandVars, wakeVars, cycle, worldVars>>

\* The daemon dies.
Crash ==
  /\ daemon # NoOwner
  /\ ProcessEnds
  /\ cycle' = [cycle EXCEPT ![daemon] = IdleCycle]
  /\ UNCHANGED <<queueVars, worldVars>>

\* Time passes a lease by: one nobody drives the run under, or, counted as a
\* failure, one of a cycle in progress.
Driven(r) == \E p \in Owner : cycle[p].run = r /\ cycle[p].at # "begun" /\ Holds(p, r)
LeaseExpires(r) ==
  /\ LapseRunLease(r)
  /\ IF Driven(r)
     THEN failures < MaxFailures /\ failures' = failures + 1
     ELSE UNCHANGED failures
  /\ UNCHANGED <<serviceVars, cycle, effects, outbox>>
ClaimExpires(c) ==
  /\ ~\E p \in Owner : cycle[p].command = c
  /\ LapseClaim(c)
  /\ UNCHANGED <<serviceVars, cycle, worldVars>>

Next ==
  \/ \E p \in Owner : CycleStep(p) \/ Fail(p)
  \/ \E d \in Daemon : Start(d)
  \/ BeginCycle \/ StartupRecovered \/ ReportRunning \/ StartupFails
  \/ PumpEnds \/ RetryFires \/ RequestWake
  \/ \E c \in Command : SubmitCommand(c) \/ RecordCompletion(c) \/ DeliverInline(c)
                        \/ ClaimExpires(c)
  \/ \E r \in Run : RequestRecovery(r) \/ LeaseExpires(r)
  \/ BeginRecovery
  \/ \E p \in Direct, r \in Run : DirectRecover(p, r)
  \/ Drain \/ FinishDrain \/ Stop \/ Crash

\* The event loop turns, timers fire, and a lease nobody renews expires; the
\* operations of the service take their turns in the order of their queue.
Fairness ==
  /\ \A p \in Owner : WF_vars(CycleStep(p))
  /\ SF_vars(BeginCycle) /\ WF_vars(PumpEnds) /\ WF_vars(StartupRecovered)
  /\ WF_vars(ReportRunning) /\ WF_vars(RetryFires) /\ SF_vars(BeginRecovery)
  /\ WF_vars(FinishDrain)
  /\ \A r \in Run : WF_vars(LeaseExpires(r) /\ ~Driven(r))
  /\ \A c \in Command : WF_vars(ClaimExpires(c))

Spec == Init /\ [][Next]_vars /\ Fairness

----------------------------------------------------------------------------
(* Properties                                                              *)

\* A wake row is acknowledged exactly when no command of its run is left, and
\* this whatever was accepted while a cycle was deciding that there is nothing
\* to do (acknowledgeWake's observed generation, and #ackTerminal's).
AcknowledgedMeansDone ==
  \A r \in Run : acknowledged[r] = generation[r] <=> Unfinished(r) = {}

\* The receipts of a command are its history: one for each stage it has been
\* in, and none twice, however often its claim was taken over (#claim,
\* #ackTerminal).
ReceiptsTellHistory ==
  \A c \in Command :
    /\ receipts[c]["queued"] = IF state[c] = "none" THEN 0 ELSE 1
    /\ receipts[c]["claimed"] = IF state[c] \in {"claimed", "terminal"} THEN 1 ELSE 0
    /\ receipts[c]["terminal"] = IF state[c] = "terminal" THEN 1 ELSE 0

\* Commands of a run are taken up in the order of their acceptance: one that
\* was never claimed is not overtaken (#claim's ORDER BY accepted_sequence).
TakenInOrder ==
  \A c, d \in Command :
    /\ RunOf[c] = RunOf[d]
    /\ state[c] \in {"claimed", "terminal"}
    /\ state[d] = "queued"
    => place[c] < place[d]

\* A drained service is still: no loop, no cycle, no recovery and no timer that
\* would start one, which is what maintenance relies on (withQuiescentState).
DrainedIsStill ==
  phase = "drained" =>
    /\ pump = "off" /\ Idle(daemon)
    /\ deferred = {} /\ recovery = 0

\* Whoever answers a command is the owner of its run's lease at that moment and
\* in the cycle that claimed the command: not one that was overtaken between
\* its claim and its answer (#ackTerminal's two checks).
OnlyTheHolderAnswers ==
  [][\A c \in Command : state[c] # "terminal" /\ state'[c] = "terminal" =>
       /\ leased[RunOf[c]] = claimant[c]
       /\ cycle[claimant[c]].command = c]_vars

\* What the service does is what the ledger of commands allows: every accepted
\* command is executed once and answered once, whichever incarnations and
\* recoveries took part (accept, drainRunOnce, SqliteAuthority.submit).
Progressed(c) ==
  CASE state[c] = "none" -> "unknown"
    [] state[c] \in {"queued", "claimed"} /\ applied[c] = 0 -> "accepted"
    [] state[c] = "claimed" /\ applied[c] = 1 -> "executed"
    [] state[c] = "terminal" /\ applied[c] = 1 -> "answered"
    [] OTHER -> "broken"
Ledger == INSTANCE CommandLedger WITH ledger <- [c \in Command |-> Progressed(c)]
LedgerSpec == Ledger!Spec

\* A service that keeps running and is woken again and again answers every
\* command it has accepted, through refused leases, claims left by dead owners,
\* failed pumps and the retries they defer (wake, #deferWakeUntil, #runPump).
WokenServiceAnswers ==
  <>[](phase = "running") /\ []<>(pump = "on") =>
    \A c \in Command : state[c] = "queued" ~> state[c] = "terminal"

\* A drain comes to its end, whatever was under way (drain's awaits).
DrainEnds == phase = "draining" ~> phase \in {"drained", "stopped"}
=============================================================================
