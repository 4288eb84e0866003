----------------------- MODULE SupervisorServiceTypes -----------------------
(***************************************************************************)
(* Type correctness of the supervisor, for any commands, runs, daemons and *)
(* recoverers: no transaction, handler, error or crash takes a row or what *)
(* a cycle remembers out of the values it can have.  The invariant says    *)
(* more of a cycle than its type: one under way has a run, one that        *)
(* executes, answers or marks a command has that command, and only the     *)
(* daemon's own cycle belongs to the pump, while it is on.                 *)
(***************************************************************************)
EXTENDS SupervisorService, WellFoundedInduction, FiniteSetTheorems, TLAPS

\* What a cycle remembers fits the stage it is at.
Fits(k) ==
  /\ k.at # "idle" => k.run \in Run
  /\ k.at \in {"execute", "answer", "mark"} => k.command \in Command
  /\ k.by = "pump" => k.at # "idle"

CyclesFit ==
  \A p \in Owner : Fits(cycle[p]) /\ (cycle[p].by = "pump" => p = daemon /\ pump = "on")
ServiceUp == daemon = NoOwner <=> phase = "stopped"
\* Draining cancels the retry and nothing defers another.
NoRetry == phase \in {"draining", "drained"} => deferred = {}

Typed == TypeOK /\ CyclesFit /\ ServiceUp /\ NoRetry /\ DrainedIsStill

----------------------------------------------------------------------------
(* The cycles                                                               *)

\* A process's cycle is replaced by one of the right type and shape.
CycleBecomes(p, k) ==
  /\ k \in CycleRecords /\ Fits(k)
  /\ cycle' = [cycle EXCEPT ![p] = k]

LEMMA IdleFits == IdleCycle \in CycleRecords /\ Fits(IdleCycle)
BY DEF IdleCycle, CycleRecords, Stages, Fits

LEMMA BeganFits ==
  ASSUME NEW r \in Run, NEW w \in Nat, NEW by \in {"pump", "recovery", "direct"}
  PROVE  LET k == [IdleCycle EXCEPT !.at = "begun", !.by = by, !.run = r, !.wake = w] IN
         k \in CycleRecords /\ Fits(k)
BY DEF IdleCycle, CycleRecords, Stages, Fits

\* One step of a cycle leaves a cycle that fits.
LEMMA StepFits ==
  ASSUME Typed, NEW p \in Owner, CycleStep(p) \/ Fail(p)
  PROVE  \E k : CycleBecomes(p, k) /\ k.by \in {"none", cycle[p].by}
<1> DEFINE k == cycle[p]
<1>1. k \in CycleRecords /\ Fits(k)
  BY DEF Typed, TypeOK, ServiceTypeOK, CyclesFit
<1>2. ASSUME CycleThrows(p) \/ \E w \in BOOLEAN : CycleEnds(p, w)
      PROVE  \E n : CycleBecomes(p, n) /\ n.by \in {"none", k.by}
  <2>1. IdleCycle.by = "none"
    BY DEF IdleCycle
  <2> QED
    BY <1>2, <2>1, IdleFits DEF CycleThrows, CycleEnds, CycleBecomes
<1>3. ASSUME NEW s \in {"claim", "deliver", "settle", "release", "effects"},
             ~Idle(p), Goto(p, s)
      PROVE  \E n : CycleBecomes(p, n) /\ n.by \in {"none", k.by}
  <2> DEFINE n == [k EXCEPT !.at = s]
  <2>1. n \in CycleRecords /\ Fits(n) /\ n.by = k.by
    BY <1>1, <1>3 DEF CycleRecords, Stages, Fits, Idle
  <2>2. cycle' = [cycle EXCEPT ![p] = n]
    BY <1>3 DEF Goto
  <2> QED
    BY <2>1, <2>2 DEF CycleBecomes
<1>4. ASSUME Goto(p, "answer"), k.at = "execute"
      PROVE  \E n : CycleBecomes(p, n) /\ n.by \in {"none", k.by}
  <2> DEFINE n == [k EXCEPT !.at = "answer"]
  <2>1. n \in CycleRecords /\ Fits(n) /\ n.by = k.by
    BY <1>1, <1>4 DEF CycleRecords, Stages, Fits
  <2>2. cycle' = [cycle EXCEPT ![p] = n]
    BY <1>4 DEF Goto
  <2> QED
    BY <2>1, <2>2 DEF CycleBecomes
<1>5. ASSUME NEW s \in {"execute", "mark"}, NEW c \in Command, ~Idle(p),
             cycle' = [cycle EXCEPT ![p].at = s, ![p].command = c]
      PROVE  \E n : CycleBecomes(p, n) /\ n.by \in {"none", k.by}
  <2> DEFINE n == [k EXCEPT !.at = s, !.command = c]
  <2>1. n \in CycleRecords /\ Fits(n) /\ n.by = k.by
    BY <1>1, <1>5 DEF CycleRecords, Stages, Fits, Idle
  <2>2. cycle' = [cycle EXCEPT ![p] = n]
    BY <1>5
  <2> QED
    BY <2>1, <2>2 DEF CycleBecomes
<1>6. ASSUME NEW s \in {"deliver", "effects", "release"}, NEW c \in {k.command, NoCommand},
             NEW w \in BOOLEAN, ~Idle(p),
             cycle' = [cycle EXCEPT ![p].at = s, ![p].worked = w, ![p].command = c]
      PROVE  \E n : CycleBecomes(p, n) /\ n.by \in {"none", k.by}
  <2> DEFINE n == [k EXCEPT !.at = s, !.worked = w, !.command = c]
  <2>1. n \in CycleRecords /\ Fits(n) /\ n.by = k.by
    BY <1>1, <1>6 DEF CycleRecords, Stages, Fits, Idle
  <2>2. cycle' = [cycle EXCEPT ![p] = n]
    BY <1>6
  <2> QED
    BY <2>1, <2>2 DEF CycleBecomes
<1>7. CASE AcquireStep(p)
  BY <1>2, <1>3, <1>7 DEF AcquireStep, AtStage, Idle
<1>8. CASE ClaimStep(p)
  BY <1>2, <1>3, <1>5, <1>8 DEF ClaimStep, AtStage, Idle
<1>9. CASE ExecuteStep(p)
  BY <1>4, <1>9 DEF ExecuteStep, AtStage
<1>10. CASE AnswerStep(p)
  BY <1>2, <1>6, <1>10 DEF AnswerStep, AtStage, Idle
<1>11. CASE DeliverStep(p)
  BY <1>3, <1>5, <1>11 DEF DeliverStep, AtStage, Idle, Goto
<1>12. CASE MarkStep(p)
  BY <1>6, <1>12 DEF MarkStep, AtStage, Idle
<1>13. CASE EffectsStep(p)
  <2> DEFINE w == k.worked \/ effects[k.run] = "ready"
             n == [k EXCEPT !.at = "release", !.worked = w]
  <2>1. k.at = "effects" /\ cycle' = [cycle EXCEPT ![p] = n]
    BY <1>13 DEF EffectsStep, AtStage
  <2>2. n \in CycleRecords /\ Fits(n) /\ n.by = k.by
    <3> HIDE DEF w
    <3>1. w \in BOOLEAN
      BY DEF w
    <3> QED
      BY <1>1, <2>1, <3>1 DEF CycleRecords, Stages, Fits
  <2> QED
    BY <2>1, <2>2 DEF CycleBecomes
<1>14. CASE ReleaseStep(p)
  BY <1>2, <1>3, <1>14 DEF ReleaseStep, AtStage, Idle
<1>15. CASE SettleStep(p)
  <2>1. k.worked \in BOOLEAN
    BY <1>1 DEF CycleRecords
  <2> QED
    BY <1>2, <1>15, <2>1 DEF SettleStep
<1>16. CASE Fail(p)
  <2>1. ASSUME k.at = "mark", cycle' = [cycle EXCEPT ![p].at = "effects", ![p].command = NoCommand]
        PROVE  \E n : CycleBecomes(p, n) /\ n.by \in {"none", k.by}
    <3> DEFINE n == [k EXCEPT !.at = "effects", !.command = NoCommand]
    <3>1. n \in CycleRecords /\ Fits(n) /\ n.by = k.by
      BY <1>1, <2>1 DEF CycleRecords, Stages, Fits
    <3> QED
      BY <2>1, <3>1 DEF CycleBecomes
  <2> QED
    BY <1>2, <1>16, <2>1 DEF Fail
<1> QED
  BY <1>7, <1>8, <1>9, <1>10, <1>11, <1>12, <1>13, <1>14, <1>15, <1>16 DEF CycleStep

----------------------------------------------------------------------------
(* What a step of a cycle does to the service                               *)

Retries == (Run \cup {0}) \X (Owner \cup {NoOwner})

LEMMA DeferTypes ==
  ASSUME deferred \subseteq Retries, NEW retry \in Retries, Defer(retry)
  PROVE  deferred' \subseteq Retries /\ (MayDefer \/ UNCHANGED deferred)
BY DEF Defer

\* A cycle of the loop that ends tells the loop, and may leave a retry; every
\* other step leaves the service alone.
LEMMA StepService ==
  ASSUME Typed, NEW p \in Owner, CycleStep(p) \/ Fail(p)
  PROVE  /\ ~Idle(p)
         /\ UNCHANGED <<daemon, used, phase, recovery>>
         /\ pump' \in {"off", "on", "ending", "failed"}
         /\ cycles' \in 0..(CycleLimit - 1)
         /\ deferred' \subseteq Retries
         /\ \/ UNCHANGED <<pump, cycles, deferred>>
            \/ /\ cycle[p].by = "pump" /\ cycle' = [cycle EXCEPT ![p] = IdleCycle]
               /\ MayDefer \/ UNCHANGED deferred
<1>1. /\ pump \in {"off", "on", "ending", "failed"}
      /\ cycles \in 0..(CycleLimit - 1) /\ deferred \subseteq Retries
      /\ CycleLimit \in Nat \ {0}
  BY ServiceAssumption DEF Typed, TypeOK, ServiceTypeOK, Retries
<1>2. ~Idle(p)
  BY DEF CycleStep, Fail, AcquireStep, ClaimStep, ExecuteStep, AnswerStep, DeliverStep,
     MarkStep, EffectsStep, ReleaseStep, SettleStep, AtStage, Idle
<1> DEFINE Ends ==
      /\ UNCHANGED <<daemon, used, phase, recovery>>
      /\ pump' \in {"off", "on", "ending", "failed"}
      /\ cycles' \in 0..(CycleLimit - 1)
      /\ \/ UNCHANGED <<pump, cycles>>
         \/ cycle[p].by = "pump" /\ cycle' = [cycle EXCEPT ![p] = IdleCycle]
<1>3. ASSUME NEW w, CycleEnds(p, w) PROVE Ends
  <2>1. CASE cycle[p].by = "pump"
    <3>1. pump' = LoopEnd(w) /\ cycles' = IF pump' = "on" THEN cycles + 1 ELSE 0
      BY <1>3, <2>1 DEF CycleEnds
    <3>2. pump' = "on" => cycles + 1 < CycleLimit
      BY <3>1 DEF LoopEnd
    <3>3. pump' \in {"on", "ending", "failed"}
      BY <3>1 DEF LoopEnd
    <3> QED
      BY <1>1, <1>3, <2>1, <3>1, <3>2, <3>3 DEF CycleEnds
  <2>2. CASE cycle[p].by # "pump"
    BY <1>1, <1>3, <2>2 DEF CycleEnds
  <2> QED
    BY <2>1, <2>2
<1>4. ASSUME CycleThrows(p) PROVE Ends /\ UNCHANGED deferred
  BY <1>1, <1>4 DEF CycleThrows
<1>5. ASSUME UNCHANGED serviceVars PROVE Ends /\ UNCHANGED deferred
  BY <1>1, <1>5 DEF serviceVars
<1> HIDE DEF Ends
<1>6. Ends /\ deferred' \subseteq Retries
      /\ (UNCHANGED deferred \/ (MayDefer /\ cycle[p].by = "pump"
                                 /\ cycle' = [cycle EXCEPT ![p] = IdleCycle]))
  <2>1. CASE AcquireStep(p)
    <3>1. CASE cycle[p].by = "pump" /\ CycleEnds(p, FALSE)
               /\ Defer(<<cycle[p].run, leased[cycle[p].run]>>)
      <4>1. cycle[p].run \in Run
        BY <1>2 DEF Typed, CyclesFit, Fits, Idle
      <4>2. <<cycle[p].run, leased[cycle[p].run]>> \in Retries
        BY <4>1 DEF Typed, TypeOK, QueueTypeOK, Retries
      <4> QED
        BY <1>1, <1>3, <3>1, <4>2, DeferTypes DEF CycleEnds
    <3> QED
      BY <1>1, <1>4, <1>5, <2>1, <3>1 DEF AcquireStep
  <2>2. CASE ClaimStep(p) \/ AnswerStep(p) \/ ReleaseStep(p)
    BY <1>1, <1>4, <1>5, <2>2 DEF ClaimStep, AnswerStep, ReleaseStep
  <2>3. CASE ExecuteStep(p) \/ DeliverStep(p) \/ MarkStep(p) \/ EffectsStep(p)
    <3>1. UNCHANGED serviceVars
      BY <2>3 DEF ExecuteStep, DeliverStep, MarkStep, EffectsStep, serviceVars
    <3> QED
      BY <1>1, <1>5, <3>1
  <2>4. CASE SettleStep(p)
    BY <1>1, <1>3, <2>4 DEF SettleStep
  <2>5. CASE Fail(p)
    BY <1>1, <1>4, <1>5, <2>5 DEF Fail
  <2> QED
    BY <2>1, <2>2, <2>3, <2>4, <2>5 DEF CycleStep
<1> QED
  BY <1>2, <1>6 DEF Ends

\* Nor does it change the world but for the effects, the outbox and a count.
LEMMA StepWorld ==
  ASSUME Typed, NEW p \in Owner, CycleStep(p) \/ Fail(p)
  PROVE  /\ effects' \in [Run -> {"none", "ready", "stuck"}]
         /\ outbox' \in [Command -> {"none", "pending", "delivered"}]
         /\ failures' \in 0..MaxFailures
<1>1. /\ effects \in [Run -> {"none", "ready", "stuck"}]
      /\ outbox \in [Command -> {"none", "pending", "delivered"}]
      /\ failures \in 0..MaxFailures /\ MaxFailures \in Nat
  BY ServiceAssumption DEF Typed, TypeOK, ServiceTypeOK
<1>2. CASE AcquireStep(p) \/ ClaimStep(p) \/ AnswerStep(p) \/ DeliverStep(p)
           \/ ReleaseStep(p) \/ SettleStep(p)
  BY <1>1, <1>2 DEF AcquireStep, ClaimStep, AnswerStep, DeliverStep, ReleaseStep,
     SettleStep, worldVars
<1>3. CASE ExecuteStep(p)
  BY <1>1, <1>3 DEF ExecuteStep
<1>4. CASE MarkStep(p)
  BY <1>1, <1>4 DEF MarkStep
<1>5. CASE EffectsStep(p)
  BY <1>1, <1>5 DEF EffectsStep
<1>6. CASE Fail(p)
  BY <1>1, <1>6 DEF Fail
<1> QED
  BY <1>2, <1>3, <1>4, <1>5, <1>6 DEF CycleStep

\* A step of a cycle keeps the service's part of the invariant.
LEMMA StepTyped ==
  ASSUME Typed, NEW p \in Owner, CycleStep(p) \/ Fail(p)
  PROVE  (ServiceTypeOK /\ CyclesFit /\ ServiceUp /\ NoRetry /\ DrainedIsStill)'
<1>1. PICK k : CycleBecomes(p, k) /\ k.by \in {"none", cycle[p].by}
  BY StepFits
<1>2. /\ ~Idle(p) /\ UNCHANGED <<daemon, used, phase, recovery>>
      /\ \/ UNCHANGED <<pump, cycles, deferred>>
         \/ /\ cycle[p].by = "pump" /\ cycle' = [cycle EXCEPT ![p] = IdleCycle]
            /\ MayDefer \/ UNCHANGED deferred
  BY StepService
<1>3. /\ cycle \in [Owner -> CycleRecords] /\ cycle' \in [Owner -> CycleRecords]
      /\ \A q \in Owner : cycle'[q] = IF q = p THEN k ELSE cycle[q]
  BY <1>1 DEF CycleBecomes, Typed, TypeOK, ServiceTypeOK
<1>4. ServiceTypeOK'
  BY <1>2, <1>3, StepService, StepWorld DEF ServiceTypeOK, Typed, TypeOK, Retries
<1>5. CyclesFit'
  <2>1. ASSUME NEW q \in Owner PROVE Fits(cycle'[q])
    BY <1>1, <1>3 DEF CycleBecomes, Typed, CyclesFit
  <2>2. ASSUME NEW q \in Owner, cycle'[q].by = "pump" PROVE q = daemon' /\ pump' = "on"
    <3>1. cycle[q].by = "pump" /\ q = daemon
      <4>1. k.by = "pump" => cycle[p].by = "pump"
        BY <1>1
      <4>2. cycle[q].by = "pump"
        BY <1>3, <2>2, <4>1
      <4> QED
        BY <4>2 DEF Typed, CyclesFit
    <3>2. pump = "on" /\ daemon' = daemon
      BY <1>2, <3>1 DEF Typed, CyclesFit
    <3>3. CASE UNCHANGED pump
      BY <3>1, <3>2, <3>3
    <3>4. CASE cycle[p].by = "pump" /\ cycle' = [cycle EXCEPT ![p] = IdleCycle]
      <4>1. p = daemon /\ p = q
        BY <3>1, <3>4 DEF Typed, CyclesFit
      <4>2. cycle'[q].by = "none"
        BY <1>3, <3>4, <4>1 DEF IdleCycle
      <4> QED
        BY <2>2, <4>2
    <3> QED
      BY <1>2, <3>3, <3>4
  <2> QED
    BY <2>1, <2>2 DEF CyclesFit, Fits
<1>6. ServiceUp' /\ NoRetry'
  BY <1>2 DEF Typed, ServiceUp, NoRetry, MayDefer
<1>7. DrainedIsStill'
  <2> SUFFICES ASSUME phase = "drained"
               PROVE  pump' = "off" /\ cycle'[daemon].at = "idle" /\ deferred' = {} /\ recovery' = 0
    BY <1>2 DEF DrainedIsStill, Idle
  <2>1. /\ pump = "off" /\ cycle[daemon].at = "idle" /\ deferred = {} /\ recovery = 0
        /\ daemon \in Owner
    BY ServiceAssumption DEF Typed, TypeOK, ServiceTypeOK, DrainedIsStill, ServiceUp, Idle
  <2>2. p # daemon /\ cycle[p].by # "pump"
    BY <1>2, <2>1 DEF Typed, CyclesFit, Idle
  <2> QED
    BY <1>2, <1>3, <2>1, <2>2
<1> QED
  BY <1>4, <1>5, <1>6, <1>7

\* The earliest of a set of runs is one of them.
LEMMA EarliestIn ==
  ASSUME NEW runs \in SUBSET Nat, runs # {}
  PROVE  Earliest(runs) \in runs
<1> DEFINE Less == OpToRel(<, Nat)
<1>1. IsWellFoundedOn(Less, Nat)
  BY NatLessThanWellFounded
<1>2. ASSUME NEW m \in Nat, NEW n \in Nat PROVE <<m, n>> \in Less <=> m < n
  BY DEF OpToRel
<1> HIDE DEF Less
<1>3. PICK r \in runs : \A other \in runs : <<other, r>> \notin Less
  BY <1>1, WFMin
<1>4. ASSUME NEW other \in runs PROVE r <= other
  <2>1. r \in Nat /\ other \in Nat /\ ~(<<other, r>> \in Less)
    BY <1>3
  <2>2. ~(other < r)
    BY <1>2, <2>1
  <2> QED
    BY <2>1, <2>2
<1> QED
  BY <1>4 DEF Earliest

----------------------------------------------------------------------------
(* The handlers of the service, and what happens to it                      *)

Handler ==
  \/ \E d \in Daemon : Start(d)
  \/ BeginCycle \/ StartupRecovered \/ ReportRunning \/ StartupFails
  \/ PumpEnds \/ RetryFires \/ RequestWake
  \/ \E c \in Command : SubmitCommand(c) \/ RecordCompletion(c) \/ DeliverInline(c)
                        \/ ClaimExpires(c)
  \/ \E r \in Run : RequestRecovery(r) \/ LeaseExpires(r)
  \/ BeginRecovery
  \/ \E p \in Direct, r \in Run : DirectRecover(p, r)
  \/ Drain \/ FinishDrain \/ Stop \/ Crash

ServicePart == ServiceTypeOK /\ CyclesFit /\ ServiceUp /\ NoRetry /\ DrainedIsStill

\* A handler that leaves the cycles alone keeps the service's part when it
\* keeps its types and does not touch a pump that a cycle is counted under.
LEMMA CyclesAlone ==
  ASSUME CyclesFit, UNCHANGED cycle,
         UNCHANGED daemon \/ pump # "on" \/ daemon = NoOwner,
         pump = "on" => pump' = "on" \/ \A p \in Owner : cycle[p].by # "pump"
  PROVE  CyclesFit'
<1>1. NoOwner \notin Owner
  BY QueueAssumption
<1> QED
  BY <1>1 DEF CyclesFit, Fits

LEMMA EndingTyped ==
  ASSUME Typed, StartupFails \/ Stop \/ Crash
  PROVE  ServicePart'
<1>1. /\ daemon' = NoOwner /\ phase' = "stopped" /\ pump' = "off" /\ deferred' = {}
      /\ recovery' = 0 /\ cycles' = 0 /\ UNCHANGED <<used, worldVars>>
  BY DEF StartupFails, Stop, Crash, ProcessEnds
<1>2. ServiceUp' /\ NoRetry' /\ DrainedIsStill'
  BY <1>1 DEF ServiceUp, NoRetry, DrainedIsStill
<1>3. cycle' \in [Owner -> CycleRecords] /\ CyclesFit'
  <2>1. CASE Crash
    <3>1. daemon \in Owner
      BY <2>1, ServiceAssumption DEF Crash, Typed, TypeOK, ServiceTypeOK
    <3>2. /\ cycle' \in [Owner -> CycleRecords]
          /\ \A q \in Owner : cycle'[q] = IF q = daemon THEN IdleCycle ELSE cycle[q]
      BY <2>1, <3>1, IdleFits DEF Crash, Typed, TypeOK, ServiceTypeOK
    <3>3. ASSUME NEW q \in Owner PROVE Fits(cycle'[q]) /\ cycle'[q].by # "pump"
      <4>1. IdleCycle.by = "none"
        BY DEF IdleCycle
      <4> QED
        BY <3>2, <4>1, IdleFits DEF Typed, CyclesFit
    <3> QED
      BY <3>2, <3>3 DEF CyclesFit, Fits
  <2>2. CASE StartupFails \/ Stop
    <3>1. UNCHANGED cycle /\ pump # "on"
      BY <2>2 DEF StartupFails, Stop, Typed, DrainedIsStill
    <3> QED
      BY <3>1, CyclesAlone DEF Typed, TypeOK, ServiceTypeOK
  <2> QED
    BY <2>1, <2>2
<1> QED
  BY <1>1, <1>2, <1>3, ServiceAssumption
     DEF ServicePart, ServiceTypeOK, Typed, TypeOK, worldVars, Phases

LEMMA BeganWithoutWake ==
  ASSUME NEW by, NEW r
  PROVE  [IdleCycle EXCEPT !.at = "begun", !.by = by, !.run = r] =
           [IdleCycle EXCEPT !.at = "begun", !.by = by, !.run = r, !.wake = 0]
<1> DEFINE k == [IdleCycle EXCEPT !.at = "begun", !.by = by, !.run = r]
<1>1. k \in [{"at", "by", "run", "wake", "command", "worked"} -> {k[f] : f \in DOMAIN k}]
  BY DEF IdleCycle
<1>2. k.wake = 0
  BY DEF IdleCycle
<1>3. [k EXCEPT !.wake = 0] = k
  BY <1>1, <1>2, Zenon
<1> QED
  BY <1>3

LEMMA BeginTyped ==
  ASSUME Typed, BeginCycle \/ BeginRecovery \/ \E p \in Direct, r \in Run : DirectRecover(p, r)
  PROVE  ServicePart'
<1>1. CASE BeginCycle /\ ~MayBegin
  <2>1. /\ UNCHANGED cycle /\ pump' = "ending" /\ cycles' = 0
        /\ UNCHANGED <<daemon, used, phase, deferred, recovery, worldVars>>
        /\ pump = "on" /\ Idle(daemon) /\ daemon # NoOwner
    BY <1>1 DEF BeginCycle
  <2>2. \A p \in Owner : cycle[p].by # "pump"
    BY <2>1 DEF Typed, CyclesFit, Fits, Idle
  <2>3. CyclesFit'
    BY <2>1, <2>2, CyclesAlone DEF Typed
  <2> QED
    BY <2>1, <2>3, ServiceAssumption DEF ServicePart, ServiceTypeOK, Typed, TypeOK,
       ServiceUp, NoRetry, DrainedIsStill, worldVars
<1>2. ASSUME NEW p \in Owner, NEW by \in {"pump", "recovery", "direct"}, NEW r \in Run,
             NEW w \in Nat,
             cycle' = [cycle EXCEPT ![p] =
               [IdleCycle EXCEPT !.at = "begun", !.by = by, !.run = r, !.wake = w]],
             by = "pump" => p = daemon /\ pump = "on",
             phase = "drained" => p # daemon,
             used' \subseteq Owner, recovery' \in Run \cup {0}, phase = "drained" => recovery' = 0,
             UNCHANGED <<daemon, phase, pump, cycles, deferred, worldVars>>
      PROVE  ServicePart'
  <2> DEFINE k == [IdleCycle EXCEPT !.at = "begun", !.by = by, !.run = r, !.wake = w]
  <2>1. k \in CycleRecords /\ Fits(k) /\ k.by = by
    BY BeganFits DEF IdleCycle
  <2> HIDE DEF k
  <2>2. /\ cycle' \in [Owner -> CycleRecords]
        /\ \A q \in Owner : cycle'[q] = IF q = p THEN k ELSE cycle[q]
    BY <1>2, <2>1 DEF Typed, TypeOK, ServiceTypeOK, k
  <2>3. CyclesFit'
    <3>1. ASSUME NEW q \in Owner
          PROVE  Fits(cycle'[q]) /\ (cycle'[q].by = "pump" => q = daemon' /\ pump' = "on")
      BY <1>2, <2>1, <2>2 DEF Typed, CyclesFit
    <3> QED
      BY <3>1 DEF CyclesFit, Fits
  <2>4. DrainedIsStill'
    <3> SUFFICES ASSUME phase = "drained" PROVE DrainedIsStill'
      BY <1>2 DEF DrainedIsStill
    <3>1. daemon \in Owner
      BY ServiceAssumption DEF Typed, TypeOK, ServiceTypeOK, ServiceUp
    <3>2. cycle'[daemon] = cycle[daemon]
      BY <1>2, <2>2, <3>1
    <3> QED
      BY <1>2, <3>2 DEF Typed, DrainedIsStill, Idle
  <2> QED
    BY <1>2, <2>2, <2>3, <2>4 DEF ServicePart, ServiceTypeOK, Typed, TypeOK, ServiceUp,
       NoRetry, worldVars
<1>3. CASE BeginCycle /\ MayBegin
  <2> DEFINE r == Earliest(Targets)
             w == IF PendingWakes # {} THEN generation[r] ELSE 0
  <2>1. Targets # {} /\ Targets \subseteq Run /\ Targets \subseteq Nat
    BY <1>3, QueueAssumption DEF MayBegin, Targets, PendingWakes
  <2>2. r \in Run
    BY <2>1, EarliestIn
  <2>3. w \in Nat
    BY <2>2 DEF Typed, TypeOK, QueueTypeOK
  <2>4. /\ cycle' = [cycle EXCEPT ![daemon] =
             [IdleCycle EXCEPT !.at = "begun", !.by = "pump", !.run = r, !.wake = w]]
        /\ pump = "on" /\ daemon # NoOwner
        /\ UNCHANGED <<daemon, used, phase, pump, cycles, deferred, recovery, worldVars>>
    BY <1>3 DEF BeginCycle
  <2>5. daemon \in Owner /\ used \subseteq Owner /\ recovery \in Run \cup {0}
        /\ phase # "drained"
    BY <2>4, ServiceAssumption DEF Typed, TypeOK, ServiceTypeOK, DrainedIsStill
  <2> HIDE DEF r, w
  <2> QED
    BY <1>2, <2>2, <2>3, <2>4, <2>5
<1>4. CASE BeginRecovery
  <2>1. /\ cycle' = [cycle EXCEPT ![daemon] =
             [IdleCycle EXCEPT !.at = "begun", !.by = "recovery", !.run = recovery, !.wake = 0]]
        /\ daemon \in Owner /\ recovery \in Run /\ recovery' = 0 /\ phase # "drained"
        /\ UNCHANGED <<daemon, used, phase, pump, cycles, deferred, worldVars>>
        /\ used \subseteq Owner
    BY <1>4, BeganWithoutWake, ServiceAssumption DEF BeginRecovery, Typed, TypeOK, ServiceTypeOK, DrainedIsStill
  <2> QED
    BY <1>2, <2>1
<1>5. ASSUME NEW p \in Direct, NEW r \in Run, DirectRecover(p, r)
      PROVE  ServicePart'
  <2>1. /\ cycle' = [cycle EXCEPT ![p] =
             [IdleCycle EXCEPT !.at = "begun", !.by = "direct", !.run = r, !.wake = 0]]
        /\ p \in Owner /\ used' \subseteq Owner /\ recovery' = recovery /\ recovery \in Run \cup {0}
        /\ UNCHANGED <<daemon, phase, pump, cycles, deferred, worldVars>>
        /\ phase = "drained" => recovery = 0
    BY <1>5, BeganWithoutWake, ServiceAssumption DEF DirectRecover, Typed, TypeOK, ServiceTypeOK, DrainedIsStill
  <2>2. phase = "drained" => p # daemon
    BY ServiceAssumption DEF Typed, TypeOK, ServiceTypeOK, ServiceUp
  <2> QED
    BY <1>2, <2>1, <2>2
<1> QED
  BY <1>1, <1>3, <1>4, <1>5

\* A handler that starts no cycle keeps the service's part when it sets the
\* lifecycle, the pump, the retry and the recovery to what they may be.
LEMMA HandlerTyped ==
  ASSUME Typed, UNCHANGED <<cycle, used, daemon, cycles, effects, failures>>,
         phase' \in Phases, pump' \in {"off", "on", "ending", "failed"},
         deferred' \subseteq Retries, recovery' \in Run \cup {0},
         outbox' \in [Command -> {"none", "pending", "delivered"}],
         pump = "on" => pump' = "on",
         phase = "stopped" <=> phase' = "stopped",
         phase' \in {"draining", "drained"} => deferred' = {},
         phase' = "drained" => pump' = "off" /\ Idle(daemon) /\ recovery' = 0
  PROVE  ServicePart'
<1>1. CyclesFit'
  BY CyclesAlone DEF Typed
<1>2. ServiceUp' /\ NoRetry'
  BY DEF Typed, ServiceUp, NoRetry
<1>3. DrainedIsStill'
  BY DEF DrainedIsStill, Idle
<1>4. ServiceTypeOK'
  BY DEF Typed, TypeOK, ServiceTypeOK, Retries
<1> QED
  BY <1>1, <1>2, <1>3, <1>4 DEF ServicePart

LEMMA LifecycleTyped ==
  ASSUME Typed, StartupRecovered \/ ReportRunning \/ Drain \/ FinishDrain
  PROVE  ServicePart'
<1>1. /\ phase \in Phases /\ pump \in {"off", "on", "ending", "failed"}
      /\ deferred \subseteq Retries /\ recovery \in Run \cup {0}
      /\ outbox \in [Command -> {"none", "pending", "delivered"}]
  BY DEF Typed, TypeOK, ServiceTypeOK, Retries
<1>2. CASE StartupRecovered \/ ReportRunning
  BY <1>1, <1>2, HandlerTyped DEF StartupRecovered, ReportRunning, worldVars, Phases
<1>3. CASE Drain
  BY <1>1, <1>3, HandlerTyped DEF Drain, worldVars, Phases
<1>4. CASE FinishDrain
  BY <1>1, <1>4, HandlerTyped DEF FinishDrain, Quiet, worldVars, Phases, Typed, NoRetry
<1> QED
  BY <1>2, <1>3, <1>4

LEMMA EventTyped ==
  ASSUME Typed,
         \/ PumpEnds \/ RetryFires \/ RequestWake
         \/ \E c \in Command : SubmitCommand(c) \/ RecordCompletion(c) \/ DeliverInline(c)
                               \/ ClaimExpires(c)
         \/ \E r \in Run : RequestRecovery(r)
  PROVE  ServicePart'
<1>1. /\ phase \in Phases /\ pump \in {"off", "on", "ending", "failed"}
      /\ deferred \subseteq Retries /\ recovery \in Run \cup {0}
      /\ outbox \in [Command -> {"none", "pending", "delivered"}]
      /\ phase \in {"draining", "drained"} => deferred = {}
      /\ phase = "drained" => pump = "off" /\ Idle(daemon) /\ recovery = 0
  BY DEF Typed, TypeOK, ServiceTypeOK, Retries, NoRetry, DrainedIsStill
<1>2. CASE PumpEnds
  <2>1. deferred' \subseteq Retries /\ (MayDefer \/ UNCHANGED deferred)
    <3>1. Soon \in Retries
      BY DEF Soon, Retries
    <3> QED
      BY <1>1, <1>2, <3>1, DeferTypes DEF PumpEnds
  <2> QED
    BY <1>1, <1>2, <2>1, HandlerTyped DEF PumpEnds, MayDefer, worldVars
<1>3. ASSUME WakeUp
      PROVE  /\ pump' \in {"off", "on", "ending", "failed"} /\ (pump = "on" => pump' = "on")
             /\ phase = "drained" => pump' = "off"
  BY <1>1, <1>3 DEF WakeUp
<1>4. CASE RetryFires \/ RequestWake
  BY <1>1, <1>3, <1>4, HandlerTyped DEF RetryFires, RequestWake, worldVars
<1>5. ASSUME NEW c \in Command, SubmitCommand(c) \/ RecordCompletion(c) \/ DeliverInline(c)
      PROVE  ServicePart'
  <2>1. outbox' \in [Command -> {"none", "pending", "delivered"}]
    BY <1>1, <1>5 DEF SubmitCommand, RecordCompletion, DeliverInline, worldVars
  <2> QED
    BY <1>1, <1>3, <1>5, <2>1, HandlerTyped
       DEF SubmitCommand, RecordCompletion, DeliverInline, worldVars, serviceVars
<1>6. ASSUME NEW c \in Command, ClaimExpires(c) PROVE ServicePart'
  BY <1>1, <1>6, HandlerTyped DEF ClaimExpires, worldVars, serviceVars
<1>7. ASSUME NEW r \in Run, RequestRecovery(r) PROVE ServicePart'
  BY <1>1, <1>7, HandlerTyped DEF RequestRecovery, worldVars
<1> QED
  BY <1>2, <1>4, <1>5, <1>6, <1>7

LEMMA StartTyped ==
  ASSUME Typed, NEW d \in Daemon, Start(d)
  PROVE  ServicePart'
<1>1. daemon = NoOwner /\ d \in Owner /\ d # NoOwner
  BY ServiceAssumption, QueueAssumption DEF Typed, ServiceUp, Start
<1>2. CyclesFit'
  <2>1. \A p \in Owner : cycle[p].by # "pump"
    BY <1>1, QueueAssumption DEF Typed, CyclesFit
  <2> QED
    BY <2>1 DEF Start, Typed, CyclesFit, Fits
<1>3. ServiceTypeOK'
  BY <1>1 DEF Start, Typed, TypeOK, ServiceTypeOK, Phases, worldVars
<1> QED
  BY <1>1, <1>2, <1>3 DEF Start, ServicePart, ServiceUp, NoRetry, DrainedIsStill

LEMMA ExpiryTyped ==
  ASSUME Typed, NEW r \in Run, LeaseExpires(r)
  PROVE  ServicePart'
<1>1. UNCHANGED <<serviceVars, cycle, effects, outbox>>
  BY DEF LeaseExpires
<1>2. failures' \in 0..MaxFailures
  BY ServiceAssumption DEF LeaseExpires, Typed, TypeOK, ServiceTypeOK
<1> QED
  BY <1>1, <1>2 DEF ServicePart, Typed, TypeOK, ServiceTypeOK, CyclesFit, Fits, ServiceUp,
     NoRetry, DrainedIsStill, Idle, serviceVars

LEMMA ServiceKept ==
  ASSUME Typed, Next
  PROVE  ServicePart'
<1>1. ASSUME NEW p \in Owner, CycleStep(p) \/ Fail(p) PROVE ServicePart'
  BY <1>1, StepTyped DEF ServicePart
<1>2. ASSUME Handler PROVE ServicePart'
  BY <1>2, StartTyped, ExpiryTyped, EventTyped, LifecycleTyped, BeginTyped, EndingTyped
     DEF Handler
<1> QED
  BY <1>1, <1>2 DEF Next, Handler

----------------------------------------------------------------------------
(* What a step does to the queue                                            *)

\* A command is executed or answered only by the cycle that has it.
Executes(p, c) ==
  /\ cycle[p].at = "execute" /\ cycle[p].command = c
  /\ Submit(c)
  /\ UNCHANGED <<mode, leaseVars, state, place, claim, claimant, receipts, wakeVars>>
Answers(p, c) == cycle[p].at = "answer" /\ cycle[p].command = c /\ AnswerTerminal(p, c)
Acknowledges(r) ==
  \E n \in Nat : AcknowledgeWake(r, n)
                 /\ UNCHANGED <<mode, leaseVars, commandVars, generation>>
SetsMode ==
  \E m \in ServiceModes : SetMode(m) /\ UNCHANGED <<leaseVars, commandVars, wakeVars>>

Transaction ==
  \/ NoChange \/ SetsMode
  \/ \E c \in Command : Accept(c) \/ LapseClaim(c)
  \/ \E r \in Run : LapseRunLease(r) \/ Acknowledges(r)
  \/ \E p \in Owner, r \in Run :
       \/ AcquireRunLease(p, r) \/ ReleaseRunLease(p, r)
       \/ \E c \in Command : ClaimNext(p, r, c)
  \/ \E p \in Owner, c \in Command : Executes(p, c) \/ Answers(p, c)

\* Every step of the service makes at most one transaction.
LEMMA OneTransaction ==
  ASSUME Typed, Next
  PROVE  Transaction
<1>1. ASSUME NEW p \in Owner, CycleStep(p) \/ Fail(p) PROVE Transaction
  <2>1. ~Idle(p) /\ cycle[p].run \in Run /\ cycle[p].wake \in Nat
    BY <1>1, StepService DEF Typed, TypeOK, ServiceTypeOK, CycleRecords, CyclesFit, Fits, Idle
  <2>2. cycle[p].at \in {"execute", "answer"} => cycle[p].command \in Command
    BY DEF Typed, CyclesFit, Fits
  <2>3. CASE AcquireStep(p) \/ ClaimStep(p) \/ ReleaseStep(p) \/ DeliverStep(p)
    BY <2>1, <2>3 DEF AcquireStep, ClaimStep, ReleaseStep, DeliverStep, Transaction
  <2>4. CASE ExecuteStep(p)
    BY <2>2, <2>4 DEF ExecuteStep, Executes, Transaction, AtStage
  <2>5. CASE AnswerStep(p)
    BY <2>2, <2>5 DEF AnswerStep, Answers, Transaction, AtStage
  <2>6. CASE SettleStep(p)
    <3>1. CASE AcknowledgeWake(cycle[p].run, cycle[p].wake)
      BY <2>1, <2>6, <3>1 DEF SettleStep, Acknowledges, Transaction
    <3>2. CASE UNCHANGED acknowledged
      BY <2>6, <3>2 DEF SettleStep, NoChange, queueVars, wakeVars, Transaction
    <3> QED
      BY <2>6, <3>1, <3>2 DEF SettleStep
  <2>7. CASE MarkStep(p) \/ EffectsStep(p) \/ Fail(p)
    BY <2>7 DEF MarkStep, EffectsStep, Fail, NoChange, Transaction
  <2> QED
    BY <1>1, <2>3, <2>4, <2>5, <2>6, <2>7 DEF CycleStep
<1>2. CASE (\E d \in Daemon : Start(d)) \/ StartupFails \/ Drain \/ FinishDrain \/ Stop
  BY <1>2 DEF Start, StartupFails, Drain, FinishDrain, Stop, SetsMode, ServiceModes, Transaction
<1>3. CASE \E c \in Command : SubmitCommand(c) \/ DeliverInline(c) \/ ClaimExpires(c)
  BY <1>3 DEF SubmitCommand, DeliverInline, ClaimExpires, Transaction
<1>4. CASE \E r \in Run : LeaseExpires(r)
  BY <1>4 DEF LeaseExpires, Transaction
<1>5. CASE \/ BeginCycle \/ StartupRecovered \/ ReportRunning \/ PumpEnds \/ RetryFires
           \/ RequestWake \/ BeginRecovery \/ Crash
           \/ \E c \in Command : RecordCompletion(c)
           \/ \E r \in Run : RequestRecovery(r)
           \/ \E p \in Direct, r \in Run : DirectRecover(p, r)
  BY <1>5 DEF BeginCycle, StartupRecovered, ReportRunning, PumpEnds, RetryFires, RequestWake,
     BeginRecovery, Crash, RecordCompletion, RequestRecovery, DirectRecover, NoChange, Transaction
<1> QED
  BY <1>1, <1>2, <1>3, <1>4, <1>5 DEF Next

LEMMA NextPlaceType == \A r : NextPlace(r) \in Nat \ {0}
<1> SUFFICES ASSUME NEW r PROVE NextPlace(r) \in Nat \ {0}
  OBVIOUS
<1>1. {c \in CommandsOf(r) : place[c] # 0} \in SUBSET Command
  BY DEF CommandsOf
<1>2. IsFiniteSet({c \in CommandsOf(r) : place[c] # 0})
  BY <1>1, FS_Subset, QueueAssumption
<1> QED
  BY <1>2, FS_CardinalityType DEF NextPlace

\* A receipt is counted under its command and stage, and no other.
LEMMA StageWrites ==
  ASSUME receipts \in [Command -> [Staged -> Nat]], NEW c \in Command, NEW s \in Staged,
         Stage(c, s)
  PROVE  /\ receipts' \in [Command -> [Staged -> Nat]]
         /\ \A d \in Command, t \in Staged :
              receipts'[d][t] = IF d = c /\ t = s THEN receipts[d][t] + 1 ELSE receipts[d][t]
<1> DEFINE k == [receipts[c] EXCEPT ![s] = @ + 1]
<1>1. k \in [Staged -> Nat] /\ \A t \in Staged : k[t] = IF t = s THEN receipts[c][t] + 1 ELSE receipts[c][t]
  OBVIOUS
<1>2. receipts' = [receipts EXCEPT ![c] = k]
  BY DEF Stage
<1> HIDE DEF k
<1> QED
  BY <1>1, <1>2

LEMMA TransactionTyped ==
  ASSUME QueueTypeOK, Transaction
  PROVE  QueueTypeOK'
<1> USE DEF QueueTypeOK, leaseVars, wakeVars, commandVars
<1>1. CASE NoChange \/ SetsMode
  BY <1>1 DEF NoChange, SetsMode, SetMode, queueVars
<1>2. ASSUME NEW c \in Command, Accept(c) PROVE QueueTypeOK'
  <2>1. RunOf[c] \in Run /\ NextPlace(RunOf[c]) \in Nat
    BY QueueAssumption, NextPlaceType
  <2>2. receipts' \in [Command -> [Staged -> Nat]]
    BY <1>2, StageWrites DEF Accept, Staged, queueVars
  <2>3. CASE state[c] # "none"
    BY <1>2, <2>3 DEF Accept, queueVars
  <2>4. CASE state[c] = "none"
    <3>1. state' \in [Command -> Staged \cup {"none"}] /\ place' \in [Command -> Nat]
      BY <1>2, <2>1, <2>4 DEF Accept, Staged
    <3>2. generation' \in [Run -> Nat]
      BY <1>2, <2>1, <2>4 DEF Accept, ArmWake
    <3> QED
      BY <1>2, <2>2, <2>4, <3>1, <3>2 DEF Accept
  <2> QED
    BY <2>3, <2>4
<1>3. ASSUME NEW c \in Command, LapseClaim(c) PROVE QueueTypeOK'
  BY <1>3 DEF LapseClaim
<1>4. ASSUME NEW r \in Run, LapseRunLease(r) PROVE QueueTypeOK'
  BY <1>4 DEF LapseRunLease
<1>5. ASSUME NEW r \in Run, Acknowledges(r) PROVE QueueTypeOK'
  BY <1>5 DEF Acknowledges, AcknowledgeWake
<1>6. ASSUME NEW p \in Owner, NEW r \in Run, AcquireRunLease(p, r) PROVE QueueTypeOK'
  BY <1>6 DEF AcquireRunLease
<1>7. ASSUME NEW p \in Owner, NEW r \in Run, ReleaseRunLease(p, r) PROVE QueueTypeOK'
  BY <1>7 DEF ReleaseRunLease
<1>8. ASSUME NEW p \in Owner, NEW r \in Run, NEW c \in Command, ClaimNext(p, r, c)
      PROVE  QueueTypeOK'
  <2>1. receipts' \in [Command -> [Staged -> Nat]]
    BY <1>8, StageWrites DEF ClaimNext, StageClaim, Staged
  <2> QED
    BY <1>8, <2>1 DEF ClaimNext, Staged
<1>9. ASSUME NEW p \in Owner, NEW c \in Command, Executes(p, c) PROVE QueueTypeOK'
  BY <1>9 DEF Executes, Submit
<1>10. ASSUME NEW p \in Owner, NEW c \in Command, Answers(p, c) PROVE QueueTypeOK'
  <2>1. receipts' \in [Command -> [Staged -> Nat]]
    BY <1>10, StageWrites DEF Answers, AnswerTerminal, Staged
  <2>2. acknowledged' \in [Run -> Nat]
    BY <1>10, QueueAssumption DEF Answers, AnswerTerminal
  <2> QED
    BY <1>10, <2>1, <2>2 DEF Answers, AnswerTerminal, Staged
<1> QED
  BY <1>1, <1>2, <1>3, <1>4, <1>5, <1>6, <1>7, <1>8, <1>9, <1>10 DEF Transaction

----------------------------------------------------------------------------
(* The theorems                                                             *)

LEMMA TypedInit == Init => Typed
<1> SUFFICES ASSUME Init PROVE Typed
  OBVIOUS
<1>1. QueueTypeOK
  BY DEF Init, QueueInit, QueueTypeOK, ServiceModes, Staged
<1>2. ServiceTypeOK
  BY IdleFits, ServiceAssumption DEF Init, ServiceTypeOK, Phases
<1>3. CyclesFit
  <2>1. IdleCycle.by = "none"
    BY DEF IdleCycle
  <2> QED
    BY <2>1, IdleFits DEF Init, CyclesFit
<1> QED
  BY <1>1, <1>2, <1>3
     DEF Typed, TypeOK, Init, ServiceUp, NoRetry, DrainedIsStill

LEMMA TypedStep == Typed /\ [Next]_vars => Typed'
<1>1. ASSUME Typed, Next PROVE Typed'
  <2>1. QueueTypeOK'
    BY <1>1, OneTransaction, TransactionTyped DEF Typed, TypeOK
  <2> QED
    BY <1>1, <2>1, ServiceKept DEF ServicePart, Typed, TypeOK
<1>2. ASSUME Typed, UNCHANGED vars PROVE Typed'
  BY <1>2 DEF vars, queueVars, leaseVars, commandVars, wakeVars, serviceVars, worldVars,
     Typed, TypeOK, QueueTypeOK, ServiceTypeOK, CyclesFit, Fits, ServiceUp, NoRetry,
     DrainedIsStill, Idle
<1> QED
  BY <1>1, <1>2

\* Whatever the service does, every row and everything a cycle remembers keep
\* their types, and a cycle fits the stage it is at.
THEOREM TypedAlways == Spec => []Typed
<1> QED
  BY TypedInit, TypedStep, PTL DEF Spec

\* Every operation of command-queue.ts and service.ts writes values of its
\* columns' domains.
THEOREM SupervisorTypes == Spec => []TypeOK
<1>1. Typed => TypeOK
  BY DEF Typed
<1> QED
  BY <1>1, TypedAlways, PTL

\* A drained service runs no loop, no cycle and no recovery and has no timer
\* that would start one, whatever was under way when it was told to drain
\* (drain's awaits, #deferWakeUntil's guard).
THEOREM SupervisorDrains == Spec => []DrainedIsStill
<1>1. Typed => DrainedIsStill
  BY DEF Typed
<1> QED
  BY <1>1, TypedAlways, PTL
=============================================================================
