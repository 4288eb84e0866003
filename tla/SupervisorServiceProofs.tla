----------------------- MODULE SupervisorServiceProofs -----------------------
(***************************************************************************)
(* What the supervisor promises of commands, receipts and wakes, for any   *)
(* number of commands, runs, incarnations and recoverers, and that it      *)
(* implements CommandLedger.  Each theorem rests on what is kept between   *)
(* the tables of the queue, and between them and the cycles.               *)
(***************************************************************************)
EXTENDS SupervisorServiceTypes

\* A command has a place in the order of acceptance once it was accepted, and
\* was executed at most once, before it was answered.
Bookkept ==
  \A c \in Command :
    /\ state[c] = "none" <=> place[c] = 0
    /\ applied[c] \in {0, 1}
    /\ state[c] \in {"none", "queued"} => applied[c] = 0
    /\ state[c] = "terminal" => applied[c] = 1

\* What a cycle executes or answers was claimed, and is executed before it is
\* answered, although another cycle may have done both in the meantime.
CarriedOut ==
  \A p \in Owner :
    /\ cycle[p].at \in {"execute", "answer"} => state[cycle[p].command] \in {"claimed", "terminal"}
    /\ cycle[p].at = "answer" => applied[cycle[p].command] = 1

\* The row of a lease names whoever holds it.
HolderIsLeased == \A r \in Run : holder[r] # NoOwner => leased[r] = holder[r]

\* The places of a run's commands are different numbers up to their count.
Placed(r) == {c \in CommandsOf(r) : place[c] # 0}
PlacesCount ==
  /\ \A c \in Command : place[c] <= Cardinality(Placed(RunOf[c]))
  /\ \A c, d \in Command :
       RunOf[c] = RunOf[d] /\ place[c] = place[d] /\ place[c] # 0 => c = d

WakesBounded == \A r \in Run : acknowledged[r] <= generation[r]

Kept == Typed /\ Bookkept /\ CarriedOut /\ HolderIsLeased

----------------------------------------------------------------------------
(* How a step moves commands                                                *)

\* A command is accepted, claimed or answered, or no command changes its state.
Rests ==
  /\ UNCHANGED <<state, place, receipts, generation>>
  /\ UNCHANGED applied \/ \E p \in Owner, c \in Command : Executes(p, c)
  /\ UNCHANGED acknowledged \/ \E r \in Run : Acknowledges(r)

LEMMA Moves ==
  ASSUME Transaction
  PROVE  \/ \E c \in Command : state[c] = "none" /\ Accept(c)
         \/ \E p \in Owner, r \in Run, c \in Command : ClaimNext(p, r, c)
         \/ \E p \in Owner, c \in Command : Answers(p, c)
         \/ Rests
<1> USE DEF Rests, leaseVars, wakeVars, commandVars, queueVars
<1>1. CASE NoChange \/ SetsMode
  BY <1>1 DEF NoChange, SetsMode
<1>2. ASSUME NEW c \in Command, LapseClaim(c) \/ (Accept(c) /\ state[c] # "none") PROVE Rests
  BY <1>2 DEF LapseClaim, Accept
<1>3. ASSUME NEW r \in Run, LapseRunLease(r) \/ Acknowledges(r) PROVE Rests
  BY <1>3 DEF LapseRunLease, Acknowledges
<1>4. ASSUME NEW p \in Owner, NEW r \in Run, AcquireRunLease(p, r) \/ ReleaseRunLease(p, r)
      PROVE  Rests
  BY <1>4 DEF AcquireRunLease, ReleaseRunLease
<1>5. ASSUME NEW p \in Owner, NEW c \in Command, Executes(p, c) PROVE Rests
  BY <1>5 DEF Executes
<1> QED
  BY <1>1, <1>2, <1>3, <1>4, <1>5 DEF Transaction

\* What each of these does to the rows, command by command.
LEMMA AcceptWrites ==
  ASSUME Typed, NEW c \in Command, state[c] = "none", Accept(c)
  PROVE  /\ \A d \in Command : /\ state'[d] = IF d = c THEN "queued" ELSE state[d]
                               /\ place'[d] = IF d = c THEN NextPlace(RunOf[c]) ELSE place[d]
         /\ \A r \in Run : generation'[r] = IF r = RunOf[c] THEN generation[r] + 1 ELSE generation[r]
         /\ Stage(c, "queued")
         /\ UNCHANGED <<mode, leaseVars, claim, claimant, applied, acknowledged>>
BY QueueAssumption DEF Accept, ArmWake, Typed, TypeOK, QueueTypeOK

LEMMA ClaimWrites ==
  ASSUME Typed, NEW p \in Owner, NEW r \in Run, NEW c \in Command, ClaimNext(p, r, c)
  PROVE  /\ state[c] \in {"queued", "claimed"} /\ RunOf[c] = r
         /\ \A d \in Command : RunOf[d] = r /\ state[d] = "queued" => place[c] <= place[d]
         /\ \A d \in Command : state'[d] = IF d = c THEN "claimed" ELSE state[d]
         /\ IF state[c] = "queued" THEN Stage(c, "claimed") ELSE UNCHANGED receipts
         /\ UNCHANGED <<mode, leaseVars, place, applied, wakeVars>>
BY DEF ClaimNext, NextClaimable, CommandsOf, Claimable, StageClaim, Typed, TypeOK, QueueTypeOK

LEMMA AnswerWrites ==
  ASSUME Typed, NEW p \in Owner, NEW c \in Command, Answers(p, c)
  PROVE  /\ state[c] = "claimed" /\ claimant[c] = p /\ holder[RunOf[c]] = p
         /\ \A d \in Command : state'[d] = IF d = c THEN "terminal" ELSE state[d]
         /\ \A r \in Run :
              acknowledged'[r] = IF r = RunOf[c] /\ Unfinished(r) \ {c} = {}
                                 THEN generation[r] ELSE acknowledged[r]
         /\ Stage(c, "terminal")
         /\ UNCHANGED <<mode, leaseVars, place, applied, generation>>
BY DEF Answers, AnswerTerminal, MayAnswer, Holds, WakeSettled, Typed, TypeOK, QueueTypeOK

LEMMA ExecuteWrites ==
  ASSUME Typed, NEW p \in Owner, NEW c \in Command, Executes(p, c)
  PROVE  \A d \in Command : applied'[d] = IF d = c /\ applied[d] = 0 THEN 1 ELSE applied[d]
BY DEF Executes, Submit, Typed, TypeOK, QueueTypeOK

----------------------------------------------------------------------------
(* Receipts                                                                 *)

\* A move stages one receipt; a claim taken over stages none.
LEMMA ReceiptsStep ==
  ASSUME Typed, ReceiptsTellHistory, Transaction
  PROVE  ReceiptsTellHistory'
<1> DEFINE Told(c) ==
      /\ receipts[c]["queued"] = IF state[c] = "none" THEN 0 ELSE 1
      /\ receipts[c]["claimed"] = IF state[c] \in {"claimed", "terminal"} THEN 1 ELSE 0
      /\ receipts[c]["terminal"] = IF state[c] = "terminal" THEN 1 ELSE 0
<1>0. /\ receipts \in [Command -> [Staged -> Nat]]
      /\ {"queued", "claimed", "terminal"} \subseteq Staged
  BY DEF Typed, TypeOK, QueueTypeOK, Staged
<1>1. \A c \in Command : Told(c)
  BY DEF ReceiptsTellHistory
<1>2. SUFFICES ASSUME NEW d \in Command PROVE Told(d)'
  BY DEF ReceiptsTellHistory
<1>3. ASSUME NEW c \in Command, state[c] = "none", Accept(c) PROVE Told(d)'
  BY <1>0, <1>1, <1>3, AcceptWrites, StageWrites
<1>4. ASSUME NEW p \in Owner, NEW r \in Run, NEW c \in Command, ClaimNext(p, r, c)
      PROVE  Told(d)'
  BY <1>0, <1>1, <1>4, ClaimWrites, StageWrites
<1>5. ASSUME NEW p \in Owner, NEW c \in Command, Answers(p, c) PROVE Told(d)'
  BY <1>0, <1>1, <1>5, AnswerWrites, StageWrites
<1>6. CASE Rests
  BY <1>1, <1>6 DEF Rests
<1> QED
  BY <1>3, <1>4, <1>5, <1>6, Moves

----------------------------------------------------------------------------
(* The rows and the cycles                                                  *)

LEMMA BookkeptStep ==
  ASSUME Typed, Bookkept, CarriedOut, Transaction
  PROVE  Bookkept'
<1> DEFINE Kept1(c) ==
      /\ state[c] = "none" <=> place[c] = 0
      /\ applied[c] \in {0, 1}
      /\ state[c] \in {"none", "queued"} => applied[c] = 0
      /\ state[c] = "terminal" => applied[c] = 1
<1>1. \A c \in Command : Kept1(c)
  BY DEF Bookkept
<1>2. SUFFICES ASSUME NEW d \in Command PROVE Kept1(d)'
  BY DEF Bookkept
<1>3. ASSUME NEW c \in Command, state[c] = "none", Accept(c) PROVE Kept1(d)'
  BY <1>1, <1>3, AcceptWrites, NextPlaceType
<1>4. ASSUME NEW p \in Owner, NEW r \in Run, NEW c \in Command, ClaimNext(p, r, c)
      PROVE  Kept1(d)'
  BY <1>1, <1>4, ClaimWrites
<1>5. ASSUME NEW p \in Owner, NEW c \in Command, Answers(p, c) PROVE Kept1(d)'
  <2>1. applied[c] = 1
    BY <1>5 DEF Answers, CarriedOut
  <2> QED
    BY <1>1, <1>5, <2>1, AnswerWrites
<1>6. ASSUME NEW p \in Owner, NEW c \in Command, Executes(p, c) PROVE Kept1(d)'
  <2>1. state[c] \in {"claimed", "terminal"}
    BY <1>6 DEF Executes, CarriedOut
  <2>2. UNCHANGED <<state, place>>
    BY <1>6 DEF Executes
  <2> QED
    BY <1>1, <1>6, <2>1, <2>2, ExecuteWrites
<1>7. CASE Rests /\ UNCHANGED applied
  BY <1>1, <1>7 DEF Rests
<1> QED
  BY <1>3, <1>4, <1>5, <1>6, <1>7, Moves DEF Rests

\* A cycle comes to a command by claiming it, and to its answer by executing it.
LEMMA CycleMoves ==
  ASSUME Typed, Next, NEW q \in Owner, cycle'[q].at \in {"execute", "answer"}
  PROVE  \/ cycle'[q] = cycle[q]
         \/ /\ cycle'[q].at = "execute" /\ cycle'[q].command \in Command
            /\ \E r \in Run : ClaimNext(q, r, cycle'[q].command)
         \/ /\ cycle'[q].at = "answer" /\ cycle'[q].command = cycle[q].command
            /\ cycle[q].command \in Command /\ Executes(q, cycle[q].command)
<1>1. cycle \in [Owner -> CycleRecords]
  BY DEF Typed, TypeOK, ServiceTypeOK
<1>2. IdleCycle.at = "idle"
  BY DEF IdleCycle
<1>3. ASSUME NEW p \in Owner, CycleStep(p) \/ Fail(p), q # p PROVE cycle'[q] = cycle[q]
  BY <1>1, <1>3, StepFits DEF CycleBecomes
<1>4. ASSUME CycleThrows(q) \/ \E w : CycleEnds(q, w) PROVE FALSE
  BY <1>1, <1>2, <1>4 DEF CycleThrows, CycleEnds
<1>5. ASSUME NEW s \in Stages, Goto(q, s) PROVE cycle'[q] = [cycle[q] EXCEPT !.at = s]
  BY <1>1, <1>5 DEF Goto
<1>6. cycle[q] \in CycleRecords
  BY <1>1
<1>7. CASE ClaimStep(q)
  <2>1. ASSUME NEW c \in Command, ClaimNext(q, cycle[q].run, c),
               cycle' = [cycle EXCEPT ![q].at = "execute", ![q].command = c]
        PROVE  /\ cycle'[q].at = "execute" /\ cycle'[q].command = c
               /\ cycle[q].run \in Run
    <3>1. cycle'[q] = [cycle[q] EXCEPT !.at = "execute", !.command = c]
      BY <1>1, <2>1
    <3>2. cycle[q].run \in Run
      BY <1>7 DEF ClaimStep, AtStage, Typed, CyclesFit, Fits
    <3> QED
      BY <1>6, <3>1, <3>2 DEF CycleRecords
  <2>2. ASSUME Goto(q, "deliver") PROVE FALSE
    BY <1>5, <1>6, <2>2 DEF CycleRecords, Stages
  <2> QED
    BY <1>4, <1>7, <2>1, <2>2 DEF ClaimStep
<1>8. CASE ExecuteStep(q)
  <2>1. cycle'[q] = [cycle[q] EXCEPT !.at = "answer"]
    BY <1>5, <1>8 DEF ExecuteStep, Stages
  <2>2. Executes(q, cycle[q].command) /\ cycle[q].command \in Command
    BY <1>8 DEF ExecuteStep, AtStage, Executes, Typed, CyclesFit, Fits
  <2> QED
    BY <1>6, <2>1, <2>2 DEF CycleRecords
<1>9. CASE AcquireStep(q) \/ ReleaseStep(q)
  <2>1. ASSUME Goto(q, "claim") \/ Goto(q, "settle") PROVE FALSE
    BY <1>5, <1>6, <2>1 DEF CycleRecords, Stages
  <2> QED
    BY <1>4, <1>9, <2>1 DEF AcquireStep, ReleaseStep
<1>10. CASE AnswerStep(q) \/ DeliverStep(q) \/ MarkStep(q) \/ EffectsStep(q) \/ Fail(q)
  <2>1. ASSUME NEW s \in {"deliver", "mark", "effects", "release"}, NEW w, NEW c,
               \/ cycle' = [cycle EXCEPT ![q].at = s, ![q].worked = w, ![q].command = c]
               \/ cycle' = [cycle EXCEPT ![q].at = s, ![q].worked = w]
               \/ cycle' = [cycle EXCEPT ![q].at = s, ![q].command = c]
               \/ cycle' = [cycle EXCEPT ![q].at = s]
        PROVE  FALSE
    <3>1. \/ cycle'[q] = [cycle[q] EXCEPT !.at = s, !.worked = w, !.command = c]
          \/ cycle'[q] = [cycle[q] EXCEPT !.at = s, !.worked = w]
          \/ cycle'[q] = [cycle[q] EXCEPT !.at = s, !.command = c]
          \/ cycle'[q] = [cycle[q] EXCEPT !.at = s]
      BY <1>1, <2>1
    <3> QED
      BY <1>6, <3>1 DEF CycleRecords
  <2> QED
    BY <1>4, <1>10, <2>1 DEF AnswerStep, DeliverStep, MarkStep, EffectsStep, Fail
<1>11. CASE SettleStep(q)
  BY <1>4, <1>11 DEF SettleStep
<1>12. CASE BeginCycle \/ BeginRecovery \/ Crash \/ \E p \in Direct, r \in Run : DirectRecover(p, r)
  <2>1. ASSUME NEW p, NEW r, NEW w, NEW by,
               \/ cycle' = [cycle EXCEPT ![p] =
                    [IdleCycle EXCEPT !.at = "begun", !.by = by, !.run = r, !.wake = w]]
               \/ cycle' = [cycle EXCEPT ![p] =
                    [IdleCycle EXCEPT !.at = "begun", !.by = by, !.run = r]]
               \/ cycle' = [cycle EXCEPT ![p] = IdleCycle]
        PROVE  cycle'[q] = cycle[q]
    <3>1. [IdleCycle EXCEPT !.at = "begun", !.by = by, !.run = r, !.wake = w].at = "begun"
      BY DEF IdleCycle
    <3>2. [IdleCycle EXCEPT !.at = "begun", !.by = by, !.run = r].at = "begun"
      BY DEF IdleCycle
    <3> QED
      BY <1>1, <1>2, <2>1, <3>1, <3>2
  <2>2. CASE BeginCycle
    <3>1. CASE MayBegin
      <4> DEFINE r == Earliest(Targets)
                 w == IF PendingWakes # {} THEN generation[r] ELSE 0
      <4>1. cycle' = [cycle EXCEPT ![daemon] =
              [IdleCycle EXCEPT !.at = "begun", !.by = "pump", !.run = r, !.wake = w]]
        BY <2>2, <3>1 DEF BeginCycle
      <4> HIDE DEF r, w
      <4> QED
        BY <2>1, <4>1
    <3>2. CASE ~MayBegin
      BY <2>2, <3>2 DEF BeginCycle
    <3> QED
      BY <3>1, <3>2
  <2>3. CASE BeginRecovery
    BY <2>1, <2>3 DEF BeginRecovery
  <2>4. CASE Crash
    BY <2>1, <2>4 DEF Crash
  <2>5. CASE \E p \in Direct, r \in Run : DirectRecover(p, r)
    BY <2>1, <2>5 DEF DirectRecover
  <2> QED
    BY <1>12, <2>2, <2>3, <2>4, <2>5
<1>13. CASE \/ \E d \in Daemon : Start(d)
            \/ StartupRecovered \/ ReportRunning \/ StartupFails
            \/ PumpEnds \/ RetryFires \/ RequestWake
            \/ \E c \in Command : SubmitCommand(c) \/ RecordCompletion(c) \/ DeliverInline(c)
                                  \/ ClaimExpires(c)
            \/ \E r \in Run : RequestRecovery(r) \/ LeaseExpires(r)
            \/ Drain \/ FinishDrain \/ Stop
  BY <1>13 DEF Start, StartupRecovered, ReportRunning, StartupFails, PumpEnds, RetryFires,
     RequestWake, SubmitCommand, RecordCompletion, DeliverInline, ClaimExpires,
     RequestRecovery, LeaseExpires, Drain, FinishDrain, Stop
<1> QED
  BY <1>3, <1>7, <1>8, <1>9, <1>10, <1>11, <1>12, <1>13 DEF Next, CycleStep

LEMMA CarriedOutStep ==
  ASSUME Typed, Bookkept, CarriedOut, Next
  PROVE  CarriedOut'
<1> DEFINE Carries(k) ==
      /\ k.at \in {"execute", "answer"} => state[k.command] \in {"claimed", "terminal"}
      /\ k.at = "answer" => applied[k.command] = 1
           Forward(d) ==
      /\ state[d] \in {"claimed", "terminal"} => state'[d] \in {"claimed", "terminal"}
      /\ applied[d] = 1 => applied'[d] = 1
<1>1. \A p \in Owner : Carries(cycle[p])
  BY DEF CarriedOut
<1>2. ASSUME NEW d \in Command PROVE Forward(d)
  <2>1. ASSUME NEW c \in Command, state[c] = "none", Accept(c) PROVE Forward(d)
    BY <2>1, AcceptWrites
  <2>2. ASSUME NEW p \in Owner, NEW r \in Run, NEW c \in Command, ClaimNext(p, r, c)
        PROVE  Forward(d)
    BY <2>2, ClaimWrites
  <2>3. ASSUME NEW p \in Owner, NEW c \in Command, Answers(p, c) PROVE Forward(d)
    BY <2>3, AnswerWrites
  <2>4. CASE Rests
    BY <2>4, ExecuteWrites DEF Rests
  <2> QED
    BY <2>1, <2>2, <2>3, <2>4, OneTransaction, Moves
<1>3. SUFFICES ASSUME NEW q \in Owner, cycle'[q].at \in {"execute", "answer"}
               PROVE  Carries(cycle[q])'
  BY DEF CarriedOut
<1>4. CASE cycle'[q] = cycle[q]
  <2>1. cycle[q].command \in Command
    BY <1>3, <1>4 DEF Typed, CyclesFit, Fits
  <2> QED
    BY <1>1, <1>2, <1>3, <1>4, <2>1
<1>5. ASSUME NEW r \in Run, ClaimNext(q, r, cycle'[q].command), cycle'[q].at = "execute",
             cycle'[q].command \in Command
      PROVE  Carries(cycle[q])'
  BY <1>5, ClaimWrites
<1>6. ASSUME cycle'[q].command = cycle[q].command, cycle[q].command \in Command,
             Executes(q, cycle[q].command)
      PROVE  Carries(cycle[q])'
  <2> DEFINE c == cycle[q].command
  <2>1. state[c] \in {"claimed", "terminal"}
    BY <1>1, <1>6 DEF Executes
  <2>2. applied'[c] = 1
    BY <1>6, ExecuteWrites DEF Bookkept
  <2> QED
    BY <1>2, <1>6, <2>1, <2>2
<1> QED
  BY <1>3, <1>4, <1>5, <1>6, CycleMoves

LEMMA HolderIsLeasedStep ==
  ASSUME Typed, HolderIsLeased, Transaction
  PROVE  HolderIsLeased'
<1>1. ASSUME NEW p \in Owner, NEW r \in Run, AcquireRunLease(p, r) PROVE HolderIsLeased'
  BY <1>1 DEF AcquireRunLease, HolderIsLeased, Typed, TypeOK, QueueTypeOK
<1>2. ASSUME NEW p \in Owner, NEW r \in Run, ReleaseRunLease(p, r) PROVE HolderIsLeased'
  BY <1>2 DEF ReleaseRunLease, HolderIsLeased, Typed, TypeOK, QueueTypeOK
<1>3. ASSUME UNCHANGED <<leased, holder>> PROVE HolderIsLeased'
  BY <1>3 DEF HolderIsLeased
<1>4. ASSUME NEW p \in Owner, NEW c \in Command, Executes(p, c) \/ Answers(p, c)
      PROVE  HolderIsLeased'
  BY <1>3, <1>4 DEF Executes, Answers, AnswerTerminal, leaseVars
<1>5. ASSUME NEW c \in Command, Accept(c) \/ LapseClaim(c) PROVE HolderIsLeased'
  BY <1>3, <1>5 DEF Accept, LapseClaim, leaseVars, queueVars
<1>6. ASSUME NEW r \in Run, LapseRunLease(r) \/ Acknowledges(r) PROVE HolderIsLeased'
  BY <1>3, <1>6 DEF LapseRunLease, Acknowledges, leaseVars
<1>7. ASSUME NEW p \in Owner, NEW r \in Run, NEW c \in Command, ClaimNext(p, r, c)
      PROVE  HolderIsLeased'
  BY <1>3, <1>7 DEF ClaimNext, leaseVars
<1>8. CASE NoChange \/ SetsMode
  BY <1>3, <1>8 DEF NoChange, SetsMode, leaseVars, queueVars
<1> QED
  BY <1>1, <1>2, <1>4, <1>5, <1>6, <1>7, <1>8 DEF Transaction

----------------------------------------------------------------------------
(* Wakes                                                                    *)

\* What is left of a run changes with the commands of that run alone.
LEMMA UnfinishedMoves ==
  ASSUME NEW c \in Command, NEW r \in Run,
         \A d \in Command : d # c => state'[d] = state[d],
         RunOf[c] # r \/ (state[c] \in {"queued", "claimed"} <=> state'[c] \in {"queued", "claimed"})
  PROVE  Unfinished(r)' = Unfinished(r)
BY DEF Unfinished, CommandsOf

LEMMA WakesStep ==
  ASSUME Typed, AcknowledgedMeansDone, WakesBounded, Transaction
  PROVE  (AcknowledgedMeansDone /\ WakesBounded)'
<1> DEFINE Done(r) == (acknowledged[r] = generation[r] <=> Unfinished(r) = {})
                      /\ acknowledged[r] <= generation[r]
<1>1. /\ \A r \in Run : Done(r)
      /\ generation \in [Run -> Nat] /\ acknowledged \in [Run -> Nat]
  BY DEF AcknowledgedMeansDone, WakesBounded, Typed, TypeOK, QueueTypeOK
<1>2. SUFFICES ASSUME NEW r \in Run PROVE Done(r)'
  BY DEF AcknowledgedMeansDone, WakesBounded
<1>3. ASSUME NEW c \in Command, state[c] = "none", Accept(c) PROVE Done(r)'
  <2>1. CASE RunOf[c] = r
    <3>1. c \in Unfinished(r)'
      BY <1>3, <2>1, AcceptWrites DEF Unfinished, CommandsOf
    <3> QED
      BY <1>1, <1>3, <2>1, <3>1, AcceptWrites
  <2>2. CASE RunOf[c] # r
    <3>1. Unfinished(r)' = Unfinished(r)
      BY <1>3, <2>2, AcceptWrites, UnfinishedMoves
    <3> QED
      BY <1>1, <1>3, <2>2, <3>1, AcceptWrites
  <2> QED
    BY <2>1, <2>2
<1>4. ASSUME NEW p \in Owner, NEW s \in Run, NEW c \in Command, ClaimNext(p, s, c)
      PROVE  Done(r)'
  <2>1. Unfinished(r)' = Unfinished(r)
    BY <1>4, ClaimWrites, UnfinishedMoves
  <2> QED
    BY <1>1, <1>4, <2>1, ClaimWrites DEF wakeVars
<1>5. ASSUME NEW p \in Owner, NEW c \in Command, Answers(p, c) PROVE Done(r)'
  <2>1. CASE RunOf[c] = r
    <3>1. c \in Unfinished(r) /\ Unfinished(r)' = Unfinished(r) \ {c}
      BY <1>5, <2>1, AnswerWrites DEF Unfinished, CommandsOf
    <3> QED
      BY <1>1, <1>5, <2>1, <3>1, AnswerWrites
  <2>2. CASE RunOf[c] # r
    <3>1. Unfinished(r)' = Unfinished(r)
      BY <1>5, <2>2, AnswerWrites, UnfinishedMoves
    <3> QED
      BY <1>1, <1>5, <2>2, <3>1, AnswerWrites
  <2> QED
    BY <2>1, <2>2
<1>6. CASE Rests
  <2>1. Unfinished(r)' = Unfinished(r)
    BY <1>6 DEF Rests, Unfinished, CommandsOf
  <2>2. acknowledged'[r] = acknowledged[r] /\ generation'[r] = generation[r]
    <3>1. ASSUME NEW s \in Run, Acknowledges(s) PROVE acknowledged'[r] = acknowledged[r]
      BY <1>1, <3>1 DEF Acknowledges, AcknowledgeWake
    <3> QED
      BY <1>6, <3>1 DEF Rests
  <2> QED
    BY <1>1, <2>1, <2>2
<1> QED
  BY <1>3, <1>4, <1>5, <1>6, Moves

----------------------------------------------------------------------------
(* The order of acceptance                                                  *)

LEMMA PlacedIsFinite ==
  ASSUME NEW r PROVE IsFiniteSet(Placed(r)) /\ Cardinality(Placed(r)) \in Nat
<1>1. Placed(r) \in SUBSET Command
  BY DEF Placed, CommandsOf
<1>2. IsFiniteSet(Placed(r))
  BY <1>1, FS_Subset, QueueAssumption
<1> QED
  BY <1>2, FS_CardinalityType

\* Acceptance adds one place to its run.
LEMMA AcceptPlaces ==
  ASSUME Typed, Bookkept, NEW c \in Command, state[c] = "none", Accept(c), NEW r \in Run
  PROVE  /\ place'[c] = 1 + Cardinality(Placed(RunOf[c]))
         /\ Cardinality(Placed(r))' = IF r = RunOf[c] THEN Cardinality(Placed(r)) + 1
                                     ELSE Cardinality(Placed(r))
<1>1. place'[c] = NextPlace(RunOf[c]) /\ NextPlace(RunOf[c]) \in Nat \ {0}
  BY AcceptWrites, NextPlaceType
<1>2. c \notin Placed(r)
  BY DEF Bookkept, Placed
<1>3. CASE r = RunOf[c]
  <2>1. Placed(r)' = Placed(r) \cup {c}
    BY <1>1, <1>3, AcceptWrites DEF Placed, CommandsOf
  <2> QED
    BY <1>1, <1>2, <1>3, <2>1, PlacedIsFinite, FS_AddElement DEF NextPlace, Placed
<1>4. CASE r # RunOf[c]
  <2>1. Placed(r)' = Placed(r)
    BY <1>4, AcceptWrites DEF Placed, CommandsOf
  <2> QED
    BY <1>1, <1>4, <2>1 DEF NextPlace, Placed
<1> QED
  BY <1>3, <1>4

LEMMA OrderStep ==
  ASSUME Typed, Bookkept, PlacesCount, TakenInOrder, Transaction
  PROVE  (PlacesCount /\ TakenInOrder)'
<1>1. /\ place \in [Command -> Nat]
      /\ \A c \in Command : RunOf[c] \in Run /\ Cardinality(Placed(RunOf[c])) \in Nat
  BY QueueAssumption, PlacedIsFinite DEF Typed, TypeOK, QueueTypeOK
<1>2. ASSUME NEW c \in Command, state[c] = "none", Accept(c)
      PROVE  (PlacesCount /\ TakenInOrder)'
  <2>1. \A d \in Command : /\ place'[d] = IF d = c THEN 1 + Cardinality(Placed(RunOf[c])) ELSE place[d]
                           /\ state'[d] = IF d = c THEN "queued" ELSE state[d]
    BY <1>1, <1>2, AcceptWrites, AcceptPlaces
  <2>2. \A d \in Command : Cardinality(Placed(RunOf[d]))' =
          IF RunOf[d] = RunOf[c] THEN Cardinality(Placed(RunOf[d])) + 1
          ELSE Cardinality(Placed(RunOf[d]))
    BY <1>1, <1>2, AcceptPlaces
  <2>3. \A d \in Command : RunOf[d] = RunOf[c] => place[d] < 1 + Cardinality(Placed(RunOf[c]))
    BY <1>1 DEF PlacesCount
  <2>4. PlacesCount'
    BY <1>1, <2>1, <2>2, <2>3 DEF PlacesCount
  <2>5. TakenInOrder'
    BY <1>1, <2>1, <2>3 DEF TakenInOrder
  <2> QED
    BY <2>4, <2>5
<1>3. ASSUME UNCHANGED place PROVE PlacesCount'
  BY <1>3 DEF PlacesCount, Placed, CommandsOf
<1>4. ASSUME NEW p \in Owner, NEW r \in Run, NEW c \in Command, ClaimNext(p, r, c)
      PROVE  (PlacesCount /\ TakenInOrder)'
  <2>1. TakenInOrder'
    <3> SUFFICES ASSUME NEW b \in Command, NEW d \in Command, RunOf[b] = RunOf[d],
                        state'[b] \in {"claimed", "terminal"}, state'[d] = "queued"
                 PROVE  place[b] < place[d]
      BY <1>4, ClaimWrites DEF TakenInOrder
    <3>1. d # c /\ state[d] = "queued"
      BY <1>4, ClaimWrites
    <3>2. CASE b = c
      <4>1. place[c] <= place[d] /\ place[c] # place[d]
        BY <1>4, <3>1, <3>2, ClaimWrites DEF PlacesCount, Bookkept
      <4> QED
        BY <1>1, <3>2, <4>1
    <3>3. CASE b # c
      BY <1>4, <3>1, <3>3, ClaimWrites DEF TakenInOrder
    <3> QED
      BY <3>2, <3>3
  <2> QED
    BY <1>3, <1>4, <2>1, ClaimWrites
<1>5. ASSUME NEW p \in Owner, NEW c \in Command, Answers(p, c)
      PROVE  (PlacesCount /\ TakenInOrder)'
  <2>1. TakenInOrder'
    BY <1>5, AnswerWrites DEF TakenInOrder
  <2> QED
    BY <1>3, <1>5, <2>1, AnswerWrites
<1>6. CASE Rests
  BY <1>3, <1>6 DEF Rests, TakenInOrder
<1> QED
  BY <1>2, <1>4, <1>5, <1>6, Moves

----------------------------------------------------------------------------
(* The ledger of commands                                                   *)

Progresses == [c \in Command |-> Progressed(c)]

\* A step that leaves the state and the executions of every command but one
\* leaves the ledger of every command but one.
LEMMA OneProgresses ==
  ASSUME NEW c \in Command,
         \A d \in Command : d # c => state'[d] = state[d] /\ applied'[d] = applied[d]
  PROVE  Progresses' = [Progresses EXCEPT ![c] = Progressed(c)']
<1>1. \A d \in Command : d # c => Progressed(d)' = Progressed(d)
  BY DEF Progressed
<1> QED
  BY <1>1 DEF Progresses

LEMMA LedgerStep ==
  ASSUME Typed, Bookkept, CarriedOut, Transaction
  PROVE  Ledger!Next \/ UNCHANGED Progresses
<1>1. \A c \in Command : Progresses[c] = Progressed(c)
  BY DEF Progresses
<1>2. state \in [Command -> {"none", "queued", "claimed", "terminal"}]
  BY DEF Typed, TypeOK, QueueTypeOK, Staged
<1>3. ASSUME NEW c \in Command, Progresses' = [Progresses EXCEPT ![c] = Progressed(c)'],
             Progressed(c)' = Progressed(c)
      PROVE  UNCHANGED Progresses
  BY <1>1, <1>3 DEF Progresses
<1>4. ASSUME NEW c \in Command, Progresses' = [Progresses EXCEPT ![c] = Progressed(c)'],
             <<Progressed(c), Progressed(c)'>> \in {<<"unknown", "accepted">>,
               <<"accepted", "executed">>, <<"executed", "answered">>}
      PROVE  Ledger!Next
  <2>1. Progresses[c] = Progressed(c)
    BY <1>1
  <2> QED
    BY <1>4, <2>1
       DEF Ledger!Next, Ledger!Accept, Ledger!Execute, Ledger!Answer, Ledger!Advance, Progresses
<1>5. ASSUME NEW c \in Command, state[c] = "none", Accept(c) PROVE Ledger!Next
  <2>1. state'[c] = "queued" /\ applied'[c] = 0
    BY <1>5, AcceptWrites DEF Bookkept
  <2>2. Progressed(c) = "unknown" /\ Progressed(c)' = "accepted"
    BY <1>5, <2>1 DEF Progressed
  <2>3. Progresses' = [Progresses EXCEPT ![c] = Progressed(c)']
    BY <1>5, AcceptWrites, OneProgresses
  <2> QED
    BY <1>4, <2>2, <2>3
<1>6. ASSUME NEW p \in Owner, NEW r \in Run, NEW c \in Command, ClaimNext(p, r, c)
      PROVE  UNCHANGED Progresses
  <2>1. state[c] \in {"queued", "claimed"} /\ state'[c] = "claimed" /\ applied'[c] = applied[c]
    BY <1>6, ClaimWrites
  <2>2. Progressed(c)' = Progressed(c)
    BY <2>1 DEF Progressed, Bookkept
  <2>3. Progresses' = [Progresses EXCEPT ![c] = Progressed(c)']
    BY <1>6, ClaimWrites, OneProgresses
  <2> QED
    BY <1>3, <2>2, <2>3
<1>7. ASSUME NEW p \in Owner, NEW c \in Command, Answers(p, c) PROVE Ledger!Next
  <2>1. /\ state[c] = "claimed" /\ state'[c] = "terminal"
        /\ applied[c] = 1 /\ applied'[c] = 1
    BY <1>7, AnswerWrites DEF Answers, CarriedOut
  <2>2. Progressed(c) = "executed" /\ Progressed(c)' = "answered"
    BY <2>1 DEF Progressed
  <2>3. Progresses' = [Progresses EXCEPT ![c] = Progressed(c)']
    BY <1>7, AnswerWrites, OneProgresses
  <2> QED
    BY <1>4, <2>2, <2>3
<1>8. ASSUME NEW p \in Owner, NEW c \in Command, Executes(p, c)
      PROVE  Ledger!Next \/ UNCHANGED Progresses
  <2>1. UNCHANGED state /\ state[c] \in {"claimed", "terminal"} /\ applied'[c] = 1
    BY <1>8, ExecuteWrites DEF Executes, CarriedOut, Bookkept
  <2>2. Progresses' = [Progresses EXCEPT ![c] = Progressed(c)']
    BY <1>8, <2>1, ExecuteWrites, OneProgresses
  <2>3. CASE applied[c] = 0
    <3>1. Progressed(c) = "accepted" /\ Progressed(c)' = "executed"
      BY <2>1, <2>3 DEF Progressed, Bookkept
    <3> QED
      BY <1>4, <2>2, <3>1
  <2>4. CASE applied[c] = 1
    <3>1. Progressed(c)' = Progressed(c)
      BY <2>1, <2>4 DEF Progressed
    <3> QED
      BY <1>3, <2>2, <3>1
  <2> QED
    BY <2>3, <2>4 DEF Bookkept
<1>9. ASSUME UNCHANGED <<state, applied>> PROVE UNCHANGED Progresses
  BY <1>9 DEF Progresses, Progressed
<1> QED
  BY <1>5, <1>6, <1>7, <1>8, <1>9, Moves DEF Rests

----------------------------------------------------------------------------
(* The theorems                                                             *)

LEMMA KeptInit == Init => Kept
BY TypedInit DEF Init, QueueInit, IdleCycle, Kept, Bookkept, CarriedOut, HolderIsLeased

LEMMA KeptStep == Kept /\ [Next]_vars => Kept'
<1>1. ASSUME Kept, Next PROVE Kept'
  <2>1. Typed' /\ Transaction
    BY <1>1, TypedStep, OneTransaction DEF Kept
  <2> QED
    BY <1>1, <2>1, BookkeptStep, CarriedOutStep, HolderIsLeasedStep DEF Kept
<1>2. ASSUME Kept, UNCHANGED vars PROVE Kept'
  <2>1. Typed'
    BY <1>2, TypedStep DEF Kept
  <2> QED
    BY <1>2, <2>1 DEF vars, queueVars, leaseVars, commandVars, wakeVars, Kept, Bookkept,
       CarriedOut, HolderIsLeased
<1> QED
  BY <1>1, <1>2

\* The tables of the queue agree with one another and with the cycles: a claim,
\* a lease taken over or a crash leaves no command between two states.
THEOREM KeptAlways == Spec => []Kept
<1> QED
  BY KeptInit, KeptStep, PTL DEF Spec

\* The receipts of a command are its history, one for each stage it has been
\* in, however often its claim was taken over (#claim, #ackTerminal).
THEOREM ReceiptsAreHistory == Spec => []ReceiptsTellHistory
<1>1. Init => ReceiptsTellHistory
  BY DEF Init, QueueInit, ReceiptsTellHistory, Staged
<1>2. Kept /\ ReceiptsTellHistory /\ [Next]_vars => ReceiptsTellHistory'
  <2>1. ASSUME Kept, ReceiptsTellHistory, Next PROVE ReceiptsTellHistory'
    BY <2>1, OneTransaction, ReceiptsStep DEF Kept
  <2>2. ASSUME ReceiptsTellHistory, UNCHANGED vars PROVE ReceiptsTellHistory'
    BY <2>2 DEF vars, queueVars, commandVars, ReceiptsTellHistory
  <2> QED
    BY <2>1, <2>2
<1> QED
  BY <1>1, <1>2, KeptAlways, PTL DEF Spec

\* A wake row is acknowledged exactly when no command of its run is left,
\* whatever was accepted while a cycle decided that there was nothing to do.
THEOREM WakesAreAcknowledgedLast == Spec => []AcknowledgedMeansDone
<1> DEFINE Inv == AcknowledgedMeansDone /\ WakesBounded
<1>1. Init => Inv
  BY DEF Init, QueueInit, AcknowledgedMeansDone, WakesBounded, Unfinished, CommandsOf
<1>2. Kept /\ Inv /\ [Next]_vars => Inv'
  <2>1. ASSUME Kept, Inv, Next PROVE Inv'
    BY <2>1, OneTransaction, WakesStep DEF Kept
  <2>2. ASSUME Inv, UNCHANGED vars PROVE Inv'
    BY <2>2 DEF vars, queueVars, commandVars, wakeVars, AcknowledgedMeansDone, WakesBounded,
       Unfinished, CommandsOf
  <2> QED
    BY <2>1, <2>2
<1> QED
  BY <1>1, <1>2, KeptAlways, PTL DEF Spec

\* Commands of a run are claimed in the order of their acceptance, and a
\* command nobody has claimed is not overtaken (#claim's ORDER BY).
THEOREM CommandsAreTakenInOrder == Spec => []TakenInOrder
<1> DEFINE Inv == PlacesCount /\ TakenInOrder
<1>1. Init => Inv
  <2>1. ASSUME Init, NEW c \in Command PROVE place[c] <= Cardinality(Placed(RunOf[c]))
    BY <2>1, PlacedIsFinite DEF Init, QueueInit
  <2> QED
    BY <2>1 DEF Init, QueueInit, PlacesCount, TakenInOrder
<1>2. Kept /\ Inv /\ [Next]_vars => Inv'
  <2>1. ASSUME Kept, Inv, Next PROVE Inv'
    BY <2>1, OneTransaction, OrderStep DEF Kept
  <2>2. ASSUME Inv, UNCHANGED vars PROVE Inv'
    BY <2>2 DEF vars, queueVars, commandVars, PlacesCount, TakenInOrder, Placed, CommandsOf
  <2> QED
    BY <2>1, <2>2
<1> QED
  BY <1>1, <1>2, KeptAlways, PTL DEF Spec

\* Whoever answers a command owns its run's lease and is in the cycle that
\* claimed the command (#ackTerminal's checks of the grant and of the claim).
THEOREM HoldersAnswer == Spec => OnlyTheHolderAnswers
<1> DEFINE Answered ==
      \A c \in Command : state[c] # "terminal" /\ state'[c] = "terminal" =>
        /\ leased[RunOf[c]] = claimant[c]
        /\ cycle[claimant[c]].command = c
<1>1. Kept /\ [Next]_vars =>
        [\A c \in Command : state[c] # "terminal" /\ state'[c] = "terminal" =>
           /\ leased[RunOf[c]] = claimant[c]
           /\ cycle[claimant[c]].command = c]_vars
  <2>1. ASSUME Kept, Next PROVE Answered
    <3> SUFFICES ASSUME NEW d \in Command, state[d] # "terminal", state'[d] = "terminal"
                 PROVE  leased[RunOf[d]] = claimant[d] /\ cycle[claimant[d]].command = d
      OBVIOUS
    <3>1. ASSUME NEW c \in Command, state[c] = "none", Accept(c) PROVE FALSE
      BY <2>1, <3>1, AcceptWrites DEF Kept
    <3>2. ASSUME NEW p \in Owner, NEW r \in Run, NEW c \in Command, ClaimNext(p, r, c)
          PROVE  FALSE
      BY <2>1, <3>2, ClaimWrites DEF Kept
    <3>3. ~Rests
      BY DEF Rests
    <3>4. PICK p \in Owner, c \in Command : Answers(p, c)
      BY <2>1, <3>1, <3>2, <3>3, OneTransaction, Moves DEF Kept
    <3>5. c = d
      BY <2>1, <3>4, AnswerWrites DEF Kept
    <3>6. /\ claimant[d] = p /\ holder[RunOf[d]] = p /\ RunOf[d] \in Run
          /\ cycle[p].command = d /\ p # NoOwner
      BY <2>1, <3>4, <3>5, AnswerWrites, QueueAssumption DEF Kept, Answers
    <3> QED
      BY <2>1, <3>6 DEF Kept, HolderIsLeased
  <2> QED
    BY <2>1
<1> QED
  BY <1>1, KeptAlways, PTL DEF Spec, OnlyTheHolderAnswers

\* The supervisor implements the ledger of commands: every accepted command is
\* executed once and answered once, whichever incarnations took part.
THEOREM SupervisorKeepsTheLedger == Spec => LedgerSpec
<1>1. Init => Ledger!Init
  BY DEF Init, QueueInit, Ledger!Init, Progressed
<1>2. Kept /\ [Next]_vars => [Ledger!Next]_[c \in Command |-> Progressed(c)]
  <2>1. ASSUME Kept, Next PROVE Ledger!Next \/ UNCHANGED [c \in Command |-> Progressed(c)]
    BY <2>1, OneTransaction, LedgerStep DEF Kept, Progresses
  <2>2. ASSUME UNCHANGED vars PROVE UNCHANGED [c \in Command |-> Progressed(c)]
    BY <2>2 DEF vars, queueVars, commandVars, Progressed
  <2> QED
    BY <2>1, <2>2
<1> QED
  BY <1>1, <1>2, KeptAlways, PTL DEF Spec, LedgerSpec, Ledger!Spec

----------------------------------------------------------------------------
(* What else follows                                                        *)

\* However often a command's claim is taken over, it takes effect at most once
\* and has taken effect before it is answered (RuntimeAuthority's replay of a
\* command it knows, #claim and #ackTerminal of command-queue.ts).
THEOREM CommandsTakeEffectOnce ==
  Spec => [](\A c \in Command :
               applied[c] \in {0, 1} /\ (state[c] = "terminal" => applied[c] = 1))
<1>1. Kept => \A c \in Command :
                applied[c] \in {0, 1} /\ (state[c] = "terminal" => applied[c] = 1)
  BY DEF Kept, Bookkept
<1> QED
  BY <1>1, KeptAlways, PTL
=============================================================================
