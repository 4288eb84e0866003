----------------------------- MODULE RunDriver ------------------------------
(***************************************************************************)
(* How a run moves from phase to phase: advanceRun (apps/senawa), called   *)
(* by the daemon on every cycle and by `senawa advance` in a process of    *)
(* its own, the agents that run what it dispatches, the scheduler's choice *)
(* of the dispatches that may start, the completion bridge, and the people *)
(* who answer, steer and decide.                                           *)
(*                                                                         *)
(* A driver reads the records once and then acts.  What it does without    *)
(* awaiting anything is one step, except that a dispatch is registered,    *)
(* opened and marked as carrying answers in three transactions, each       *)
(* delivery and each closing command is one, and it may die between any    *)
(* two.  It awaits the gate's sensors with what it read before.            *)
(***************************************************************************)
EXTENDS WorkBroker

CONSTANTS
  Driver,       \* processes that drive the run
  Daemon,       \* those that also record the run's end
  MaxAttempts,  \* per phase: iteration.maximumAttempts
  Iterates,     \* phases with onGateRejected and onApprovalRejected "iterate"
  Escalates,    \* phases with onExhausted "escalate"
  MayAsk,       \* bound: dispatches whose agent may ask a question
  MaySteer,     \* bound: dispatches a person may abort
  ByHand,       \* bound: dispatches a person may start an agent for
  Missed,       \* bound: dispatches whose fact the bridge may miss at first
  MayDrive,     \* bound: per driver, the phases in which it reads
  MayStop       \* bound: where a driver may die

ASSUME DriverAssumption ==
  /\ Daemon \subseteq Driver
  /\ MaxAttempts \in [Phase -> Nat \ {0}]
  /\ Iterates \subseteq Phase /\ Escalates \subseteq Phase
  /\ MayAsk \subseteq Dispatch /\ MaySteer \subseteq Dispatch /\ ByHand \subseteq Dispatch
  /\ Missed \subseteq Dispatch
  /\ MayDrive \in [Driver -> SUBSET Phase]
  /\ MayStop \subseteq
       {"idle", "gating", "closing", "starting", "opening", "carrying"}

VARIABLES
  records,  \* the command authority's records
  broker,   \* the context broker's
  turn,     \* per dispatch: whether an agent has it
  answers,  \* per answered question: the dispatch that carries the answer
  steered,  \* dispatches a person asked to abort and retry
  queued,   \* completions in the supervisor's command queue
  driver,   \* per driver: where it is, and what it read
  ended     \* run_control_state is "ended"

vars == <<records, broker, turn, answers, steered, queued, driver, ended>>

\* Before the fresh dispatch requirement is satisfied no dispatch carries it.
NoDispatch == [task |-> CHOOSE t \in Task : TRUE, ordinal |-> 0]

Turns == {"none", "working", "by-hand", "returned"}
Idle == [at |-> "idle"]
\* What it read at a gate, and what it is about to do for a dispatch.
MeasuringStates ==
  [at : {"gating", "closing", "starting"}, phase : Phase, on : Digest,
   dispatch : Dispatch, newest : Dispatch, tries : 0 .. MaxOrdinal, next : Nat]
DispatchingStates ==
  [at : {"opening", "carrying"}, dispatch : Dispatch, carries : SUBSET Question]
DriverStates == {Idle} \cup MeasuringStates \cup DispatchingStates

Init ==
  /\ records = RecordsInit
  /\ broker = BrokerInit
  /\ turn = [d \in Dispatch |-> "none"]
  /\ answers = [q \in {} |-> NoDispatch]
  /\ steered = {} /\ queued = {}
  /\ driver = [x \in Driver |-> Idle]
  /\ ended = FALSE

----------------------------------------------------------------------------
(* What a driver reads *)

Asked(d) == \E q \in broker.questions : q.dispatch = d

\* (Faulty variant: an outcome is read as soon as the turn has one to come.)
OverStarted(d) ==
  IF d \in broker.handed THEN "closed"
  ELSE IF Asked(d) THEN "suspended"
  ELSE IF turn[d] # "none" THEN "fail"
  ELSE "opened"

\* How the turn of a dispatch ended, if anything says that it did.
Over(d) ==
  IF d \in broker.handed THEN "closed"
  ELSE IF Asked(d) THEN "suspended"
  ELSE IF turn[d] = "returned" THEN "fail"
  ELSE IF Accepted(records, d.task) THEN "closed"
  ELSE "opened"

\* Attempts to close, with those whose opening was never recorded; an answer
\* that was given once is not applied again.
Ending == {d \in broker.dispatches :
             /\ records.attempts[d] \in {"unknown", "opened"}
             /\ Over(d) # "opened"
             /\ <<d, Over(d)>> \notin records.said}

Newest(ds) == CHOOSE d \in ds : \A e \in ds : e.ordinal <= d.ordinal
Oldest(ds) == CHOOSE d \in ds : \A e \in ds : e.ordinal >= d.ordinal

\* currentPhaseDispatches: an accepted task keeps an attempt that handed in.
CurrentOf(t) ==
  LET mine == Of(broker, t)
      handed == mine \cap broker.handed IN
  IF Accepted(records, t) /\ handed # {} THEN Newest(handed) ELSE Newest(mine)

Current(p) == {CurrentOf(t) : t \in Tasks(p)}

\* The phase's business: the first member that has not handed work in.
Business(p) ==
  LET waiting == Current(p) \ broker.handed IN
  IF waiting # {} THEN Oldest(waiting) ELSE Newest(Current(p))

\* (Faulty variant: the newest attempt's ordinal again.)
NextAttemptSame(p) ==
  Max({1} \cup {d.ordinal : d \in OfPhase(broker, p)})

NextAttempt(p) ==
  1 + Max({0} \cup {d.ordinal : d \in OfPhase(broker, p)})

AnsweredOrdinal(t) ==
  Max({0} \cup {q.dispatch.ordinal : q \in {e \in DOMAIN answers : e.dispatch.task = t}})

\* Tries of the task since a person last answered it.
TriesOf(t) ==
  {d \in Of(broker, t) : d.ordinal > AnsweredOrdinal(t) /\ records.attempts[d] # "suspended"}

\* (Faulty variant: what a gate refused does not count.)
TriesUngated(t) == Cardinality({d \in TriesOf(t) : records.attempts[d] # "closed"})

Tries(t) == Cardinality(TriesOf(t))

\* The answers to this task's questions that no dispatch carries yet.
UndeliveredTo(t) ==
  {q \in DOMAIN answers : q.dispatch.task = t /\ answers[q] = NoDispatch}
TaskAlreadyDone(t) == Accepted(records, t) \/ Of(broker, t) \cap broker.handed # {}
AnsweringExhaustion(t) == \E q \in UndeliveredTo(t) : q.kind = "exhausted"

----------------------------------------------------------------------------
(* One step of a driver: Idle drivers read, and take the first that holds *)

At(x, state) == driver' = [driver EXCEPT ![x] = state]
Finished == records.phase = LastPhase /\ Closed(records)
Awake(x) == driver[x] = Idle /\ records.phase \in MayDrive[x]
\* Members of the phase that nothing has been dispatched for.
Untouched == {t \in Tasks(records.phase) : Of(broker, t) = {}}

\* dispatchAttempt up to its registration.  An ordinal that is taken is
\* refused, unless the attempt is the very same one.
DispatchAs(x, d, carries) ==
  \/ /\ MayRegister(broker, d)
     /\ broker' = Register(broker, d)
     /\ At(x, [at |-> "opening", dispatch |-> d, carries |-> carries])
  \/ /\ d \in broker.dispatches
     /\ At(x, [at |-> "opening", dispatch |-> d, carries |-> carries])
     /\ UNCHANGED broker
  \/ /\ ~MayRegister(broker, d)
     /\ At(x, Idle)
     /\ UNCHANGED broker

\* It died before that, with what it wrote until then on record.
Dies(x) == driver[x].at \in MayStop /\ At(x, Idle) /\ UNCHANGED broker

\* The driver's own decision in each case, d being the phase's business.
AbortRetries(d) ==
  /\ d \notin broker.handed /\ d \in steered
  /\ Tries(d.task) < MaxAttempts[records.phase]
StillWorking(d) ==
  ~TaskAlreadyDone(d.task) /\ d \notin broker.handed /\ records.attempts[d] = "opened"

CarriesAnswers(d) ==
  /\ UndeliveredTo(d.task) # {}
  /\ AnsweringExhaustion(d.task) \/ ~TaskAlreadyDone(d.task)
  /\ ~StillWorking(d)
MarksAnswered(d) ==
  /\ UndeliveredTo(d.task) # {}
  /\ TaskAlreadyDone(d.task) /\ ~AnsweringExhaustion(d.task)
GoesOn(d) == ~AbortRetries(d) /\ ~CarriesAnswers(d) /\ ~MarksAnswered(d)
\* The turn is recorded as over, and did not end by asking.
Spent(d) ==
  /\ d \notin broker.handed /\ ~Asked(d)
  /\ records.attempts[d] \notin {"unknown", "opened"}

\* An idle driver with the ended attempts recorded and every member dispatched.
Reads(x) ==
  /\ Awake(x) /\ ~Finished
  /\ Ending = {} /\ Untouched = {}

\* closeEndedAttempts.
CloseEnded(x) ==
  /\ Awake(x) /\ ~Finished
  /\ Ending # {}
  /\ records' = [records EXCEPT
       !.attempts = [d \in Dispatch |-> IF d \in Ending THEN Over(d) ELSE @[d]],
       !.said = @ \cup {<<d, Over(d)>> : d \in Ending}]
  /\ UNCHANGED <<broker, turn, answers, steered, queued, driver, ended>>

DispatchMember(x) ==
  /\ Awake(x) /\ ~Finished /\ Ending = {}
  /\ Untouched # {}
  /\ LET members == Members[records.phase]
         i == Min({j \in DOMAIN members : members[j] \in Untouched}) IN
     DispatchAs(x, [task |-> members[i], ordinal |-> i], {})
  /\ UNCHANGED <<records, turn, answers, steered, queued, ended>>

\* The attempt after d, in the same place.
After(d) == [task |-> d.task, ordinal |-> NextAttempt(records.phase)]

\* A person abandons the turn: it is refused before its successor opens.
RetryAborted(x) ==
  /\ Reads(x)
  /\ LET d == Business(records.phase) IN
     /\ AbortRetries(d) /\ After(d) \in Dispatch
     /\ records' = IF records.attempts[d] = "opened"
                   THEN RecordAttempt(records, d, "refused") ELSE records
     /\ DispatchAs(x, After(d), {}) \/ Dies(x)
  /\ UNCHANGED <<turn, answers, steered, queued, ended>>

CarryAnswers(x) ==
  /\ Reads(x)
  /\ LET d == Business(records.phase) IN
     /\ ~AbortRetries(d) /\ CarriesAnswers(d) /\ After(d) \in Dispatch
     /\ DispatchAs(x, After(d), UndeliveredTo(d.task))
  /\ UNCHANGED <<records, turn, answers, steered, queued, ended>>

\* The requirement may not name the dispatch that asked (CHECK): then the
\* driver fails, here and on every later cycle.
MarkAnswered(x) ==
  /\ Reads(x)
  /\ LET d == Business(records.phase) IN
     /\ ~AbortRetries(d) /\ MarksAnswered(d)
     /\ \E q \in UndeliveredTo(d.task) :
          /\ q.dispatch # d
          /\ answers' = [answers EXCEPT ![q] = d]
  /\ UNCHANGED <<records, broker, turn, steered, queued, driver, ended>>

RetrySpent(x) ==
  /\ Reads(x)
  /\ LET d == Business(records.phase) IN
     /\ GoesOn(d) /\ Spent(d) /\ After(d) \in Dispatch
     /\ Tries(d.task) < MaxAttempts[records.phase]
     /\ DispatchAs(x, After(d), {})
  /\ UNCHANGED <<records, turn, answers, steered, queued, ended>>

\* deliverFacts.  A driver's broker has no consumer of facts, so the fact
\* stays in the outbox, for the bridge, and is offered again in every cycle.
DeliverFact(x) ==
  /\ Reads(x)
  /\ LET d == Business(records.phase) IN GoesOn(d) /\ d \in broker.handed
  /\ \E e \in (Current(records.phase) \cap Undelivered(broker)) \ Heard(records) :
       records' = OfferCompletion(records, e)
  /\ UNCHANGED <<broker, turn, answers, steered, queued, driver, ended>>

\* Everything up to the await: the candidate is made of what was read.
ReadGate(x) ==
  /\ Reads(x)
  /\ LET p == records.phase
         d == Business(p) IN
     /\ GoesOn(d) /\ d \in broker.handed
     /\ \A e \in Current(p) \cap Undelivered(broker) : Tolerated(records, e)
     /\ Covers(records)
     /\ At(x, [at |-> "gating", phase |-> p, dispatch |-> d,
               on |-> [attempt |-> d.ordinal,
                       work |-> [t \in Task |->
                         IF t \in Tasks(p) THEN CurrentOf(t).ordinal ELSE 0]],
               newest |-> Newest(Of(broker, d.task)),
               tries |-> Tries(d.task),
               next |-> NextAttempt(p)])
  /\ UNCHANGED <<records, broker, turn, answers, steered, queued, ended>>

----------------------------------------------------------------------------
(* The sensors have answered: what the driver does with what it had read *)

Retries(s) == s.phase \in Iterates /\ s.tries < MaxAttempts[s.phase]
RetryOf(s) == [task |-> s.dispatch.task, ordinal |-> s.next]

\* askForHelp: raised once, on the newest try, while nobody has answered.
NeedsHelp(s) ==
  /\ s.phase \in Escalates
  /\ ~\E q \in broker.questions : q.dispatch = s.newest /\ q \notin DOMAIN answers
Help(s) == [dispatch |-> s.newest, kind |-> "exhausted", tries |-> s.tries]

\* Red: the evidence is recorded first, then another try or a person.
MeasureRed(x) ==
  /\ driver[x].at = "gating"
  /\ LET s == driver[x] IN
     /\ MayGate(records, s.phase, s.on, "rejected")
     /\ records' = EvaluateGate(records, s.phase, s.on, "rejected")
     /\ \/ /\ Retries(s) /\ RetryOf(s) \in Dispatch
           /\ DispatchAs(x, RetryOf(s), {})
        \/ /\ ~Retries(s)
           /\ broker' = IF NeedsHelp(s) THEN AddQuestion(broker, Help(s)) ELSE broker
           /\ At(x, Idle)
        \/ Dies(x)
  /\ UNCHANGED <<turn, answers, steered, queued, ended>>

\* Green: a phase authored to be approved waits while a person owes it that;
\* another one's close is refused for it, and the answer is kept.
MeasureGreen(x) ==
  /\ driver[x].at = "gating"
  /\ LET s == driver[x]
         r == EvaluateGate(records, s.phase, s.on, "accepted") IN
     /\ MayGate(records, s.phase, s.on, "accepted")
     /\ records' = r
     /\ At(x, IF s.phase \in Approval /\ ApprovalPending(r)
              THEN Idle ELSE [s EXCEPT !.at = "closing"])
  /\ UNCHANGED <<broker, turn, answers, steered, queued, ended>>

\* close-phase; a person's rejection is another try, any other refusal fails.
Close(x) ==
  /\ driver[x].at = "closing"
  /\ LET s == driver[x]
         answer == CloseAnswer(records, s.phase, s.on) IN
     /\ records' = ClosePhase(records, s.phase, s.on)
     /\ \/ /\ answer = "completed"
           /\ At(x, IF s.phase = LastPhase THEN Idle ELSE [s EXCEPT !.at = "starting"])
           /\ UNCHANGED broker
        \/ /\ answer = "rejected-authority" /\ Retries(s) /\ RetryOf(s) \in Dispatch
           /\ DispatchAs(x, RetryOf(s), {}) \/ Dies(x)
        \/ /\ answer # "completed"
           /\ answer = "rejected-authority" => ~Retries(s)
           /\ At(x, Idle)
           /\ UNCHANGED broker
  /\ UNCHANGED <<turn, answers, steered, queued, ended>>

\* start-phase-attempt, answered as before when it was submitted before.
StartNext(x) ==
  /\ driver[x].at = "starting"
  /\ LET next == driver[x].phase + 1 IN
     records' = IF MayStart(records, next) THEN StartPhase(records, next) ELSE records
  /\ At(x, Idle)
  /\ UNCHANGED <<broker, turn, answers, steered, queued, ended>>

\* The second transaction of dispatchAttempt, which may refuse.
OpenAttempt(x) ==
  /\ driver[x].at = "opening"
  /\ LET s == driver[x] IN
     /\ records' = RecordAttempt(records, s.dispatch, "opened")
     /\ At(x, IF s.carries # {} /\ MayTransition(records, s.dispatch, "opened")
              THEN [s EXCEPT !.at = "carrying"] ELSE Idle)
  /\ UNCHANGED <<broker, turn, answers, steered, queued, ended>>

\* satisfyFreshDispatchRequirement for each; one that is satisfied fails.
SatisfyRequirements(x) ==
  /\ driver[x].at = "carrying"
  /\ answers' = [q \in DOMAIN answers |->
                   IF q \in driver[x].carries /\ answers[q] = NoDispatch
                   THEN driver[x].dispatch ELSE answers[q]]
  /\ At(x, Idle)
  /\ UNCHANGED <<records, broker, turn, steered, queued, ended>>

\* A driver stops between two steps, or is refused where it tolerates nothing.
Stop(x) ==
  /\ driver[x] # Idle /\ driver[x].at \in MayStop
  /\ At(x, Idle)
  /\ UNCHANGED <<records, broker, turn, answers, steered, queued, ended>>

\* (Faulty variant: the phase it reads being closed is enough.)
RecordFinishedEarly(x) ==
  /\ x \in Daemon /\ Awake(x)
  /\ Closed(records) /\ ~ended
  /\ ended' = TRUE
  /\ UNCHANGED <<records, broker, turn, answers, steered, queued, driver>>

\* A daemon records a run whose every phase has closed as ended.
RecordFinished(x) ==
  /\ x \in Daemon /\ Awake(x)
  /\ Finished /\ ~ended
  /\ ended' = TRUE
  /\ UNCHANGED <<records, broker, turn, answers, steered, queued, driver>>

----------------------------------------------------------------------------
(* Agents *)

\* selectCurrentDispatches, schedulableDispatches and the ready frontier.
Schedulable(d) ==
  /\ d \in broker.dispatches /\ d.task \in Tasks(records.phase)
  /\ broker.holder[d.task] = d.ordinal
  /\ ~\E q \in DOMAIN answers : q.dispatch = d /\ answers[q] = NoDispatch
  /\ ~Accepted(records, d.task)

StartAgent(d) ==
  /\ ~ended /\ Schedulable(d)
  /\ turn[d] = "none"
  /\ turn' = [turn EXCEPT ![d] = "working"]
  /\ UNCHANGED <<records, broker, answers, steered, queued, driver, ended>>

\* A person runs an agent with the credential minted for the dispatch: here
\* for the one that the scheduler never starts, the task being accepted.
StartByHand(d) ==
  /\ d \in ByHand \cap broker.dispatches /\ Accepted(records, d.task)
  /\ turn[d] = "none"
  /\ turn' = [turn EXCEPT ![d] = "by-hand"]
  /\ UNCHANGED <<records, broker, answers, steered, queued, driver, ended>>

\* The channel that admits the completion hands its fact to the bridge at
\* once, in a transaction of its own.
AgentHandsIn(d) ==
  /\ turn[d] \in {"working", "by-hand"}
  /\ LET handed == HandIn(broker, d) IN
     /\ handed # broker
     /\ \/ /\ broker' = Deliver(handed, d)
           /\ queued' = queued \cup {d}
        \/ /\ d \in Missed
           /\ broker' = handed
           /\ UNCHANGED queued
  /\ UNCHANGED <<records, turn, answers, steered, driver, ended>>

AgentAsks(d) ==
  /\ d \in MayAsk /\ turn[d] \in {"working", "by-hand"} /\ ~Asked(d)
  /\ broker' = AddQuestion(broker, [dispatch |-> d, kind |-> "asked", tries |-> 0])
  /\ UNCHANGED <<records, turn, answers, steered, queued, driver, ended>>

\* The runner's outcome, where it is what says how the turn ended; nobody sees
\* the end of an agent a person runs.
AgentReturns(d) ==
  /\ turn[d] = "working" /\ d \notin broker.handed /\ ~Asked(d)
  /\ turn' = [turn EXCEPT ![d] = "returned"]
  /\ UNCHANGED <<records, broker, answers, steered, queued, driver, ended>>

----------------------------------------------------------------------------
(* The completion bridge, and the command it queues *)

\* The bridge drains what it missed.
BridgeAccepts(d) ==
  /\ d \in Undelivered(broker)
  /\ broker' = Deliver(broker, d)
  /\ queued' = queued \cup {d}
  /\ UNCHANGED <<records, turn, answers, steered, driver, ended>>

ExecuteCompletion(d) ==
  /\ d \in queued
  /\ queued' = queued \ {d}
  /\ records' = TakeCompletion(records, d)
  /\ UNCHANGED <<broker, turn, answers, steered, driver, ended>>

----------------------------------------------------------------------------
(* People *)

\* Only the attempt that holds the scope is owed an answer to what it asked.
Answer(q) ==
  /\ ~ended
  /\ q \in broker.questions \ DOMAIN answers
  /\ q.kind = "exhausted" \/ ~Stale(broker, q.dispatch)
  /\ answers' = [e \in DOMAIN answers \cup {q} |->
                   IF e = q THEN NoDispatch ELSE answers[e]]
  /\ UNCHANGED <<records, broker, turn, steered, queued, driver, ended>>

\* An attempt that lost its scope is not looked at again.
Steer(d) ==
  /\ ~ended /\ ~Stale(broker, d)
  /\ d \in (MaySteer \cap broker.dispatches) \ (broker.handed \cup steered)
  /\ steered' = steered \cup {d}
  /\ UNCHANGED <<records, broker, turn, answers, queued, driver, ended>>

DecideCandidate(made) ==
  /\ MayDecide(records)
  /\ records' = Decide(records, made)
  /\ UNCHANGED <<broker, turn, answers, steered, queued, driver, ended>>

----------------------------------------------------------------------------

DriverStep(x) ==
  \/ CloseEnded(x) \/ DispatchMember(x) \/ RetryAborted(x) \/ CarryAnswers(x)
  \/ MarkAnswered(x) \/ RetrySpent(x) \/ DeliverFact(x) \/ ReadGate(x)
  \/ MeasureRed(x) \/ MeasureGreen(x) \/ Close(x) \/ StartNext(x)
  \/ OpenAttempt(x) \/ SatisfyRequirements(x) \/ Stop(x) \/ RecordFinished(x)

Next ==
  \/ \E x \in Driver : DriverStep(x)
  \/ \E d \in broker.dispatches :
       \/ StartAgent(d) \/ StartByHand(d) \/ AgentHandsIn(d) \/ AgentAsks(d)
       \/ AgentReturns(d) \/ BridgeAccepts(d) \/ ExecuteCompletion(d) \/ Steer(d)
  \/ \E q \in broker.questions : Answer(q)
  \/ \E made \in {"approve", "reject"} : DecideCandidate(made)

Spec == Init /\ [][Next]_vars

----------------------------------------------------------------------------
(* Correctness *)

TypeOK ==
  /\ records \in RecordsType
  /\ broker \in BrokerType
  /\ turn \in [Dispatch -> Turns]
  /\ DOMAIN answers \subseteq broker.questions
  /\ \A q \in DOMAIN answers : answers[q] \in broker.dispatches \cup {NoDispatch}
  /\ steered \subseteq broker.dispatches
  /\ queued \subseteq broker.handed
  /\ driver \in [Driver -> DriverStates]
  /\ ended \in BOOLEAN

\* A phase is closed only on a candidate that covers each of its tasks with
\* the completion the authority still holds, one its agent handed in while it
\* held the task; and, where a person must approve, on the candidate they
\* approved (closePhase; two drivers, a bridge and late agents in between).
ClosedOnItsEvidence ==
  \A p \in Phase : records.closure[p] # NoDigest =>
    LET on == records.closure[p] IN
    /\ on.work = AssessedWork(records, p)
    /\ \A t \in Tasks(p) : [task |-> t, ordinal |-> on.work[t]] \in broker.handed
    /\ NeedsDecision =>
         records.decision[p] = [made |-> "approve", on |-> on]

\* A task is taken from an agent the scheduler started, and that is still
\* working, only if a person aborted it, it stopped to ask, it has handed its
\* work in, or its opening was never recorded: one agent per task, for the
\* agents that really run and not only for the attempts on record
\* (recordPhaseAttemptTransition, the driver's four ways to dispatch again).
TurnsAreNotTaken ==
  [][\A d \in broker.dispatches :
       (turn[d] = "working" /\ ~Stale(broker, d) /\ Stale(broker', d)) =>
         \/ d \in steered \/ Asked(d) \/ d \in broker.handed
         \/ records.attempts[d] = "unknown"]_vars

\* A task that was tried maximumAttempts times since a person last answered it
\* is not tried again, except to carry an answer; attempts that were ever on
\* record as suspended do not count.  A driver that wakes from the await with
\* an old count, or reads between another one's transactions, keeps to it (the
\* ceiling is read before the sensors run, the retry is dispatched after).
TriesWithinCeiling ==
  [][\A x \in Driver, d \in broker'.dispatches \ broker.dispatches :
       (driver'[x].at = "opening" /\ driver'[x].dispatch = d
          /\ driver'[x].carries = {} /\ Of(broker, d.task) # {}) =>
         Cardinality({e \in Of(broker, d.task) :
                        /\ e.ordinal > AnsweredOrdinal(d.task)
                        /\ <<e, "suspended">> \notin records.said})
           < MaxAttempts[PhaseOf(d.task)]]_vars

\* An answer marked as delivered is carried by another attempt of the task
\* that asked: a later one, or one that has handed the work in, so that
\* nobody waits for it (satisfyFreshDispatchRequirement).
AnswersGoForward ==
  \A q \in DOMAIN answers :
    LET d == answers[q] IN
    d # NoDispatch =>
      /\ d # q.dispatch /\ d.task = q.dispatch.task
      /\ d.ordinal > q.dispatch.ordinal \/ d \in broker.handed

\* A run recorded as ended has closed every phase, each attempt that is still
\* called open is of a task whose work was accepted (recordRunFinished).
EndedIsComplete ==
  ended =>
    /\ \A p \in Phase : records.closure[p] # NoDigest
    /\ \A d \in Dispatch : records.attempts[d] = "opened" => Accepted(records, d.task)

\* The records of a run are a ledger of its phases (PhaseLedger).
Ledger == INSTANCE PhaseLedger WITH
  Phase <- Phase,
  Evidence <- Digest,
  NoEvidence <- NoDigest,
  phase <- records.phase,
  judged <- records.candidate,
  good <- records.verdict = "accepted",
  closed <- records.closure
LedgerSpec == Ledger!Spec
=============================================================================
