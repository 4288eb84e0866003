----------------------------- MODULE RunRecords -----------------------------
(***************************************************************************)
(* The records a run's command authority keeps about its phases and        *)
(* attempts: RuntimeAuthority (packages/runtime).  A command is answered   *)
(* once: submitted again it gets the answer it got, whatever holds now.    *)
(* Each operator is one command on the records r, which are a value, or a  *)
(* question about them.                                                    *)
(***************************************************************************)
EXTENDS Integers, FiniteSets, SequencesExt

CONSTANTS
  Members,     \* per phase, in phaseSequence order: its tasks in order
  Approval,    \* the phases authored with a person's approval
  MaxOrdinal   \* bound: the highest ordinal a dispatch may have

Phase == DOMAIN Members
LastPhase == Len(Members)
Tasks(p) == Range(Members[p])
Task == UNION {Tasks(p) : p \in Phase}
PhaseOf(t) == CHOOSE p \in Phase : t \in Tasks(p)

ASSUME RecordsAssumption ==
  /\ Members \in Seq(Seq(Task)) /\ Len(Members) > 0
  /\ \A p, q \in Phase : p # q => Tasks(p) \cap Tasks(q) = {}
  /\ \A p \in Phase : Tasks(p) # {} /\ IsInjective(Members[p])
  /\ \A p \in Phase : Len(Members[p]) <= MaxOrdinal
  /\ Approval \subseteq Phase
  /\ MaxOrdinal \in Nat \ {0}

\* A dispatch is an attempt of a task; the ordinal orders a phase's attempts.
Dispatch == [task : Task, ordinal : 1 .. MaxOrdinal]
Dispositions == {"opened", "closed", "fail", "suspended", "refused"}

\* What a candidate covers: per task, the attempt whose completion it carries.
Work == [Task -> 0 .. MaxOrdinal]
NoWork == [t \in Task |-> 0]
\* The contents of the candidate's digest: the readings are not part of them.
Digest == [attempt : 0 .. MaxOrdinal, work : Work]
NoDigest == [attempt |-> 0, work |-> NoWork]
Verdicts == {"none", "accepted", "rejected"}
Refusals == {"none", "candidate-exists", "completion-exists", "task-definition-mismatch"}
Answers == {"completed", "candidate-required", "closure-exists", "candidate-mismatch",
            "decision-required", "rejected-gate", "rejected-authority"}

RecordsInit ==
  [phase     |-> 1,
   candidate |-> NoDigest,
   verdict   |-> "none",
   decision  |-> [p \in Phase |-> [made |-> "none", on |-> NoDigest]],
   closure   |-> [p \in Phase |-> NoDigest],
   assessed  |-> NoWork,
   attempts  |-> [d \in Dispatch |-> "unknown"],
   said      |-> {},    \* attempt transitions that have an answer
   heard     |-> {},    \* a driver's submit-completion commands and their answers
   gated     |-> {},    \* evaluate-gate commands that have an answer
   closes    |-> {}]    \* close-phase commands and their answers

RecordsType ==
  [phase : Phase, candidate : Digest, verdict : Verdicts,
   decision : [Phase -> [made : {"none", "approve", "reject"}, on : Digest]],
   closure : [Phase -> Digest], assessed : Work,
   attempts : [Dispatch -> Dispositions \cup {"unknown"}],
   said : SUBSET (Dispatch \X Dispositions),
   heard : SUBSET [dispatch : Dispatch, refusal : Refusals],
   gated : SUBSET [phase : Phase, on : Digest, verdict : Verdicts],
   closes : SUBSET [phase : Phase, on : Digest, answer : Answers]]

----------------------------------------------------------------------------
(* What the records say *)

Accepted(r, t) == r.assessed[t] # 0
Closed(r) == r.closure[r.phase] # NoDigest
\* The work of phase p, as the authority's own assessments have it.
AssessedWork(r, p) == [t \in Task |-> IF t \in Tasks(p) THEN r.assessed[t] ELSE 0]
Covers(r) == \A t \in Tasks(r.phase) : Accepted(r, t)
\* Approval is authored per phase and required per run: of all phases or none.
NeedsDecision == Approval # {}
\* A person owes the phase a decision.
ApprovalPending(r) ==
  /\ NeedsDecision
  /\ r.candidate # NoDigest
  /\ r.decision[r.phase].made = "none"

----------------------------------------------------------------------------
(* submit-completion, from the bridge's queue or from a driver *)

RejectedCandidate(r) == r.candidate # NoDigest /\ r.verdict = "rejected"

CompletionRefusal(r, d) ==
  IF r.candidate # NoDigest /\ ~RejectedCandidate(r) THEN "candidate-exists"
  ELSE IF ~RejectedCandidate(r) /\ Accepted(r, d.task) THEN "completion-exists"
  ELSE IF d.task \notin Tasks(r.phase) THEN "task-definition-mismatch"
  ELSE "none"

SubmitCompletion(r, d) ==
  [r EXCEPT !.assessed[d.task] = d.ordinal,
            !.candidate = IF RejectedCandidate(r) THEN NoDigest ELSE @,
            !.verdict = IF RejectedCandidate(r) THEN "none" ELSE @]

\* The records after it, accepted or refused.
TakeCompletion(r, d) ==
  IF CompletionRefusal(r, d) = "none" THEN SubmitCompletion(r, d) ELSE r

\* A driver's command: the bridge's has an identity of its own.
Heard(r) == {h.dispatch : h \in r.heard}
OfferCompletion(r, d) ==
  [TakeCompletion(r, d) EXCEPT
     !.heard = @ \cup {[dispatch |-> d, refusal |-> CompletionRefusal(r, d)]}]
\* The answers a driver goes on after: "completion-exists" is tolerated.
Tolerated(r, d) ==
  \E h \in r.heard : h.dispatch = d /\ h.refusal \in {"none", "completion-exists"}

----------------------------------------------------------------------------
(* evaluate-gate: the outcome follows from the candidate and the readings *)

GateAnswered(r, p, on, v) == [phase |-> p, on |-> on, verdict |-> v] \in r.gated
\* The candidate the driver built is the one the authority builds.
SameCandidate(r, p, on) == r.phase = p /\ Covers(r) /\ on.work = AssessedWork(r, p)
\* The command is answered, accepted or refused with "candidate-exists".
MayGate(r, p, on, v) ==
  \/ GateAnswered(r, p, on, v)
  \/ r.candidate # NoDigest
  \/ SameCandidate(r, p, on)

\* (Faulty variant: the newest readings replace the ones on record.)
EvaluateGateAgain(r, p, on, v) ==
  [r EXCEPT !.candidate = on, !.verdict = v]

EvaluateGate(r, p, on, v) ==
  LET said == [r EXCEPT !.gated = @ \cup {[phase |-> p, on |-> on, verdict |-> v]}] IN
  IF GateAnswered(r, p, on, v) THEN r
  ELSE IF r.candidate # NoDigest THEN said
  ELSE [said EXCEPT !.candidate = on, !.verdict = v]

----------------------------------------------------------------------------
(* record-authority-decision *)

\* (Faulty variant: a decision can be made anew.)
MayDecideAgain(r) == NeedsDecision /\ r.verdict = "accepted"

\* What a gate rejected is not a person's to decide.
MayDecide(r) == ApprovalPending(r) /\ r.verdict = "accepted"
Decide(r, made) == [r EXCEPT !.decision[r.phase] = [made |-> made, on |-> r.candidate]]

----------------------------------------------------------------------------
(* close-phase, named by phase and attempt, and start-phase-attempt *)

CloseRefusal(r, on) ==
  LET decision == r.decision[r.phase] IN
  IF r.candidate = NoDigest THEN "candidate-required"
  ELSE IF Closed(r) THEN "closure-exists"
  ELSE IF r.candidate # on THEN "candidate-mismatch"
  ELSE IF ApprovalPending(r) THEN "decision-required"
  ELSE IF r.verdict # "accepted" THEN "rejected-gate"
  ELSE IF ~NeedsDecision THEN "completed"
  ELSE IF decision.on # on THEN "candidate-mismatch"
  ELSE IF decision.made = "reject" THEN "rejected-authority"
  ELSE "completed"

CloseCommands(r, p, on) ==
  {c \in r.closes : c.phase = p /\ c.on.attempt = on.attempt}

\* The same identity with another candidate conflicts.
CloseAnswer(r, p, on) ==
  IF CloseCommands(r, p, on) = {} THEN CloseRefusal(r, on)
  ELSE LET said == CHOOSE c \in CloseCommands(r, p, on) : TRUE IN
       IF said.on = on THEN said.answer ELSE "candidate-mismatch"

ClosePhase(r, p, on) ==
  IF CloseCommands(r, p, on) # {} THEN r
  ELSE LET answer == CloseRefusal(r, on)
           said == [r EXCEPT !.closes = @ \cup {[phase |-> p, on |-> on, answer |-> answer]}] IN
       IF answer = "completed" THEN [said EXCEPT !.closure[p] = on] ELSE said

\* Each phase depends on the one before it.
MayStart(r, p) ==
  /\ Closed(r)
  /\ p # r.phase /\ r.closure[p] = NoDigest
  /\ p > 1 => r.closure[p - 1] # NoDigest

StartPhase(r, p) ==
  [r EXCEPT !.phase = p, !.candidate = NoDigest, !.verdict = "none"]

----------------------------------------------------------------------------
(* record-phase-attempt-transition *)

OpenElsewhere(r, d) ==
  \E e \in Dispatch : e # d /\ e.task = d.task /\ r.attempts[e] = "opened"
MayTransition(r, d, to) == to # "opened" \/ ~OpenElsewhere(r, d)

RecordAttempt(r, d, to) ==
  IF <<d, to>> \in r.said THEN r
  ELSE [r EXCEPT !.said = @ \cup {<<d, to>>},
                 !.attempts[d] = IF MayTransition(r, d, to) THEN to ELSE @]
=============================================================================
