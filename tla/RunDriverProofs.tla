--------------------------- MODULE RunDriverProofs ---------------------------
(***************************************************************************)
(* Proofs about the life of a run, for any phases and tasks, any number of *)
(* drivers and daemons, any bounds and any choice of what may be asked,    *)
(* steered, missed or cut short.                                           *)
(***************************************************************************)
EXTENDS RunDriver, FiniteSetTheorems, SequenceTheorems, TLAPS

----------------------------------------------------------------------------
(* The constants: phases, their tasks and the attempts of these            *)

\* Phases are numbered from one.
LEMMA PhasesNumbered ==
  /\ LastPhase \in Nat \ {0}
  /\ Phase = 1 .. LastPhase
  /\ 1 \in Phase /\ LastPhase \in Phase
  /\ Phase \subseteq Nat
<1>1. Members \in Seq(Seq(Task)) /\ Len(Members) > 0
  BY RecordsAssumption
<1>2. Phase = 1 .. Len(Members) /\ Len(Members) \in Nat
  BY <1>1 DEF Phase
<1> QED
  BY <1>1, <1>2 DEF LastPhase

\* A phase's tasks are what its sequence lists, each at a place that can be
\* an ordinal.
LEMMA TasksListed ==
  ASSUME NEW p \in Phase
  PROVE  /\ Members[p] \in Seq(Task)
         /\ DOMAIN Members[p] = 1 .. Len(Members[p]) /\ Len(Members[p]) \in Nat
         /\ DOMAIN Members[p] \subseteq 1 .. MaxOrdinal
         /\ \A j \in DOMAIN Members[p] : Members[p][j] \in Tasks(p)
         /\ \A t \in Tasks(p) : \E j \in DOMAIN Members[p] : Members[p][j] = t
         /\ \A i, j \in DOMAIN Members[p] : Members[p][i] = Members[p][j] => i = j
         /\ Tasks(p) # {} /\ Tasks(p) \subseteq Task
<1>1. Members \in Seq(Seq(Task)) /\ p \in 1 .. Len(Members)
  BY RecordsAssumption, PhasesNumbered DEF LastPhase
<1>2. Members[p] \in Seq(Task)
  BY <1>1
<1> DEFINE s == Members[p]
<1>3. Len(s) \in Nat /\ DOMAIN s = 1 .. Len(s)
  BY <1>2
<1>4. Len(s) <= MaxOrdinal /\ MaxOrdinal \in Nat /\ Tasks(p) # {} /\ IsInjective(s)
  BY RecordsAssumption
<1>5. Tasks(p) = {s[j] : j \in DOMAIN s}
  BY DEF Tasks, Range
<1>6. DOMAIN s \subseteq 1 .. MaxOrdinal
  BY <1>3, <1>4
<1>7. Tasks(p) \subseteq Task
  BY DEF Task
<1> HIDE DEF s
<1>8. \A i, j \in DOMAIN s : s[i] = s[j] => i = j
  BY <1>4 DEF IsInjective
<1>9. /\ \A j \in DOMAIN s : s[j] \in Tasks(p)
      /\ \A t \in Tasks(p) : \E j \in DOMAIN s : s[j] = t
  BY <1>5
<1> QED
  BY <1>2, <1>3, <1>4, <1>6, <1>7, <1>8, <1>9 DEF s

\* No task is of two phases.
LEMMA OnePhaseEach ==
  /\ \A t \in Task : PhaseOf(t) \in Phase /\ t \in Tasks(PhaseOf(t))
  /\ \A p \in Phase : \A t \in Tasks(p) : t \in Task /\ PhaseOf(t) = p
<1>1. ASSUME NEW t \in Task PROVE PhaseOf(t) \in Phase /\ t \in Tasks(PhaseOf(t))
  <2>1. \E p \in Phase : t \in Tasks(p)
    BY DEF Task
  <2> QED
    BY <2>1 DEF PhaseOf
<1>2. ASSUME NEW p \in Phase, NEW t \in Tasks(p) PROVE t \in Task /\ PhaseOf(t) = p
  <2>1. t \in Task
    BY DEF Task
  <2>2. PhaseOf(t) \in Phase /\ t \in Tasks(PhaseOf(t))
    BY <1>1, <2>1
  <2> QED
    BY <2>1, <2>2, RecordsAssumption
<1> QED
  BY <1>1, <1>2

\* An ordinal is positive; a dispatch is what its fields are.
LEMMA DispatchFields ==
  /\ MaxOrdinal \in Nat \ {0}
  /\ \A d \in Dispatch : d.task \in Task /\ d.ordinal \in 1 .. MaxOrdinal
                         /\ d = [task |-> d.task, ordinal |-> d.ordinal]
  /\ \A t \in Task, n \in 1 .. MaxOrdinal : [task |-> t, ordinal |-> n] \in Dispatch
  /\ NoDispatch \notin Dispatch
BY RecordsAssumption DEF Dispatch, NoDispatch

----------------------------------------------------------------------------
(* Bounded sets of numbers have a greatest and a least element              *)

LEMMA LeastIs ==
  ASSUME NEW S \in SUBSET Nat, S # {}
  PROVE  /\ Min(S) \in S /\ Min(S) \in Nat
         /\ \A n \in S : Min(S) <= n
<1> DEFINE Less == OpToRel(<, Nat)
<1>1. IsWellFoundedOn(Less, Nat)
  BY NatLessThanWellFounded
<1>2. ASSUME NEW m \in Nat, NEW n \in Nat PROVE <<m, n>> \in Less <=> m < n
  BY DEF OpToRel
<1> HIDE DEF Less
<1>3. PICK r \in S : \A other \in S : <<other, r>> \notin Less
  BY <1>1, WFMin
<1>4. ASSUME NEW other \in S PROVE r <= other
  <2>1. r \in Nat /\ other \in Nat /\ ~(<<other, r>> \in Less)
    BY <1>3
  <2>2. ~(other < r)
    BY <1>2, <2>1
  <2> QED
    BY <2>1, <2>2
<1> QED
  BY <1>4 DEF Min

LEMMA GreatestIs ==
  ASSUME NEW S \in SUBSET Nat, S # {}, NEW bound \in Nat, \A n \in S : n <= bound
  PROVE  /\ Max(S) \in S /\ Max(S) \in Nat
         /\ \A n \in S : n <= Max(S)
<1> DEFINE M == {bound - n : n \in S}
<1>1. M \in SUBSET Nat /\ M # {}
  <2>1. ASSUME NEW n \in S PROVE bound - n \in Nat
    <3>1. n \in Nat /\ n <= bound
      OBVIOUS
    <3> QED
      BY <3>1
  <2>2. M # {}
    OBVIOUS
  <2> QED
    BY <2>1, <2>2
<1>2. Min(M) \in M /\ \A m \in M : Min(M) <= m
  BY <1>1, LeastIs
<1>3. PICK r \in S : Min(M) = bound - r
  BY <1>2
<1>4. ASSUME NEW n \in S PROVE r >= n
  <2>1. bound - n \in M
    OBVIOUS
  <2>2. bound - r <= bound - n
    BY <1>2, <1>3, <2>1
  <2> QED
    BY <2>2
<1>5. Max(S) \in S /\ \A n \in S : Max(S) >= n
  <2>1. \E x \in S : \A y \in S : x >= y
    BY <1>4
  <2> QED
    BY <2>1 DEF Max
<1> QED
  BY <1>5

\* A larger set has no smaller maximum.
LEMMA GreatestGrows ==
  ASSUME NEW S \in SUBSET Nat, S # {}, NEW T \in SUBSET Nat, S \subseteq T,
         NEW bound \in Nat, \A n \in T : n <= bound
  PROVE  Max(S) <= Max(T)
<1>1. Max(S) \in S /\ Max(S) \in Nat
  BY GreatestIs
<1>2. T # {} /\ \A n \in T : n <= Max(T)
  BY GreatestIs
<1> QED
  BY <1>1, <1>2

----------------------------------------------------------------------------
(* The newest and the oldest of some dispatches                             *)

Ordinals(ds) == {d.ordinal : d \in ds}

LEMMA OrdinalsBounded ==
  ASSUME NEW ds \in SUBSET Dispatch
  PROVE  /\ Ordinals(ds) \in SUBSET Nat
         /\ \A n \in Ordinals(ds) : n <= MaxOrdinal
         /\ {0} \cup Ordinals(ds) \in SUBSET Nat
         /\ \A n \in {0} \cup Ordinals(ds) : n <= MaxOrdinal
<1>1. MaxOrdinal \in Nat
  BY DispatchFields
<1>2. ASSUME NEW n \in Ordinals(ds) PROVE n \in 1 .. MaxOrdinal
  <2>1. PICK d \in ds : n = d.ordinal
    BY DEF Ordinals
  <2> QED
    BY <2>1, DispatchFields
<1>3. \A n \in Ordinals(ds) : n \in Nat /\ n <= MaxOrdinal
  BY <1>1, <1>2
<1> QED
  BY <1>1, <1>3

LEMMA NewestIs ==
  ASSUME NEW ds \in SUBSET Dispatch, ds # {}
  PROVE  /\ Newest(ds) \in ds
         /\ \A e \in ds : e.ordinal <= Newest(ds).ordinal
<1>1. Ordinals(ds) \in SUBSET Nat /\ \A n \in Ordinals(ds) : n <= MaxOrdinal
  BY OrdinalsBounded
<1>2. Ordinals(ds) # {} /\ MaxOrdinal \in Nat
  BY DispatchFields DEF Ordinals
<1>3. Max(Ordinals(ds)) \in Ordinals(ds) /\ \A n \in Ordinals(ds) : n <= Max(Ordinals(ds))
  BY <1>1, <1>2, GreatestIs
<1>4. PICK d \in ds : d.ordinal = Max(Ordinals(ds))
  BY <1>3 DEF Ordinals
<1>5. \A e \in ds : e.ordinal <= d.ordinal
  BY <1>3, <1>4 DEF Ordinals
<1> QED
  BY <1>5 DEF Newest

LEMMA OldestIs ==
  ASSUME NEW ds \in SUBSET Dispatch, ds # {}
  PROVE  Oldest(ds) \in ds
<1>1. Ordinals(ds) \in SUBSET Nat /\ Ordinals(ds) # {}
  BY OrdinalsBounded DEF Ordinals
<1>2. /\ Min(Ordinals(ds)) \in Ordinals(ds) /\ Min(Ordinals(ds)) \in Nat
      /\ \A n \in Ordinals(ds) : Min(Ordinals(ds)) <= n
  BY <1>1, LeastIs
<1>3. PICK d \in ds : d.ordinal = Min(Ordinals(ds))
  BY <1>2 DEF Ordinals
<1>4. ASSUME NEW e \in ds PROVE e.ordinal >= d.ordinal
  <2>1. e.ordinal \in Ordinals(ds)
    BY DEF Ordinals
  <2>2. e.ordinal \in Nat /\ d.ordinal <= e.ordinal
    BY <1>1, <1>2, <1>3, <2>1
  <2> QED
    BY <1>2, <1>3, <2>2
<1> QED
  BY <1>4 DEF Oldest

\* A task has finitely many dispatches, no more than there are ordinals.
LEMMA FewDispatches ==
  ASSUME NEW t, NEW ds \in SUBSET Dispatch, \A d \in ds : d.task = t
  PROVE  /\ IsFiniteSet(ds)
         /\ Cardinality(ds) \in 0 .. MaxOrdinal
<1> DEFINE f == [d \in ds |-> d.ordinal]
<1>1. f \in Injection(ds, 1 .. MaxOrdinal)
  <2>1. f \in [ds -> 1 .. MaxOrdinal]
    BY DispatchFields
  <2>2. ASSUME NEW d \in ds, NEW e \in ds, f[d] = f[e] PROVE d = e
    BY <2>2, DispatchFields
  <2> HIDE DEF f
  <2>3. \A d, e \in DOMAIN f : f[d] = f[e] => d = e
    BY <2>1, <2>2
  <2> QED
    BY <2>1, <2>3 DEF Injection, IsInjective
<1>2. MaxOrdinal \in Nat \ {0}
  BY DispatchFields
<1>3. IsFiniteSet(1 .. MaxOrdinal) /\ Cardinality(1 .. MaxOrdinal) = MaxOrdinal
  BY <1>2, FS_Interval
<1>4. IsFiniteSet(ds) /\ Cardinality(ds) <= MaxOrdinal
  BY <1>1, <1>3, FS_Injection
<1>5. Cardinality(ds) \in Nat
  BY <1>4, FS_CardinalityType
<1> QED
  BY <1>2, <1>4, <1>5

----------------------------------------------------------------------------
(* What each command leaves of the records                                  *)

\* Everything but the attempts, and what was said of them.
SameJudgement(r, s) ==
  /\ s.phase = r.phase /\ s.candidate = r.candidate /\ s.verdict = r.verdict
  /\ s.decision = r.decision /\ s.closure = r.closure /\ s.assessed = r.assessed
SameAttempts(r, s) == s.attempts = r.attempts /\ s.said = r.said

LEMMA RecordsInitType == RecordsInit \in RecordsType
<1>1. NoWork \in Work
  BY RecordsAssumption DEF NoWork, Work
<1>2. NoDigest \in Digest
  BY <1>1, DispatchFields DEF NoDigest, Digest
<1>3. 1 \in Phase
  BY PhasesNumbered
<1> QED
  BY <1>1, <1>2, <1>3 DEF RecordsInit, RecordsType, Verdicts, Dispositions

LEMMA NothingTyped == NoWork \in Work /\ NoDigest \in Digest
BY DispatchFields DEF NoWork, Work, NoDigest, Digest

LEMMA AssessingTyped ==
  ASSUME NEW w \in Work, NEW d \in Dispatch
  PROVE  [w EXCEPT ![d.task] = d.ordinal] \in Work
<1>1. d.task \in Task /\ d.ordinal \in 0 .. MaxOrdinal
  BY DispatchFields
<1> QED
  BY <1>1 DEF Work

\* A completion is refused and changes nothing, or it becomes the task's
\* assessment and leaves no candidate.
Assesses(r, s, d) ==
  /\ CompletionRefusal(r, d) = "none"
  /\ s.assessed = [r.assessed EXCEPT ![d.task] = d.ordinal]
  /\ s.candidate = NoDigest
  /\ s.verdict = IF RejectedCandidate(r) THEN "none" ELSE r.verdict
  /\ s.phase = r.phase /\ s.decision = r.decision /\ s.closure = r.closure

LEMMA CompletionDoes ==
  ASSUME NEW r \in RecordsType, NEW d \in Dispatch
  PROVE  LET s == TakeCompletion(r, d) IN
         /\ s \in RecordsType
         /\ SameAttempts(r, s)
         /\ SameJudgement(r, s) \/ Assesses(r, s, d)
<1> DEFINE s == TakeCompletion(r, d)
<1>1. CASE CompletionRefusal(r, d) # "none"
  <2>1. s = r
    BY <1>1 DEF TakeCompletion
  <2> QED
    BY <2>1 DEF SameAttempts, SameJudgement
<1>2. CASE CompletionRefusal(r, d) = "none"
  <2> DEFINE w == [r.assessed EXCEPT ![d.task] = d.ordinal]
             c == IF RejectedCandidate(r) THEN NoDigest ELSE r.candidate
             v == IF RejectedCandidate(r) THEN "none" ELSE r.verdict
  <2>1. s = [r EXCEPT !.assessed = w, !.candidate = c, !.verdict = v]
    BY <1>2 DEF TakeCompletion, SubmitCompletion, RecordsType
  <2>2. w \in Work
    BY AssessingTyped DEF RecordsType
  <2>3. c \in Digest /\ v \in Verdicts
    BY NothingTyped DEF RecordsType, Verdicts
  <2>4. c = NoDigest
    BY <1>2 DEF CompletionRefusal
  <2> HIDE DEF s, w, c, v
  <2>5. s \in RecordsType
    BY <2>1, <2>2, <2>3 DEF RecordsType
  <2>6. /\ s.assessed = w /\ s.candidate = c /\ s.verdict = v
        /\ s.phase = r.phase /\ s.decision = r.decision /\ s.closure = r.closure
        /\ s.attempts = r.attempts /\ s.said = r.said
    BY <2>1 DEF RecordsType
  <2>7. SameAttempts(r, s)
    BY <2>6 DEF SameAttempts
  <2>8. Assesses(r, s, d)
    BY <1>2, <2>4, <2>6 DEF Assesses, w, v
  <2> QED
    BY <2>5, <2>7, <2>8 DEF s
<1> QED
  BY <1>1, <1>2

LEMMA OfferDoes ==
  ASSUME NEW r \in RecordsType, NEW d \in Dispatch
  PROVE  LET s == OfferCompletion(r, d) IN
         /\ s \in RecordsType
         /\ SameAttempts(r, s)
         /\ SameJudgement(r, s) \/ Assesses(r, s, d)
<1> DEFINE k == TakeCompletion(r, d)
           h == k.heard \cup {[dispatch |-> d, refusal |-> CompletionRefusal(r, d)]}
           s == OfferCompletion(r, d)
<1>1. k \in RecordsType /\ SameAttempts(r, k) /\ (SameJudgement(r, k) \/ Assesses(r, k, d))
  BY CompletionDoes
<1>2. s = [k EXCEPT !.heard = h]
  BY <1>1 DEF OfferCompletion, RecordsType
<1>3. h \in SUBSET [dispatch : Dispatch, refusal : Refusals]
  BY <1>1 DEF RecordsType, CompletionRefusal, Refusals
<1> HIDE DEF k, h, s
<1>4. s \in RecordsType
  BY <1>1, <1>2, <1>3 DEF RecordsType
<1>5. /\ s.assessed = k.assessed /\ s.candidate = k.candidate /\ s.verdict = k.verdict
      /\ s.phase = k.phase /\ s.decision = k.decision /\ s.closure = k.closure
      /\ s.attempts = k.attempts /\ s.said = k.said
  BY <1>1, <1>2 DEF RecordsType
<1>6. SameAttempts(r, s) /\ (SameJudgement(r, s) \/ Assesses(r, s, d))
  BY <1>1, <1>5 DEF SameAttempts, SameJudgement, Assesses
<1> QED
  BY <1>4, <1>6 DEF s

\* A gate is answered again, finds a candidate, or judges the one it names.
Judges(r, s, on, v) ==
  /\ r.candidate = NoDigest
  /\ s.candidate = on /\ s.verdict = v
  /\ s.phase = r.phase /\ s.decision = r.decision
  /\ s.closure = r.closure /\ s.assessed = r.assessed

LEMMA GateDoes ==
  ASSUME NEW r \in RecordsType, NEW p \in Phase, NEW on \in Digest,
         NEW v \in {"accepted", "rejected"}, MayGate(r, p, on, v)
  PROVE  LET s == EvaluateGate(r, p, on, v) IN
         /\ s \in RecordsType
         /\ SameAttempts(r, s)
         /\ SameJudgement(r, s) \/ (Judges(r, s, on, v) /\ SameCandidate(r, p, on))
<1> DEFINE g == r.gated \cup {[phase |-> p, on |-> on, verdict |-> v]}
           said == [r EXCEPT !.gated = g]
           s == EvaluateGate(r, p, on, v)
<1>1. g \in SUBSET [phase : Phase, on : Digest, verdict : Verdicts]
  BY DEF RecordsType, Verdicts
<1>2. CASE GateAnswered(r, p, on, v)
  <2>1. s = r
    BY <1>2 DEF EvaluateGate
  <2> QED
    BY <2>1 DEF SameAttempts, SameJudgement
<1>3. CASE ~GateAnswered(r, p, on, v) /\ r.candidate # NoDigest
  <2>1. s = said
    BY <1>3 DEF EvaluateGate, RecordsType
  <2> HIDE DEF s, g
  <2> QED
    BY <1>1, <2>1 DEF SameAttempts, SameJudgement, RecordsType, s
<1>4. CASE ~GateAnswered(r, p, on, v) /\ r.candidate = NoDigest
  <2>1. s = [said EXCEPT !.candidate = on, !.verdict = v]
    BY <1>4 DEF EvaluateGate, RecordsType
  <2>2. SameCandidate(r, p, on)
    BY <1>4 DEF MayGate
  <2>3. v \in Verdicts
    BY DEF Verdicts
  <2> HIDE DEF s, g
  <2>4. s \in RecordsType
    BY <1>1, <2>1, <2>3 DEF RecordsType
  <2>5. SameAttempts(r, s) /\ Judges(r, s, on, v)
    BY <1>4, <2>1 DEF SameAttempts, Judges, RecordsType
  <2> QED
    BY <2>2, <2>4, <2>5 DEF s
<1> QED
  BY <1>2, <1>3, <1>4

LEMMA DecisionDoes ==
  ASSUME NEW r \in RecordsType, NEW made \in {"approve", "reject"}
  PROVE  LET s == Decide(r, made)
             d == [made |-> made, on |-> r.candidate] IN
         /\ s \in RecordsType
         /\ SameAttempts(r, s)
         /\ s.decision = [r.decision EXCEPT ![r.phase] = d]
         /\ s.phase = r.phase /\ s.candidate = r.candidate /\ s.verdict = r.verdict
         /\ s.closure = r.closure /\ s.assessed = r.assessed
<1> DEFINE d == [made |-> made, on |-> r.candidate]
           n == [r.decision EXCEPT ![r.phase] = d]
           s == Decide(r, made)
<1>1. s = [r EXCEPT !.decision = n]
  BY DEF Decide, RecordsType
<1>2. d \in [made : {"none", "approve", "reject"}, on : Digest]
  BY DEF RecordsType
<1> HIDE DEF d
<1>3. n \in [Phase -> [made : {"none", "approve", "reject"}, on : Digest]]
  BY <1>2 DEF RecordsType
<1> HIDE DEF s, n
<1>4. s \in RecordsType /\ SameAttempts(r, s)
  BY <1>1, <1>3 DEF RecordsType, SameAttempts
<1>5. /\ s.decision = n
      /\ s.phase = r.phase /\ s.candidate = r.candidate /\ s.verdict = r.verdict
      /\ s.closure = r.closure /\ s.assessed = r.assessed
  BY <1>1 DEF RecordsType
<1> QED
  BY <1>4, <1>5 DEF s, n, d

\* A close is answered, and when completed for the first time it closes the
\* phase it names on the candidate it names.
Closes(r, s, p, on) ==
  /\ CloseRefusal(r, on) = "completed"
  /\ s.closure = [r.closure EXCEPT ![p] = on]
  /\ s.phase = r.phase /\ s.candidate = r.candidate /\ s.verdict = r.verdict
  /\ s.decision = r.decision /\ s.assessed = r.assessed

LEMMA CloseDoes ==
  ASSUME NEW r \in RecordsType, NEW p \in Phase, NEW on \in Digest
  PROVE  LET s == ClosePhase(r, p, on) IN
         /\ s \in RecordsType
         /\ SameAttempts(r, s)
         /\ SameJudgement(r, s) \/ Closes(r, s, p, on)
<1> DEFINE answer == CloseRefusal(r, on)
           g == r.closes \cup {[phase |-> p, on |-> on, answer |-> answer]}
           c == [r.closure EXCEPT ![p] = on]
           s == ClosePhase(r, p, on)
<1>1. answer \in Answers
  BY DEF CloseRefusal, Answers
<1>2. g \in SUBSET [phase : Phase, on : Digest, answer : Answers]
  BY <1>1 DEF RecordsType
<1>3. c \in [Phase -> Digest]
  BY DEF RecordsType
<1>4. CASE CloseCommands(r, p, on) # {}
  <2>1. s = r
    BY <1>4 DEF ClosePhase
  <2> QED
    BY <2>1 DEF SameAttempts, SameJudgement
<1>5. CASE CloseCommands(r, p, on) = {} /\ answer # "completed"
  <2>1. s = [r EXCEPT !.closes = g]
    BY <1>5 DEF ClosePhase
  <2> HIDE DEF s, g
  <2> QED
    BY <1>2, <2>1 DEF SameAttempts, SameJudgement, RecordsType, s
<1>6. CASE CloseCommands(r, p, on) = {} /\ answer = "completed"
  <2>1. s = [r EXCEPT !.closes = g, !.closure = c]
    BY <1>6 DEF ClosePhase, RecordsType
  <2> HIDE DEF s, g, c
  <2>2. s \in RecordsType /\ SameAttempts(r, s)
    BY <1>2, <1>3, <2>1 DEF RecordsType, SameAttempts
  <2>3. /\ s.closure = c
        /\ s.phase = r.phase /\ s.candidate = r.candidate /\ s.verdict = r.verdict
        /\ s.decision = r.decision /\ s.assessed = r.assessed
    BY <2>1 DEF RecordsType
  <2>4. Closes(r, s, p, on)
    BY <1>6, <2>3 DEF Closes, c
  <2> QED
    BY <2>2, <2>4 DEF s
<1> QED
  BY <1>4, <1>5, <1>6

LEMMA StartDoes ==
  ASSUME NEW r \in RecordsType, NEW p \in Phase
  PROVE  LET s == StartPhase(r, p) IN
         /\ s \in RecordsType
         /\ SameAttempts(r, s)
         /\ s.phase = p /\ s.candidate = NoDigest /\ s.verdict = "none"
         /\ s.decision = r.decision /\ s.closure = r.closure /\ s.assessed = r.assessed
BY NothingTyped DEF StartPhase, RecordsType, SameAttempts, Verdicts

LEMMA TransitionDoes ==
  ASSUME NEW r \in RecordsType, NEW d \in Dispatch, NEW to \in Dispositions
  PROVE  LET s == RecordAttempt(r, d, to) IN
         /\ s \in RecordsType
         /\ SameJudgement(r, s)
         /\ s.said = r.said \cup {<<d, to>>}
         /\ s.attempts \in {r.attempts, [r.attempts EXCEPT ![d] = to]}
<1> DEFINE said == r.said \cup {<<d, to>>}
           n == IF MayTransition(r, d, to) THEN to ELSE r.attempts[d]
           a == [r.attempts EXCEPT ![d] = n]
           s == RecordAttempt(r, d, to)
<1>1. CASE <<d, to>> \in r.said
  <2>1. s = r
    BY <1>1 DEF RecordAttempt
  <2>2. r.said = r.said \cup {<<d, to>>}
    BY <1>1
  <2> QED
    BY <2>1, <2>2 DEF SameJudgement
<1>2. CASE <<d, to>> \notin r.said
  <2>1. s = [r EXCEPT !.said = said, !.attempts = a]
    BY <1>2 DEF RecordAttempt, RecordsType
  <2>2. said \in SUBSET (Dispatch \X Dispositions)
    BY DEF RecordsType
  <2>3. r.attempts \in [Dispatch -> Dispositions \cup {"unknown"}]
    BY DEF RecordsType
  <2>4. n \in Dispositions \cup {"unknown"}
    BY <2>3
  <2>5. a \in {r.attempts, [r.attempts EXCEPT ![d] = to]}
    BY <2>3
  <2> HIDE DEF n
  <2>6. a \in [Dispatch -> Dispositions \cup {"unknown"}]
    BY <2>3, <2>4
  <2> HIDE DEF s, said, a
  <2>7. s \in RecordsType /\ SameJudgement(r, s) /\ s.said = said /\ s.attempts = a
    BY <2>1, <2>2, <2>6 DEF RecordsType, SameJudgement
  <2> QED
    BY <2>5, <2>7 DEF s, said
<1> QED
  BY <1>1, <1>2

----------------------------------------------------------------------------
(* What the records, the broker and the drivers name exists                 *)

\* What a driver goes on with: dispatches that are registered, of a task of
\* the phase it read, and a next phase to start.
Refers(s) ==
  /\ s.at \in {"gating", "closing", "starting"} =>
       /\ s.dispatch \in broker.dispatches /\ s.newest \in broker.dispatches
       /\ s.dispatch.task \in Tasks(s.phase)
       /\ s.newest.task = s.dispatch.task
  /\ s.at = "starting" => s.phase # LastPhase
  /\ s.at \in {"opening", "carrying"} => s.dispatch \in broker.dispatches

BrokerOK ==
  /\ broker \in BrokerType
  /\ broker.handed \subseteq broker.dispatches
  /\ \A q \in broker.questions : q.dispatch \in broker.dispatches
DriversOK ==
  /\ driver \in [Driver -> DriverStates]
  /\ \A x \in Driver : Refers(driver[x])
AnswersOK ==
  /\ DOMAIN answers \subseteq broker.questions
  /\ \A q \in DOMAIN answers : answers[q] \in broker.dispatches \cup {NoDispatch}
AgentsOK ==
  /\ turn \in [Dispatch -> Turns]
  /\ steered \subseteq broker.dispatches
  /\ queued \subseteq broker.handed
  /\ ended \in BOOLEAN

Typed == records \in RecordsType /\ BrokerOK /\ AnswersOK /\ AgentsOK /\ DriversOK

LEMMA TypedIsTyped == Typed => TypeOK
BY DEF Typed, TypeOK, BrokerOK, AnswersOK, AgentsOK, DriversOK

LEMMA TypedInitially == Init => Typed
<1> SUFFICES ASSUME Init PROVE Typed
  OBVIOUS
<1> USE DEF Init
<1>1. records \in RecordsType
  BY RecordsInitType
<1>2. BrokerOK
  <2>1. [t \in Task |-> 0] \in [Task -> 0 .. MaxOrdinal]
    BY DispatchFields
  <2> HIDE DEF Init
  <2>2. broker = BrokerInit
    BY DEF Init
  <2> QED
    BY <2>1, <2>2 DEF BrokerOK, BrokerInit, BrokerType
<1>3. AnswersOK
  BY DEF AnswersOK
<1>4. AgentsOK
  BY DEF AgentsOK, Turns
<1>5. DriversOK
  BY DEF DriversOK, DriverStates, Refers, Idle
<1> QED
  BY <1>1, <1>2, <1>3, <1>4, <1>5 DEF Typed

\* The broker only takes things in.
Grows ==
  /\ broker'.dispatches \in SUBSET Dispatch
  /\ broker.dispatches \subseteq broker'.dispatches
  /\ broker.handed \subseteq broker'.handed
  /\ broker.questions \subseteq broker'.questions

LEMMA BrokerFields ==
  ASSUME BrokerOK
  PROVE  /\ broker.dispatches \subseteq Dispatch
         /\ broker.holder \in [Task -> 0 .. MaxOrdinal]
         /\ broker.handed \subseteq broker.dispatches
         /\ broker.questions \subseteq Question
         /\ \A q \in broker.questions : q.dispatch \in broker.dispatches
         /\ \A t : Of(broker, t) \subseteq Dispatch
         /\ \A p : OfPhase(broker, p) \subseteq Dispatch
BY DEF BrokerOK, BrokerType, Of, OfPhase

LEMMA StaysDoes ==
  ASSUME BrokerOK, UNCHANGED broker
  PROVE  BrokerOK' /\ Grows
BY BrokerFields DEF BrokerOK, Grows

LEMMA RegisterDoes ==
  ASSUME BrokerOK, NEW d \in Dispatch, broker' = Register(broker, d)
  PROVE  /\ BrokerOK' /\ Grows
         /\ broker'.dispatches = broker.dispatches \cup {d}
         /\ broker'.holder = [broker.holder EXCEPT ![d.task] = d.ordinal]
         /\ broker'.handed = broker.handed /\ broker'.delivered = broker.delivered
         /\ broker'.questions = broker.questions
<1> DEFINE h == [broker.holder EXCEPT ![d.task] = d.ordinal]
           ds == broker.dispatches \cup {d}
<1>1. h \in [Task -> 0 .. MaxOrdinal] /\ ds \in SUBSET Dispatch
  BY BrokerFields, DispatchFields
<1>2. broker \in BrokerType /\ broker' = [broker EXCEPT !.dispatches = ds, !.holder = h]
  BY DEF Register, BrokerOK, BrokerType
<1>3. d \in ds /\ broker.dispatches \subseteq ds
  OBVIOUS
<1> HIDE DEF h
<1>4. broker' \in BrokerType
  BY <1>1, <1>2 DEF BrokerType
<1>5. /\ broker'.dispatches = ds /\ broker'.holder = h
      /\ broker'.handed = broker.handed /\ broker'.delivered = broker.delivered
      /\ broker'.questions = broker.questions
  BY <1>2 DEF BrokerType
<1>6. BrokerOK' /\ Grows
  BY <1>1, <1>3, <1>4, <1>5 DEF BrokerOK, Grows
<1> QED
  BY <1>5, <1>6 DEF h

LEMMA AskDoes ==
  ASSUME BrokerOK, NEW q \in Question, q.dispatch \in broker.dispatches,
         broker' = AddQuestion(broker, q)
  PROVE  /\ BrokerOK' /\ Grows
         /\ broker'.questions = broker.questions \cup {q}
         /\ broker'.dispatches = broker.dispatches /\ broker'.holder = broker.holder
         /\ broker'.handed = broker.handed /\ broker'.delivered = broker.delivered
BY DEF BrokerOK, BrokerType, AddQuestion, Grows

LEMMA DeliverDoes ==
  ASSUME BrokerOK, NEW d \in broker.dispatches, broker' = Deliver(broker, d)
  PROVE  /\ BrokerOK' /\ Grows
         /\ broker'.questions = broker.questions
         /\ broker'.dispatches = broker.dispatches /\ broker'.holder = broker.holder
         /\ broker'.handed = broker.handed
BY DEF BrokerOK, BrokerType, Deliver, Grows

\* A completion that counts is the holder's first.
LEMMA HandInDoes ==
  ASSUME BrokerOK, NEW d \in broker.dispatches, NEW b, b = HandIn(broker, d), b # broker,
         broker' \in {b, Deliver(b, d)}
  PROVE  /\ BrokerOK' /\ Grows
         /\ ~Stale(broker, d)
         /\ broker'.handed = broker.handed \cup {d}
         /\ broker'.questions = broker.questions
         /\ broker'.dispatches = broker.dispatches /\ broker'.holder = broker.holder
<1>1. ~Stale(broker, d) /\ b = [broker EXCEPT !.handed = @ \cup {d}]
  BY DEF HandIn
<1>2. /\ b \in BrokerType /\ b.handed = broker.handed \cup {d}
      /\ b.questions = broker.questions /\ b.dispatches = broker.dispatches
      /\ b.holder = broker.holder
  BY <1>1 DEF BrokerOK, BrokerType
<1>3. /\ broker' \in BrokerType /\ broker'.handed = b.handed
      /\ broker'.questions = b.questions /\ broker'.dispatches = b.dispatches
      /\ broker'.holder = b.holder
  BY <1>2, BrokerFields DEF BrokerType, Deliver
<1>4. BrokerOK' /\ Grows
  BY <1>2, <1>3, BrokerFields DEF BrokerOK, Grows
<1> QED
  BY <1>1, <1>2, <1>3, <1>4

----------------------------------------------------------------------------
(* What a driver reads                                                      *)

LEMMA NextAttemptIs ==
  ASSUME BrokerOK, NEW p \in Phase
  PROVE  /\ NextAttempt(p) \in Nat \ {0}
         /\ \A d \in OfPhase(broker, p) : d.ordinal < NextAttempt(p)
         /\ NextAttempt(p) # 1 =>
              \E d \in OfPhase(broker, p) : d.ordinal = NextAttempt(p) - 1
<1> DEFINE ds == OfPhase(broker, p)
           S == {0} \cup Ordinals(ds)
<1>1. ds \in SUBSET Dispatch /\ MaxOrdinal \in Nat
  BY BrokerFields, DispatchFields
<1>2. S \in SUBSET Nat /\ \A n \in S : n <= MaxOrdinal
  BY <1>1, OrdinalsBounded
<1>3. Max(S) \in S /\ Max(S) \in Nat /\ \A n \in S : n <= Max(S)
  BY <1>1, <1>2, GreatestIs
<1>4. NextAttempt(p) = 1 + Max(S)
  BY DEF NextAttempt, Ordinals
<1>5. \A d \in ds : d.ordinal \in S
  BY DEF Ordinals
<1>6. Max(S) # 0 => \E d \in ds : d.ordinal = Max(S)
  BY <1>3 DEF Ordinals
<1> DEFINE m == Max(S)
<1> HIDE DEF S, ds, m
<1>7. m \in Nat /\ NextAttempt(p) = 1 + m
  BY <1>3, <1>4 DEF m
<1>8. ASSUME NEW d \in ds PROVE d.ordinal < NextAttempt(p)
  <2>1. d.ordinal \in Nat /\ d.ordinal <= m
    BY <1>2, <1>3, <1>5 DEF m
  <2> QED
    BY <1>7, <2>1
<1>9. NextAttempt(p) # 1 => \E d \in ds : d.ordinal = NextAttempt(p) - 1
  BY <1>6, <1>7 DEF m
<1> QED
  BY <1>7, <1>8, <1>9 DEF ds

\* The current dispatch of a task handed work in, or is its newest.
LEMMA CurrentIs ==
  ASSUME BrokerOK, NEW t, Of(broker, t) # {}
  PROVE  /\ CurrentOf(t) \in Of(broker, t)
         /\ CurrentOf(t) \in broker.handed \/ CurrentOf(t) = Newest(Of(broker, t))
         /\ Newest(Of(broker, t)) \in Of(broker, t)
         /\ \A e \in Of(broker, t) : e.ordinal <= Newest(Of(broker, t)).ordinal
<1> DEFINE mine == Of(broker, t)
           handed == mine \cap broker.handed
<1>1. mine \in SUBSET Dispatch /\ handed \in SUBSET Dispatch
  BY BrokerFields
<1>2. Newest(mine) \in mine /\ \A e \in mine : e.ordinal <= Newest(mine).ordinal
  BY <1>1, NewestIs
<1>3. handed # {} => Newest(handed) \in handed
  BY <1>1, NewestIs
<1> QED
  BY <1>2, <1>3 DEF CurrentOf

\* The phase's business, when each of its tasks has a dispatch.
LEMMA BusinessIs ==
  ASSUME Typed, Untouched = {}
  PROVE  LET d == Business(records.phase) IN
         /\ d \in broker.dispatches /\ d \in Dispatch
         /\ d.task \in Tasks(records.phase)
         /\ d = CurrentOf(d.task)
         /\ Of(broker, d.task) # {}
<1> DEFINE p == records.phase
           d == Business(p)
<1>1. p \in Phase /\ BrokerOK
  BY DEF Typed, RecordsType
<1>2. ASSUME NEW t \in Tasks(p) PROVE Of(broker, t) # {}
  BY DEF Untouched
<1>3. ASSUME NEW e \in Current(p)
      PROVE  e \in broker.dispatches /\ e.task \in Tasks(p) /\ e = CurrentOf(e.task)
  <2>1. PICK t \in Tasks(p) : e = CurrentOf(t)
    BY DEF Current
  <2>2. e \in Of(broker, t)
    BY <1>1, <1>2, <2>1, CurrentIs
  <2> QED
    BY <2>1, <2>2 DEF Of
<1>4. Current(p) \in SUBSET Dispatch
  BY <1>1, <1>3, BrokerFields
<1>5. Current(p) # {}
  BY <1>1, TasksListed DEF Current
<1>6. d \in Current(p)
  <2> DEFINE waiting == Current(p) \ broker.handed
  <2>1. waiting # {} => Oldest(waiting) \in waiting
    BY <1>4, OldestIs
  <2>2. Newest(Current(p)) \in Current(p)
    BY <1>4, <1>5, NewestIs
  <2> QED
    BY <2>1, <2>2 DEF Business
<1>7. d \in broker.dispatches /\ d.task \in Tasks(p) /\ d = CurrentOf(d.task)
  BY <1>3, <1>6
<1>8. Of(broker, d.task) # {} /\ d \in Dispatch
  BY <1>1, <1>2, <1>7, BrokerFields
<1> QED
  BY <1>7, <1>8

LEMMA TriesTyped ==
  ASSUME BrokerOK, NEW t
  PROVE  /\ IsFiniteSet(TriesOf(t)) /\ IsFiniteSet(Of(broker, t))
         /\ Tries(t) \in 0 .. MaxOrdinal
<1>1. TriesOf(t) \in SUBSET Dispatch /\ \A d \in TriesOf(t) : d.task = t
  BY BrokerFields DEF TriesOf, Of
<1>2. Of(broker, t) \in SUBSET Dispatch /\ \A d \in Of(broker, t) : d.task = t
  BY BrokerFields DEF Of
<1> QED
  BY <1>1, <1>2, FewDispatches DEF Tries

----------------------------------------------------------------------------
(* Each action keeps the types                                              *)

LEMMA AtDoes ==
  ASSUME DriversOK, Grows, NEW x \in Driver, NEW s \in DriverStates, At(x, s), Refers(s)'
  PROVE  DriversOK'
<1>1. driver' \in [Driver -> DriverStates]
  BY DEF DriversOK, At
<1>2. ASSUME NEW y \in Driver PROVE Refers(driver[y])'
  <2>1. CASE y = x
    <3>1. driver'[y] = s
      BY <2>1 DEF DriversOK, At
    <3> QED
      BY <3>1 DEF Refers
  <2>2. CASE y # x
    <3>1. driver'[y] = driver[y] /\ Refers(driver[y])
      BY <2>2 DEF DriversOK, At
    <3> QED
      BY <3>1 DEF Refers, Grows
  <2> QED
    BY <2>1, <2>2
<1> QED
  BY <1>1, <1>2 DEF DriversOK

LEMMA AtIdleDoes ==
  ASSUME DriversOK, Grows, NEW x \in Driver, At(x, Idle)
  PROVE  DriversOK'
<1>1. Idle \in DriverStates
  BY DEF DriverStates
<1>2. Refers(Idle)'
  BY DEF Refers, Idle
<1> QED
  BY <1>1, <1>2, AtDoes

LEMMA DriversStay ==
  ASSUME DriversOK, Grows, UNCHANGED driver
  PROVE  DriversOK'
BY DEF DriversOK, Grows, Refers

LEMMA OthersStay ==
  ASSUME Typed, Grows
  PROVE  /\ UNCHANGED answers => AnswersOK'
         /\ UNCHANGED <<turn, steered, queued, ended>> => AgentsOK'
BY DEF Typed, Grows, AnswersOK, AgentsOK

\* A dispatch is registered and about to be opened, was registered before, or
\* is refused.
Opens(x, d, carries) ==
  driver' = [driver EXCEPT ![x] = [at |-> "opening", dispatch |-> d, carries |-> carries]]

LEMMA DispatchAsDoes ==
  ASSUME Typed, NEW x \in Driver, NEW d \in Dispatch, NEW carries \in SUBSET Question,
         DispatchAs(x, d, carries)
  PROVE  /\ BrokerOK' /\ Grows /\ DriversOK'
         /\ \/ MayRegister(broker, d) /\ broker' = Register(broker, d) /\ Opens(x, d, carries)
            \/ d \in broker.dispatches /\ broker' = broker /\ Opens(x, d, carries)
            \/ broker' = broker /\ At(x, Idle)
<1> DEFINE s == [at |-> "opening", dispatch |-> d, carries |-> carries]
<1>1. s \in DriverStates
  BY DEF DriverStates, DispatchingStates
<1>2. ASSUME d \in broker'.dispatches PROVE Refers(s)'
  BY <1>2 DEF Refers
<1>3. BrokerOK /\ DriversOK
  BY DEF Typed
<1>4. CASE MayRegister(broker, d) /\ broker' = Register(broker, d) /\ At(x, s)
  <2>1. BrokerOK' /\ Grows /\ d \in broker'.dispatches
    BY <1>3, <1>4, RegisterDoes
  <2>2. DriversOK'
    BY <1>1, <1>2, <1>3, <1>4, <2>1, AtDoes
  <2> QED
    BY <1>4, <2>1, <2>2 DEF Opens, At
<1>5. CASE d \in broker.dispatches /\ At(x, s) /\ UNCHANGED broker
  <2>1. BrokerOK' /\ Grows
    BY <1>3, <1>5, StaysDoes
  <2>2. DriversOK'
    BY <1>1, <1>2, <1>3, <1>5, <2>1, AtDoes
  <2> QED
    BY <1>5, <2>1, <2>2 DEF Opens, At
<1>6. CASE At(x, Idle) /\ UNCHANGED broker
  <2>1. BrokerOK' /\ Grows
    BY <1>3, <1>6, StaysDoes
  <2>2. DriversOK'
    BY <1>3, <1>6, <2>1, AtIdleDoes
  <2> QED
    BY <1>6, <2>1, <2>2
<1> QED
  BY <1>4, <1>5, <1>6 DEF DispatchAs

\* The attempt after the phase's business is one when its ordinal is.
LEMMA AfterIs ==
  ASSUME Typed, NEW d \in Dispatch, d.task \in Tasks(records.phase)
  PROVE  /\ After(d).task = d.task /\ After(d).ordinal = NextAttempt(records.phase)
         /\ \A e \in Of(broker, d.task) : e.ordinal < After(d).ordinal
         /\ NextAttempt(records.phase) \in Nat
<1>1. records.phase \in Phase /\ BrokerOK
  BY DEF Typed, RecordsType
<1>2. Of(broker, d.task) \subseteq OfPhase(broker, records.phase)
  BY DEF Of, OfPhase
<1> QED
  BY <1>1, <1>2, NextAttemptIs DEF After

\* The dispatches that a member's first attempt can have.
LEMMA FirstMemberIs ==
  ASSUME Typed, Untouched # {}
  PROVE  LET members == Members[records.phase]
             i == Min({j \in DOMAIN members : members[j] \in Untouched}) IN
         /\ i \in DOMAIN members /\ members[i] \in Untouched
         /\ i \in 1 .. MaxOrdinal
         /\ \A j \in DOMAIN members : j < i => members[j] \notin Untouched
         /\ [task |-> members[i], ordinal |-> i] \in Dispatch
<1> DEFINE members == Members[records.phase]
           S == {j \in DOMAIN members : members[j] \in Untouched}
           i == Min(S)
<1>1. records.phase \in Phase
  BY DEF Typed, RecordsType
<1>2. /\ DOMAIN members \subseteq 1 .. MaxOrdinal
      /\ \A t \in Tasks(records.phase) : \E j \in DOMAIN members : members[j] = t
      /\ \A j \in DOMAIN members : members[j] \in Tasks(records.phase)
      /\ Tasks(records.phase) \subseteq Task
  BY <1>1, TasksListed
<1>3. S # {}
  BY <1>2 DEF Untouched
<1>4. S \in SUBSET Nat
  BY <1>2
<1>5. i \in S /\ i \in Nat /\ \A n \in S : i <= n
  BY <1>3, <1>4, LeastIs
<1>6. \A j \in DOMAIN members : j < i => members[j] \notin Untouched
  <2> SUFFICES ASSUME NEW j \in DOMAIN members, j < i, members[j] \in Untouched PROVE FALSE
    OBVIOUS
  <2>1. j \in S /\ j \in Nat
    BY <1>2
  <2> QED
    BY <1>5, <2>1
<1>7. i \in DOMAIN members /\ members[i] \in Untouched /\ i \in 1 .. MaxOrdinal
  BY <1>2, <1>5
<1>8. [task |-> members[i], ordinal |-> i] \in Dispatch
  BY <1>2, <1>7, DispatchFields
<1> QED
  BY <1>6, <1>7, <1>8

\* What a driver takes to the gate.
Measured(p) ==
  LET d == Business(p) IN
  [at |-> "gating", phase |-> p, dispatch |-> d,
   on |-> [attempt |-> d.ordinal,
           work |-> [t \in Task |-> IF t \in Tasks(p) THEN CurrentOf(t).ordinal ELSE 0]],
   newest |-> Newest(Of(broker, d.task)),
   tries |-> Tries(d.task),
   next |-> NextAttempt(p)]

LEMMA MeasuredIs ==
  ASSUME Typed, Untouched = {}
  PROVE  Measured(records.phase) \in DriverStates /\ Refers(Measured(records.phase))
<1> DEFINE p == records.phase
           d == Business(p)
           work == [t \in Task |-> IF t \in Tasks(p) THEN CurrentOf(t).ordinal ELSE 0]
           on == [attempt |-> d.ordinal, work |-> work]
           s == Measured(p)
<1>1. p \in Phase /\ BrokerOK
  BY DEF Typed, RecordsType
<1>2. d \in broker.dispatches /\ d \in Dispatch /\ d.task \in Tasks(p) /\ Of(broker, d.task) # {}
  BY BusinessIs
<1>3. Newest(Of(broker, d.task)) \in Of(broker, d.task)
  BY <1>1, <1>2, CurrentIs
<1>4. /\ Newest(Of(broker, d.task)) \in broker.dispatches
      /\ Newest(Of(broker, d.task)) \in Dispatch
      /\ Newest(Of(broker, d.task)).task = d.task
  BY <1>1, <1>3, BrokerFields DEF Of
<1>5. Tries(d.task) \in 0 .. MaxOrdinal
  BY <1>1, TriesTyped
<1>6. NextAttempt(p) \in Nat
  BY <1>1, NextAttemptIs
<1>7. work \in Work
  <2>1. ASSUME NEW t \in Tasks(p) PROVE CurrentOf(t).ordinal \in 0 .. MaxOrdinal
    <3>1. Of(broker, t) # {}
      BY DEF Untouched
    <3>2. CurrentOf(t) \in Dispatch
      BY <1>1, <3>1, CurrentIs, BrokerFields
    <3> QED
      BY <3>2, DispatchFields
  <2> QED
    BY <2>1, DispatchFields DEF Work
<1> HIDE DEF work
<1>8. on \in Digest
  BY <1>2, <1>7, DispatchFields DEF Digest
<1>9. s = [at |-> "gating", phase |-> p, dispatch |-> d, on |-> on,
           newest |-> Newest(Of(broker, d.task)), tries |-> Tries(d.task),
           next |-> NextAttempt(p)]
  BY DEF Measured, work
<1> HIDE DEF on, d
<1>10. s \in MeasuringStates
  BY <1>1, <1>2, <1>4, <1>5, <1>6, <1>8, <1>9 DEF MeasuringStates
<1>11. Refers(s)
  BY <1>2, <1>4, <1>9 DEF Refers
<1> QED
  BY <1>10, <1>11 DEF DriverStates

\* The states a driver can be in, by its label.
LEMMA DriverFields ==
  ASSUME Typed, NEW x \in Driver
  PROVE  /\ driver[x].at \in {"gating", "closing", "starting"} =>
              /\ driver[x] \in MeasuringStates
              /\ driver[x].phase \in Phase /\ driver[x].on \in Digest
              /\ driver[x].dispatch \in Dispatch /\ driver[x].newest \in Dispatch
              /\ driver[x].tries \in 0 .. MaxOrdinal /\ driver[x].next \in Nat
              /\ driver[x].dispatch \in broker.dispatches
              /\ driver[x].newest \in broker.dispatches
              /\ driver[x].newest.task = driver[x].dispatch.task
              /\ driver[x].dispatch.task \in Tasks(driver[x].phase)
         /\ driver[x].at = "starting" => driver[x].phase # LastPhase
         /\ driver[x].at \in {"opening", "carrying"} =>
              /\ driver[x] \in DispatchingStates
              /\ driver[x].dispatch \in Dispatch /\ driver[x].carries \in SUBSET Question
              /\ driver[x].dispatch \in broker.dispatches
BY DEF Typed, DriversOK, DriverStates, MeasuringStates, DispatchingStates, Idle, Refers

LEMMA ClosingEndedDoes ==
  ASSUME Typed, NEW x \in Driver, CloseEnded(x)
  PROVE  /\ records' \in RecordsType
         /\ SameJudgement(records, records')
         /\ records'.attempts = [d \in Dispatch |->
                                   IF d \in Ending THEN Over(d) ELSE records.attempts[d]]
         /\ records'.said = records.said \cup {<<d, Over(d)>> : d \in Ending}
<1> DEFINE a == [d \in Dispatch |-> IF d \in Ending THEN Over(d) ELSE records.attempts[d]]
           said == records.said \cup {<<d, Over(d)>> : d \in Ending}
<1>1. records \in RecordsType /\ broker.dispatches \subseteq Dispatch
  BY BrokerFields DEF Typed
<1>2. records' = [records EXCEPT !.attempts = a, !.said = said]
  BY <1>1 DEF CloseEnded, RecordsType
<1>3. ASSUME NEW d \in Dispatch PROVE Over(d) \in Dispositions
  BY DEF Over, Dispositions
<1>4. a \in [Dispatch -> Dispositions \cup {"unknown"}]
  BY <1>1, <1>3 DEF RecordsType
<1>5. said \in SUBSET (Dispatch \X Dispositions)
  <2>1. \A d \in Ending : <<d, Over(d)>> \in Dispatch \X Dispositions
    BY <1>1, <1>3 DEF Ending
  <2>2. records.said \in SUBSET (Dispatch \X Dispositions)
    BY <1>1 DEF RecordsType
  <2> QED
    BY <2>1, <2>2
<1> HIDE DEF a, said
<1>6. /\ records' \in RecordsType /\ SameJudgement(records, records')
      /\ records'.attempts = a /\ records'.said = said
  BY <1>1, <1>2, <1>4, <1>5 DEF RecordsType, SameJudgement
<1> QED
  BY <1>6 DEF a, said

\* A step keeps the types when it keeps those of what it writes.
LEMMA StepTyped ==
  ASSUME Typed, records' \in RecordsType, BrokerOK', Grows, DriversOK',
         UNCHANGED <<answers, turn, steered, queued, ended>>
  PROVE  Typed' /\ Grows
BY OthersStay DEF Typed

LEMMA IdleReadsTyped ==
  ASSUME Typed, NEW x \in Driver,
         \/ CloseEnded(x) \/ DispatchMember(x) \/ RetryAborted(x) \/ CarryAnswers(x)
         \/ MarkAnswered(x) \/ RetrySpent(x) \/ DeliverFact(x) \/ ReadGate(x)
  PROVE  Typed' /\ Grows
<1>1. /\ BrokerOK /\ DriversOK /\ AnswersOK /\ AgentsOK
      /\ records \in RecordsType /\ records.phase \in Phase
  BY DEF Typed, RecordsType
<1>2. ASSUME UNCHANGED broker PROVE BrokerOK' /\ Grows
  BY <1>1, <1>2, StaysDoes
<1>3. ASSUME UNCHANGED <<broker, driver>> PROVE BrokerOK' /\ Grows /\ DriversOK'
  BY <1>1, <1>2, <1>3, DriversStay
<1>4. CASE CloseEnded(x)
  <2>1. records' \in RecordsType
    BY <1>4, ClosingEndedDoes
  <2>2. UNCHANGED <<broker, turn, answers, steered, queued, driver, ended>>
    BY <1>4 DEF CloseEnded
  <2> QED
    BY <1>3, <2>1, <2>2, StepTyped
<1>5. CASE DispatchMember(x)
  <2>1. Untouched # {} /\ UNCHANGED <<records, turn, answers, steered, queued, ended>>
    BY <1>5 DEF DispatchMember
  <2> DEFINE members == Members[records.phase]
             i == Min({j \in DOMAIN members : members[j] \in Untouched})
  <2>2. DispatchAs(x, [task |-> members[i], ordinal |-> i], {})
    BY <1>5 DEF DispatchMember
  <2>3. [task |-> members[i], ordinal |-> i] \in Dispatch
    BY <2>1, FirstMemberIs
  <2> HIDE DEF i
  <2>4. BrokerOK' /\ Grows /\ DriversOK'
    BY <2>2, <2>3, DispatchAsDoes
  <2> QED
    BY <1>1, <2>1, <2>4, StepTyped
<1>6. ASSUME NEW d \in Dispatch, NEW carries \in SUBSET Question, DispatchAs(x, d, carries),
             records' \in RecordsType, UNCHANGED <<turn, answers, steered, queued, ended>>
      PROVE  Typed' /\ Grows
  <2>1. BrokerOK' /\ Grows /\ DriversOK'
    BY <1>6, DispatchAsDoes
  <2> QED
    BY <1>6, <2>1, StepTyped
<1>7. CASE RetryAborted(x)
  <2> DEFINE d == Business(records.phase)
  <2>1. /\ Untouched = {} /\ After(d) \in Dispatch
        /\ records' = IF records.attempts[d] = "opened"
                      THEN RecordAttempt(records, d, "refused") ELSE records
        /\ DispatchAs(x, After(d), {}) \/ Dies(x)
        /\ UNCHANGED <<turn, answers, steered, queued, ended>>
    BY <1>7 DEF RetryAborted, Reads
  <2>2. d \in Dispatch
    BY <2>1, BusinessIs
  <2> HIDE DEF d
  <2>3. records' \in RecordsType
    BY <1>1, <2>1, <2>2, TransitionDoes DEF Dispositions
  <2>4. CASE DispatchAs(x, After(d), {})
    BY <1>6, <2>1, <2>3, <2>4
  <2>5. CASE Dies(x)
    <3>1. UNCHANGED broker /\ At(x, Idle)
      BY <2>5 DEF Dies
    <3>2. BrokerOK' /\ Grows /\ DriversOK'
      BY <1>1, <1>2, <3>1, AtIdleDoes
    <3> QED
      BY <2>1, <2>3, <3>2, StepTyped
  <2> QED
    BY <2>1, <2>4, <2>5
<1>8. CASE CarryAnswers(x)
  <2> DEFINE d == Business(records.phase)
  <2>1. /\ After(d) \in Dispatch /\ DispatchAs(x, After(d), UndeliveredTo(d.task))
        /\ UNCHANGED <<records, turn, answers, steered, queued, ended>>
    BY <1>8 DEF CarryAnswers
  <2>2. UndeliveredTo(d.task) \in SUBSET Question
    BY <1>1, BrokerFields DEF UndeliveredTo, AnswersOK
  <2> HIDE DEF d
  <2> QED
    BY <1>1, <1>6, <2>1, <2>2
<1>9. CASE MarkAnswered(x)
  <2> DEFINE d == Business(records.phase)
  <2>1. /\ Untouched = {} /\ UNCHANGED <<records, broker, turn, steered, queued, driver, ended>>
        /\ \E q \in UndeliveredTo(d.task) : answers' = [answers EXCEPT ![q] = d]
    BY <1>9 DEF MarkAnswered, Reads
  <2>2. d \in broker.dispatches
    BY <2>1, BusinessIs
  <2> HIDE DEF d
  <2>3. BrokerOK' /\ Grows /\ DriversOK'
    BY <1>3, <2>1
  <2>4. AnswersOK'
    BY <1>1, <2>1, <2>2 DEF AnswersOK
  <2>5. AgentsOK'
    BY <1>1, <2>1 DEF AgentsOK
  <2> QED
    BY <1>1, <2>1, <2>3, <2>4, <2>5 DEF Typed
<1>10. CASE RetrySpent(x)
  <2> DEFINE d == Business(records.phase)
  <2>1. /\ After(d) \in Dispatch /\ DispatchAs(x, After(d), {})
        /\ UNCHANGED <<records, turn, answers, steered, queued, ended>>
    BY <1>10 DEF RetrySpent
  <2> HIDE DEF d
  <2> QED
    BY <1>1, <1>6, <2>1
<1>11. CASE DeliverFact(x)
  <2>1. /\ \E e \in Undelivered(broker) : records' = OfferCompletion(records, e)
        /\ UNCHANGED <<broker, turn, answers, steered, queued, driver, ended>>
    BY <1>11 DEF DeliverFact
  <2>2. \A e \in Undelivered(broker) : e \in Dispatch
    BY <1>1, BrokerFields DEF Undelivered
  <2>3. records' \in RecordsType
    BY <1>1, <2>1, <2>2, OfferDoes
  <2> QED
    BY <1>3, <2>1, <2>3, StepTyped
<1>12. CASE ReadGate(x)
  <2>1. /\ Untouched = {} /\ At(x, Measured(records.phase))
        /\ UNCHANGED <<records, broker, turn, answers, steered, queued, ended>>
    BY <1>12 DEF ReadGate, Reads, Measured
  <2>2. PICK s \in DriverStates : s = Measured(records.phase)
    BY <2>1, MeasuredIs
  <2>3. Refers(s) /\ At(x, s)
    BY <2>1, <2>2, MeasuredIs
  <2>4. BrokerOK' /\ Grows
    BY <1>2, <2>1
  <2>5. Refers(s)'
    BY <2>3, <2>4 DEF Refers, Grows
  <2>6. DriversOK'
    BY <1>1, <2>3, <2>4, <2>5, AtDoes
  <2> QED
    BY <1>1, <2>1, <2>4, <2>6, StepTyped
<1> QED
  BY <1>4, <1>5, <1>7, <1>8, <1>9, <1>10, <1>11, <1>12

\* The help that is asked for names the newest dispatch.
LEMMA HelpIs ==
  ASSUME Typed, NEW x \in Driver, driver[x].at = "gating"
  PROVE  /\ Help(driver[x]) \in Question
         /\ Help(driver[x]).dispatch = driver[x].newest
         /\ Help(driver[x]).kind = "exhausted"
         /\ driver[x].newest \in broker.dispatches
BY DriverFields DEF Help, Question

LEMMA MeasuredTyped ==
  ASSUME Typed, NEW x \in Driver, NEW s, s = driver[x],
         s.at = "gating" \/ s.at = "closing" \/ s.at = "starting"
  PROVE  /\ Idle \in DriverStates
         /\ [s EXCEPT !.at = "closing"] \in DriverStates
         /\ Refers([s EXCEPT !.at = "closing"])
         /\ s.phase # LastPhase =>
              /\ [s EXCEPT !.at = "starting"] \in DriverStates
              /\ Refers([s EXCEPT !.at = "starting"])
<1>1. s \in MeasuringStates /\ Refers(s)
  BY DriverFields DEF Typed, DriversOK
<1>2. ASSUME NEW l \in {"closing", "starting"}
      PROVE  /\ [s EXCEPT !.at = l] \in MeasuringStates
             /\ [s EXCEPT !.at = l].at = l
             /\ [s EXCEPT !.at = l].phase = s.phase
             /\ [s EXCEPT !.at = l].dispatch = s.dispatch
             /\ [s EXCEPT !.at = l].newest = s.newest
  BY <1>1 DEF MeasuringStates
<1> QED
  BY <1>1, <1>2 DEF DriverStates, Refers

LEMMA DrivesTyped ==
  ASSUME Typed, NEW x \in Driver,
         \/ MeasureRed(x) \/ MeasureGreen(x) \/ Close(x) \/ StartNext(x)
         \/ OpenAttempt(x) \/ SatisfyRequirements(x) \/ Stop(x) \/ RecordFinished(x)
  PROVE  Typed' /\ Grows
<1>1. /\ BrokerOK /\ DriversOK /\ AnswersOK /\ AgentsOK
      /\ records \in RecordsType /\ records.phase \in Phase
  BY DEF Typed, RecordsType
<1>2. ASSUME UNCHANGED broker PROVE BrokerOK' /\ Grows
  BY <1>1, <1>2, StaysDoes
<1>3. ASSUME UNCHANGED broker, At(x, Idle) PROVE BrokerOK' /\ Grows /\ DriversOK'
  BY <1>1, <1>2, <1>3, AtIdleDoes
<1>4. ASSUME NEW d \in Dispatch, DispatchAs(x, d, {})
      PROVE  BrokerOK' /\ Grows /\ DriversOK'
  BY <1>4, DispatchAsDoes
<1>5. CASE MeasureRed(x)
  <2> DEFINE s == driver[x]
  <2>1. /\ s.at = "gating" /\ MayGate(records, s.phase, s.on, "rejected")
        /\ records' = EvaluateGate(records, s.phase, s.on, "rejected")
        /\ UNCHANGED <<turn, answers, steered, queued, ended>>
    BY <1>5 DEF MeasureRed
  <2>2. records' \in RecordsType
    BY <1>1, <2>1, DriverFields, GateDoes
  <2>3. CASE RetryOf(s) \in Dispatch /\ DispatchAs(x, RetryOf(s), {})
    BY <1>4, <2>1, <2>2, <2>3, StepTyped
  <2>4. CASE /\ broker' = IF NeedsHelp(s) THEN AddQuestion(broker, Help(s)) ELSE broker
             /\ At(x, Idle)
    <3>1. BrokerOK' /\ Grows
      BY <1>1, <1>2, <2>1, <2>4, HelpIs, AskDoes
    <3>2. DriversOK'
      BY <1>1, <2>4, <3>1, AtIdleDoes
    <3> QED
      BY <2>1, <2>2, <3>1, <3>2, StepTyped
  <2>5. CASE Dies(x)
    BY <1>3, <2>1, <2>2, <2>5, StepTyped DEF Dies
  <2> QED
    BY <1>5, <2>3, <2>4, <2>5 DEF MeasureRed
<1>6. CASE MeasureGreen(x)
  <2> DEFINE s == driver[x]
             r == EvaluateGate(records, s.phase, s.on, "accepted")
  <2>1. /\ s.at = "gating" /\ MayGate(records, s.phase, s.on, "accepted")
        /\ records' = r
        /\ UNCHANGED <<broker, turn, answers, steered, queued, ended>>
    BY <1>6 DEF MeasureGreen
  <2>2. records' \in RecordsType
    BY <1>1, <2>1, DriverFields, GateDoes
  <2>3. \/ At(x, Idle)
        \/ At(x, [s EXCEPT !.at = "closing"])
    BY <1>6 DEF MeasureGreen
  <2>4. BrokerOK' /\ Grows
    BY <1>2, <2>1
  <2>5. CASE At(x, Idle)
    BY <1>3, <2>1, <2>2, <2>5, StepTyped
  <2>6. CASE At(x, [s EXCEPT !.at = "closing"])
    <3>1. PICK n \in DriverStates : n = [s EXCEPT !.at = "closing"]
      BY <2>1, MeasuredTyped
    <3>2. Refers(n) /\ At(x, n)
      BY <2>1, <2>6, <3>1, MeasuredTyped
    <3>3. Refers(n)'
      BY <2>4, <3>2 DEF Refers, Grows
    <3>4. DriversOK'
      BY <1>1, <2>4, <3>2, <3>3, AtDoes
    <3> QED
      BY <2>1, <2>2, <2>4, <3>4, StepTyped
  <2> QED
    BY <2>3, <2>5, <2>6
<1>7. CASE Close(x)
  <2> DEFINE s == driver[x]
  <2>1. /\ s.at = "closing" /\ records' = ClosePhase(records, s.phase, s.on)
        /\ UNCHANGED <<turn, answers, steered, queued, ended>>
    BY <1>7 DEF Close
  <2>2. records' \in RecordsType
    BY <1>1, <2>1, DriverFields, CloseDoes
  <2>3. \/ /\ \/ At(x, Idle)
              \/ s.phase # LastPhase /\ At(x, [s EXCEPT !.at = "starting"])
           /\ UNCHANGED broker
        \/ RetryOf(s) \in Dispatch /\ DispatchAs(x, RetryOf(s), {})
        \/ Dies(x)
    BY <1>7 DEF Close
  <2>4. CASE UNCHANGED broker /\ At(x, Idle)
    BY <1>3, <2>1, <2>2, <2>4, StepTyped
  <2>5. CASE UNCHANGED broker /\ s.phase # LastPhase /\ At(x, [s EXCEPT !.at = "starting"])
    <3>1. PICK n \in DriverStates : n = [s EXCEPT !.at = "starting"]
      BY <2>1, <2>5, MeasuredTyped
    <3>2. Refers(n) /\ At(x, n)
      BY <2>1, <2>5, <3>1, MeasuredTyped
    <3>3. BrokerOK' /\ Grows
      BY <1>2, <2>5
    <3>4. Refers(n)'
      BY <3>2, <3>3 DEF Refers, Grows
    <3>5. DriversOK'
      BY <1>1, <3>2, <3>3, <3>4, AtDoes
    <3> QED
      BY <2>1, <2>2, <3>3, <3>5, StepTyped
  <2>6. CASE RetryOf(s) \in Dispatch /\ DispatchAs(x, RetryOf(s), {})
    BY <1>4, <2>1, <2>2, <2>6, StepTyped
  <2>7. CASE Dies(x)
    BY <1>3, <2>1, <2>2, <2>7, StepTyped DEF Dies
  <2> QED
    BY <2>3, <2>4, <2>5, <2>6, <2>7
<1>8. CASE StartNext(x)
  <2> DEFINE next == driver[x].phase + 1
  <2>1. /\ driver[x].at = "starting" /\ At(x, Idle)
        /\ records' \in {records, StartPhase(records, next)}
        /\ UNCHANGED <<broker, turn, answers, steered, queued, ended>>
    BY <1>8 DEF StartNext
  <2>2. next \in Phase
    BY <2>1, DriverFields, PhasesNumbered
  <2>3. records' \in RecordsType
    BY <1>1, <2>1, <2>2, StartDoes
  <2> QED
    BY <1>3, <2>1, <2>3, StepTyped
<1>9. CASE OpenAttempt(x)
  <2> DEFINE s == driver[x]
  <2>1. /\ s.at = "opening" /\ records' = RecordAttempt(records, s.dispatch, "opened")
        /\ At(x, [s EXCEPT !.at = "carrying"]) \/ At(x, Idle)
        /\ UNCHANGED <<broker, turn, answers, steered, queued, ended>>
    BY <1>9 DEF OpenAttempt
  <2>2. s \in DispatchingStates /\ s.dispatch \in Dispatch /\ s.dispatch \in broker.dispatches
    BY <2>1, DriverFields
  <2>3. records' \in RecordsType
    BY <1>1, <2>1, <2>2, TransitionDoes DEF Dispositions
  <2>4. CASE At(x, Idle)
    BY <1>3, <2>1, <2>3, <2>4, StepTyped
  <2>5. CASE At(x, [s EXCEPT !.at = "carrying"])
    <3>1. PICK n \in DriverStates : n = [s EXCEPT !.at = "carrying"]
      BY <2>2 DEF DispatchingStates, DriverStates
    <3>2. n.at = "carrying" /\ n.dispatch = s.dispatch /\ At(x, n)
      BY <2>2, <2>5, <3>1 DEF DispatchingStates
    <3>3. BrokerOK' /\ Grows
      BY <1>2, <2>1
    <3>4. Refers(n)'
      BY <2>2, <3>2, <3>3 DEF Refers, Grows
    <3>5. DriversOK'
      BY <1>1, <3>2, <3>3, <3>4, AtDoes
    <3> QED
      BY <2>1, <2>3, <3>3, <3>5, StepTyped
  <2> QED
    BY <2>1, <2>4, <2>5
<1>10. CASE SatisfyRequirements(x)
  <2> DEFINE s == driver[x]
             given == [q \in DOMAIN answers |->
                         IF q \in s.carries /\ answers[q] = NoDispatch
                         THEN s.dispatch ELSE answers[q]]
  <2>1. /\ s.at = "carrying" /\ answers' = given /\ At(x, Idle)
        /\ UNCHANGED <<records, broker, turn, steered, queued, ended>>
    BY <1>10 DEF SatisfyRequirements
  <2>2. s.dispatch \in broker.dispatches
    BY <2>1, DriverFields
  <2>3. BrokerOK' /\ Grows /\ DriversOK'
    BY <1>3, <2>1
  <2>4. AnswersOK'
    BY <1>1, <2>1, <2>2 DEF AnswersOK
  <2>5. AgentsOK'
    BY <1>1, <2>1 DEF AgentsOK
  <2> QED
    BY <1>1, <2>1, <2>3, <2>4, <2>5 DEF Typed
<1>11. CASE Stop(x)
  BY <1>1, <1>3, <1>11, StepTyped DEF Stop
<1>12. CASE RecordFinished(x)
  <2>1. ended' = TRUE /\ UNCHANGED <<records, broker, turn, answers, steered, queued, driver>>
    BY <1>12 DEF RecordFinished
  <2>2. BrokerOK' /\ Grows
    BY <1>2, <2>1
  <2>3. DriversOK' /\ AnswersOK' /\ AgentsOK'
    BY <1>1, <2>1, <2>2, DriversStay, OthersStay DEF AgentsOK
  <2> QED
    BY <1>1, <2>1, <2>2, <2>3 DEF Typed
<1> QED
  BY <1>5, <1>6, <1>7, <1>8, <1>9, <1>10, <1>11, <1>12

\* What an agent, the bridge or a person does with a dispatch.
DispatchStep(d) ==
  \/ StartAgent(d) \/ StartByHand(d) \/ AgentHandsIn(d) \/ AgentAsks(d)
  \/ AgentReturns(d) \/ BridgeAccepts(d) \/ ExecuteCompletion(d) \/ Steer(d)

LEMMA AgentsTyped ==
  ASSUME Typed, NEW d \in broker.dispatches, DispatchStep(d)
  PROVE  Typed' /\ Grows
<1>1. /\ BrokerOK /\ DriversOK /\ AnswersOK /\ AgentsOK /\ records \in RecordsType
      /\ d \in Dispatch
  BY BrokerFields DEF Typed
<1>2. ASSUME BrokerOK', Grows, AgentsOK', UNCHANGED <<records, answers, driver>>
      PROVE  Typed' /\ Grows
  BY <1>1, <1>2, DriversStay, OthersStay DEF Typed
<1>3. UNCHANGED broker => BrokerOK' /\ Grows
  BY <1>1, StaysDoes
<1>4. CASE StartAgent(d) \/ StartByHand(d) \/ AgentReturns(d)
  <2>1. /\ \E t \in Turns : turn' = [turn EXCEPT ![d] = t]
        /\ UNCHANGED <<records, broker, answers, steered, queued, driver, ended>>
    BY <1>4 DEF StartAgent, StartByHand, AgentReturns, Turns
  <2>2. AgentsOK'
    BY <1>1, <2>1 DEF AgentsOK
  <2> QED
    BY <1>2, <1>3, <2>1, <2>2
<1>5. CASE AgentHandsIn(d)
  <2> DEFINE handed == HandIn(broker, d)
  <2>1. /\ handed # broker /\ broker' \in {handed, Deliver(handed, d)}
        /\ UNCHANGED queued \/ queued' = queued \cup {d}
        /\ UNCHANGED <<records, turn, answers, steered, driver, ended>>
    BY <1>5 DEF AgentHandsIn
  <2> HIDE DEF handed
  <2>2. BrokerOK' /\ Grows /\ broker'.handed = broker.handed \cup {d}
    BY <1>1, <2>1, HandInDoes DEF handed
  <2>3. AgentsOK'
    BY <1>1, <2>1, <2>2 DEF AgentsOK, Grows
  <2> QED
    BY <1>2, <2>1, <2>2, <2>3
<1>6. CASE AgentAsks(d)
  <2> DEFINE q == [dispatch |-> d, kind |-> "asked", tries |-> 0]
  <2>1. /\ broker' = AddQuestion(broker, q)
        /\ UNCHANGED <<records, turn, answers, steered, queued, driver, ended>>
    BY <1>6 DEF AgentAsks
  <2>2. q \in Question /\ q.dispatch \in broker.dispatches
    BY <1>1 DEF Question
  <2>3. BrokerOK' /\ Grows
    BY <1>1, <2>1, <2>2, AskDoes
  <2>4. AgentsOK'
    BY <1>1, <2>1, <2>3 DEF AgentsOK, Grows
  <2> QED
    BY <1>2, <2>1, <2>3, <2>4
<1>7. CASE BridgeAccepts(d)
  <2>1. /\ broker' = Deliver(broker, d) /\ queued' = queued \cup {d}
        /\ d \in broker.handed
        /\ UNCHANGED <<records, turn, answers, steered, driver, ended>>
    BY <1>7 DEF BridgeAccepts, Undelivered
  <2>2. BrokerOK' /\ Grows /\ broker'.handed = broker.handed
    BY <1>1, <2>1, DeliverDoes
  <2>3. AgentsOK'
    BY <1>1, <2>1, <2>2 DEF AgentsOK, Grows
  <2> QED
    BY <1>2, <2>1, <2>2, <2>3
<1>8. CASE ExecuteCompletion(d)
  <2>1. /\ queued' = queued \ {d} /\ records' = TakeCompletion(records, d)
        /\ UNCHANGED <<broker, turn, answers, steered, driver, ended>>
    BY <1>8 DEF ExecuteCompletion
  <2>2. records' \in RecordsType
    BY <1>1, <2>1, CompletionDoes
  <2>3. AgentsOK'
    BY <1>1, <2>1 DEF AgentsOK
  <2> QED
    BY <1>1, <1>3, <2>1, <2>2, <2>3, DriversStay, OthersStay DEF Typed
<1>9. CASE Steer(d)
  <2>1. steered' = steered \cup {d} /\ UNCHANGED <<records, broker, turn, answers, queued, driver, ended>>
    BY <1>9 DEF Steer
  <2>2. AgentsOK'
    BY <1>1, <2>1 DEF AgentsOK
  <2> QED
    BY <1>2, <1>3, <2>1, <2>2
<1> QED
  BY <1>4, <1>5, <1>6, <1>7, <1>8, <1>9 DEF DispatchStep

LEMMA PeopleTyped ==
  ASSUME Typed,
         \/ \E q \in broker.questions : Answer(q)
         \/ \E made \in {"approve", "reject"} : DecideCandidate(made)
  PROVE  Typed' /\ Grows
<1>1. BrokerOK /\ DriversOK /\ AnswersOK /\ AgentsOK /\ records \in RecordsType
  BY DEF Typed
<1>2. ASSUME NEW q \in broker.questions, Answer(q) PROVE Typed' /\ Grows
  <2>1. /\ answers' = [e \in DOMAIN answers \cup {q} |->
                         IF e = q THEN NoDispatch ELSE answers[e]]
        /\ UNCHANGED <<records, broker, turn, steered, queued, driver, ended>>
    BY <1>2 DEF Answer
  <2>2. BrokerOK' /\ Grows
    BY <1>1, <2>1, StaysDoes
  <2>3. AnswersOK'
    BY <1>1, <2>1 DEF AnswersOK
  <2> QED
    BY <1>1, <2>1, <2>2, <2>3, DriversStay, OthersStay DEF Typed
<1>3. ASSUME NEW made \in {"approve", "reject"}, DecideCandidate(made) PROVE Typed' /\ Grows
  <2>1. records' = Decide(records, made)
        /\ UNCHANGED <<broker, turn, answers, steered, queued, driver, ended>>
    BY <1>3 DEF DecideCandidate
  <2>2. records' \in RecordsType
    BY <1>1, <2>1, DecisionDoes
  <2>3. BrokerOK' /\ Grows
    BY <1>1, <2>1, StaysDoes
  <2> QED
    BY <1>1, <2>1, <2>2, <2>3, DriversStay, StepTyped
<1> QED
  BY <1>2, <1>3

\* The kinds of steps.
LEMMA StepKinds ==
  ASSUME Next
  PROVE  \/ \E x \in Driver :
              \/ CloseEnded(x) \/ DispatchMember(x) \/ RetryAborted(x) \/ CarryAnswers(x)
              \/ MarkAnswered(x) \/ RetrySpent(x) \/ DeliverFact(x) \/ ReadGate(x)
         \/ \E x \in Driver :
              \/ MeasureRed(x) \/ MeasureGreen(x) \/ Close(x) \/ StartNext(x)
              \/ OpenAttempt(x) \/ SatisfyRequirements(x) \/ Stop(x) \/ RecordFinished(x)
         \/ \E d \in broker.dispatches : DispatchStep(d)
         \/ \E q \in broker.questions : Answer(q)
         \/ \E made \in {"approve", "reject"} : DecideCandidate(made)
<1> USE DEF Next
<1>1. CASE \E x \in Driver : DriverStep(x)
  BY <1>1 DEF DriverStep
<1>2. CASE \E d \in broker.dispatches : DispatchStep(d)
  BY <1>2
<1> QED
  BY <1>1, <1>2 DEF DispatchStep

LEMMA TypedStep ==
  ASSUME Typed, Next
  PROVE  Typed' /\ Grows
BY StepKinds, IdleReadsTyped, DrivesTyped, AgentsTyped, PeopleTyped

LEMMA TypedStutter ==
  ASSUME Typed, UNCHANGED vars
  PROVE  Typed' /\ Grows
<1>1. UNCHANGED <<records, broker, turn, answers, steered, queued, driver, ended>>
  BY DEF vars
<1>2. BrokerOK' /\ Grows
  BY <1>1, StaysDoes DEF Typed
<1>3. DriversOK' /\ AnswersOK' /\ AgentsOK'
  BY <1>1, <1>2, DriversStay, OthersStay DEF Typed
<1> QED
  BY <1>1, <1>2, <1>3 DEF Typed

LEMMA TypedAlways == Spec => []Typed
<1>1. Init => Typed
  BY TypedInitially
<1>2. Typed /\ [Next]_vars => Typed'
  BY TypedStep, TypedStutter
<1> QED
  BY <1>1, <1>2, PTL DEF Spec

\* The records, the broker, the drivers and the agents keep their types: what
\* is asked, answered, aborted, queued or carried names a dispatch that was
\* registered, and what is queued was handed in (RuntimeAuthority and
\* SqliteContextBroker, whatever advanceRun leaves half done).
THEOREM RunTypeCorrect == Spec => []TypeOK
<1>1. Typed => TypeOK
  BY TypedIsTyped
<1> QED
  BY <1>1, TypedAlways, PTL

----------------------------------------------------------------------------
(* What a step may do to the judgement, and to a driver                     *)

Measuring(x) == driver[x].at \in {"gating", "closing", "starting"}
Dispatching(x) == driver[x].at \in {"opening", "carrying"}

\* The one command on the records that a step gives, if it is of consequence.
JudgementMoves ==
  \/ SameJudgement(records, records')
  \/ \E d \in broker.handed : Assesses(records, records', d)
  \/ \E x \in Driver, v \in {"accepted", "rejected"} :
       /\ driver[x].at = "gating"
       /\ Judges(records, records', driver[x].on, v)
       /\ SameCandidate(records, driver[x].phase, driver[x].on)
  \/ \E made \in {"approve", "reject"} :
       MayDecide(records) /\ records' = Decide(records, made)
  \/ \E x \in Driver :
       driver[x].at = "closing" /\ Closes(records, records', driver[x].phase, driver[x].on)
  \/ \E x \in Driver :
       /\ driver[x].at = "starting" /\ MayStart(records, driver[x].phase + 1)
       /\ records' = StartPhase(records, driver[x].phase + 1)

LEMMA JudgementStep ==
  ASSUME Typed, Next
  PROVE  JudgementMoves
<1>1. records \in RecordsType /\ BrokerOK /\ AgentsOK
  BY DEF Typed
<1>2. ASSUME UNCHANGED records PROVE JudgementMoves
  BY <1>2 DEF JudgementMoves, SameJudgement
<1>3. ASSUME NEW x \in Driver, CloseEnded(x) PROVE JudgementMoves
  BY <1>3, ClosingEndedDoes DEF JudgementMoves
<1>4. ASSUME NEW x \in Driver, RetryAborted(x) PROVE JudgementMoves
  <2> DEFINE d == Business(records.phase)
  <2>1. /\ Untouched = {}
        /\ records' = IF records.attempts[d] = "opened"
                      THEN RecordAttempt(records, d, "refused") ELSE records
    BY <1>4 DEF RetryAborted, Reads
  <2>2. d \in Dispatch
    BY <2>1, BusinessIs
  <2> HIDE DEF d
  <2>3. SameJudgement(records, records')
    BY <1>1, <2>1, <2>2, TransitionDoes DEF Dispositions, SameJudgement
  <2> QED
    BY <2>3 DEF JudgementMoves
<1>5. ASSUME NEW x \in Driver, DeliverFact(x) PROVE JudgementMoves
  <2>1. \E e \in Undelivered(broker) : records' = OfferCompletion(records, e)
    BY <1>5 DEF DeliverFact
  <2>2. \A e \in Undelivered(broker) : e \in broker.handed /\ e \in Dispatch
    BY <1>1, BrokerFields DEF Undelivered
  <2>3. SameJudgement(records, records') \/ \E e \in broker.handed : Assesses(records, records', e)
    BY <1>1, <2>1, <2>2, OfferDoes
  <2> QED
    BY <2>3 DEF JudgementMoves
<1>6. ASSUME NEW x \in Driver, NEW v \in {"accepted", "rejected"}, driver[x].at = "gating",
             MayGate(records, driver[x].phase, driver[x].on, v),
             records' = EvaluateGate(records, driver[x].phase, driver[x].on, v)
      PROVE  JudgementMoves
  <2>1. driver[x].phase \in Phase /\ driver[x].on \in Digest
    BY <1>6, DriverFields
  <2>2. \/ SameJudgement(records, records')
        \/ /\ Judges(records, records', driver[x].on, v)
           /\ SameCandidate(records, driver[x].phase, driver[x].on)
    BY <1>1, <1>6, <2>1, GateDoes
  <2> QED
    BY <1>6, <2>2 DEF JudgementMoves
<1>7. ASSUME NEW x \in Driver, Close(x) PROVE JudgementMoves
  <2>1. driver[x].at = "closing" /\ records' = ClosePhase(records, driver[x].phase, driver[x].on)
    BY <1>7 DEF Close
  <2>2. driver[x].phase \in Phase /\ driver[x].on \in Digest
    BY <2>1, DriverFields
  <2>3. \/ SameJudgement(records, records')
        \/ Closes(records, records', driver[x].phase, driver[x].on)
    BY <1>1, <2>1, <2>2, CloseDoes
  <2> QED
    BY <2>1, <2>3 DEF JudgementMoves
<1>8. ASSUME NEW x \in Driver, StartNext(x) PROVE JudgementMoves
  BY <1>2, <1>8 DEF StartNext, JudgementMoves
<1>9. ASSUME NEW x \in Driver, OpenAttempt(x) PROVE JudgementMoves
  <2>1. /\ driver[x].at = "opening"
        /\ records' = RecordAttempt(records, driver[x].dispatch, "opened")
    BY <1>9 DEF OpenAttempt
  <2>2. SameJudgement(records, records')
    BY <1>1, <2>1, DriverFields, TransitionDoes DEF Dispositions
  <2> QED
    BY <2>2 DEF JudgementMoves
<1>10. ASSUME NEW d \in broker.dispatches, ExecuteCompletion(d) PROVE JudgementMoves
  <2>1. d \in broker.handed /\ d \in Dispatch /\ records' = TakeCompletion(records, d)
    BY <1>1, <1>10, BrokerFields DEF ExecuteCompletion, AgentsOK
  <2>2. SameJudgement(records, records') \/ Assesses(records, records', d)
    BY <1>1, <2>1, CompletionDoes
  <2> QED
    BY <2>1, <2>2 DEF JudgementMoves
<1>11. ASSUME NEW made \in {"approve", "reject"}, DecideCandidate(made) PROVE JudgementMoves
  BY <1>11 DEF DecideCandidate, JudgementMoves
<1>12. ASSUME NEW x \in Driver, MeasureRed(x) PROVE JudgementMoves
  BY <1>6, <1>12 DEF MeasureRed
<1>13. ASSUME NEW x \in Driver, MeasureGreen(x) PROVE JudgementMoves
  BY <1>6, <1>13 DEF MeasureGreen
<1>14. ASSUME NEW x \in Driver,
              \/ DispatchMember(x) \/ CarryAnswers(x) \/ MarkAnswered(x) \/ RetrySpent(x)
              \/ ReadGate(x) \/ SatisfyRequirements(x) \/ Stop(x) \/ RecordFinished(x)
       PROVE  JudgementMoves
  BY <1>2, <1>14 DEF DispatchMember, CarryAnswers, MarkAnswered, RetrySpent, ReadGate,
                     SatisfyRequirements, Stop, RecordFinished
<1>15. ASSUME NEW d \in broker.dispatches, DispatchStep(d), ~ExecuteCompletion(d)
       PROVE  JudgementMoves
  BY <1>2, <1>15 DEF DispatchStep, StartAgent, StartByHand, AgentHandsIn, AgentAsks,
                     AgentReturns, BridgeAccepts, Steer
<1>16. ASSUME NEW q \in broker.questions, Answer(q) PROVE JudgementMoves
  BY <1>2, <1>16 DEF Answer
<1> QED
  BY <1>3, <1>4, <1>5, <1>7, <1>8, <1>9, <1>10, <1>11, <1>12, <1>13, <1>14, <1>15, <1>16,
     StepKinds

\* What a driver has after a step of any of them.
SameReading(s, t) ==
  /\ t.phase = s.phase /\ t.on = s.on /\ t.dispatch = s.dispatch
  /\ t.newest = s.newest /\ t.tries = s.tries /\ t.next = s.next
DriverMoves(x) ==
  \/ driver'[x] = driver[x]
  \/ driver'[x] = Idle
  \/ /\ driver[x].at \in {"gating", "closing"} /\ driver'[x].at \in {"closing", "starting"}
     /\ SameReading(driver[x], driver'[x])
  \/ /\ Reads(x) /\ Covers(records) /\ UNCHANGED <<records, broker, answers>>
     /\ driver'[x] = Measured(records.phase)
  \/ driver'[x].at = "opening" /\ driver'[x].carries = {}
  \/ LET d == Business(records.phase) IN
     /\ Reads(x) /\ UNCHANGED answers
     /\ driver'[x].at = "opening" /\ driver'[x].dispatch = After(d)
     /\ driver'[x].carries = UndeliveredTo(d.task)
  \/ /\ driver[x].at = "opening" /\ driver'[x].at = "carrying" /\ UNCHANGED answers
     /\ driver'[x].dispatch = driver[x].dispatch /\ driver'[x].carries = driver[x].carries

LEMMA DispatchMoves ==
  ASSUME Typed, NEW x \in Driver, NEW d, NEW carries, DispatchAs(x, d, carries)
  PROVE  \/ driver'[x] = Idle
         \/ /\ driver'[x].at = "opening" /\ driver'[x].dispatch = d
            /\ driver'[x].carries = carries
BY DEF DispatchAs, At, Typed, DriversOK

LEMMA OthersMoveNot ==
  ASSUME Typed, NEW x \in Driver, NEW y \in Driver, x # y, DriverStep(y)
  PROVE  driver'[x] = driver[x]
<1>1. ASSUME NEW s, At(y, s) PROVE driver'[x] = driver[x]
  BY <1>1 DEF At, Typed, DriversOK
<1>2. UNCHANGED driver \/ \E s : At(y, s)
  BY DEF DriverStep, CloseEnded, DispatchMember, RetryAborted, CarryAnswers, MarkAnswered,
         RetrySpent, DeliverFact, ReadGate, MeasureRed, MeasureGreen, Close, StartNext,
         OpenAttempt, SatisfyRequirements, Stop, RecordFinished, DispatchAs, Dies
<1> QED
  BY <1>1, <1>2

LEMMA DriverStepMoves ==
  ASSUME Typed, Next, NEW x \in Driver
  PROVE  DriverMoves(x)
<1>1. DriversOK /\ driver \in [Driver -> DriverStates]
  BY DEF Typed, DriversOK
<1>2. ASSUME UNCHANGED driver PROVE DriverMoves(x)
  BY <1>2 DEF DriverMoves
<1>3. ASSUME At(x, Idle) PROVE DriverMoves(x)
  BY <1>1, <1>3 DEF DriverMoves, At
<1>4. ASSUME NEW d, DispatchAs(x, d, {}) PROVE DriverMoves(x)
  BY <1>4, DispatchMoves DEF DriverMoves
<1>5. CASE ~ \E y \in Driver : DriverStep(y)
  <2>1. UNCHANGED driver
    BY <1>5 DEF Next, StartAgent, StartByHand, AgentHandsIn, AgentAsks, AgentReturns,
                BridgeAccepts, ExecuteCompletion, Steer, Answer, DecideCandidate
  <2> QED
    BY <1>2, <2>1
<1>6. ASSUME NEW y \in Driver, DriverStep(y), y # x PROVE DriverMoves(x)
  BY <1>6, OthersMoveNot DEF DriverMoves
<1>7. CASE DriverStep(x)
  <2>1. CASE CloseEnded(x) \/ MarkAnswered(x) \/ DeliverFact(x) \/ RecordFinished(x)
    BY <1>2, <2>1 DEF CloseEnded, MarkAnswered, DeliverFact, RecordFinished
  <2>2. CASE DispatchMember(x)
    BY <1>4, <2>2 DEF DispatchMember
  <2>3. CASE RetryAborted(x) \/ RetrySpent(x)
    BY <1>3, <1>4, <2>3 DEF RetryAborted, RetrySpent, Dies
  <2>4. CASE CarryAnswers(x)
    BY <2>4, DispatchMoves DEF CarryAnswers, DriverMoves
  <2>5. CASE ReadGate(x)
    <3>1. /\ Reads(x) /\ Covers(records) /\ UNCHANGED <<records, broker, answers>>
          /\ At(x, Measured(records.phase))
      BY <2>5 DEF ReadGate, Measured
    <3>2. driver'[x] = Measured(records.phase)
      BY <1>1, <3>1 DEF At
    <3> QED
      BY <3>1, <3>2 DEF DriverMoves
  <2>6. CASE MeasureRed(x)
    BY <1>3, <1>4, <2>6 DEF MeasureRed, Dies
  <2>7. ASSUME driver[x].at \in {"gating", "closing"}, NEW l \in {"closing", "starting"},
               At(x, [driver[x] EXCEPT !.at = l])
        PROVE  DriverMoves(x)
    <3>1. driver[x] \in MeasuringStates
      BY <2>7, DriverFields
    <3>2. driver'[x] = [driver[x] EXCEPT !.at = l]
      BY <1>1, <2>7 DEF At
    <3>3. driver'[x].at = l /\ SameReading(driver[x], driver'[x])
      BY <3>1, <3>2 DEF MeasuringStates, SameReading
    <3> QED
      BY <2>7, <3>3 DEF DriverMoves
  <2>8. CASE MeasureGreen(x)
    <3>1. /\ driver[x].at = "gating"
          /\ At(x, Idle) \/ At(x, [driver[x] EXCEPT !.at = "closing"])
      BY <2>8 DEF MeasureGreen
    <3> QED
      BY <1>3, <2>7, <3>1
  <2>9. CASE Close(x)
    <3>1. /\ driver[x].at = "closing"
          /\ \/ At(x, Idle) \/ At(x, [driver[x] EXCEPT !.at = "starting"])
             \/ DispatchAs(x, RetryOf(driver[x]), {})
      BY <2>9 DEF Close, Dies
    <3> QED
      BY <1>3, <1>4, <2>7, <3>1
  <2>10. CASE StartNext(x) \/ SatisfyRequirements(x) \/ Stop(x)
    BY <1>3, <2>10 DEF StartNext, SatisfyRequirements, Stop
  <2>11. CASE OpenAttempt(x)
    <3>1. /\ driver[x].at = "opening" /\ UNCHANGED answers
          /\ At(x, Idle) \/ At(x, [driver[x] EXCEPT !.at = "carrying"])
      BY <2>11 DEF OpenAttempt
    <3>2. CASE At(x, [driver[x] EXCEPT !.at = "carrying"])
      <4>1. driver[x] \in DispatchingStates
        BY <3>1, DriverFields
      <4>2. driver'[x] = [driver[x] EXCEPT !.at = "carrying"]
        BY <1>1, <3>2 DEF At
      <4>3. /\ driver'[x].at = "carrying" /\ driver'[x].dispatch = driver[x].dispatch
            /\ driver'[x].carries = driver[x].carries
        BY <4>1, <4>2 DEF DispatchingStates
      <4> QED
        BY <3>1, <4>3 DEF DriverMoves
    <3> QED
      BY <1>3, <3>1, <3>2
  <2> QED
    BY <1>7, <2>1, <2>2, <2>3, <2>4, <2>5, <2>6, <2>8, <2>9, <2>10, <2>11 DEF DriverStep
<1> QED
  BY <1>5, <1>6, <1>7

----------------------------------------------------------------------------
(* The evidence: what a candidate, a closure and a reading are made of      *)

\* The candidate is of the assessed work of every task of its phase, a phase
\* that has closed did so on it, and it was judged good.
Judged ==
  /\ records.candidate # NoDigest =>
       /\ records.candidate.work = AssessedWork(records, records.phase)
       /\ Covers(records)
  /\ records.verdict # "none" <=> records.candidate # NoDigest
  /\ Closed(records) =>
       /\ records.verdict = "accepted"
       /\ records.candidate = records.closure[records.phase]

\* A closed phase's assessments are those it closed on, and so is the decision.
Settled ==
  \A p \in Phase : records.closure[p] # NoDigest =>
    /\ records.closure[p].work = AssessedWork(records, p)
    /\ \A t \in Tasks(p) : Accepted(records, t)
    /\ NeedsDecision => records.decision[p] = [made |-> "approve", on |-> records.closure[p]]

\* What was assessed was handed in.
HandedFirst ==
  \A t \in Task :
    Accepted(records, t) => [task |-> t, ordinal |-> records.assessed[t]] \in broker.handed

\* The phases before the current one have closed, those after it have not.
InOrder ==
  \A p \in Phase :
    /\ p < records.phase => records.closure[p] # NoDigest
    /\ p > records.phase => records.closure[p] = NoDigest

\* What a driver took to the gate is of the phase it read, all accepted.
OnItsPhase ==
  \A x \in Driver : Measuring(x) =>
    /\ \A t \in Task \ Tasks(driver[x].phase) : driver[x].on.work[t] = 0
    /\ \A t \in Tasks(driver[x].phase) : Accepted(records, t)

EndedLast == ended => \A p \in Phase : records.closure[p] # NoDigest

Evidence ==
  Typed /\ Judged /\ Settled /\ HandedFirst /\ InOrder /\ OnItsPhase /\ EndedLast

LEMMA EvidenceInitially == Init => Evidence
<1> SUFFICES ASSUME Init PROVE Evidence
  OBVIOUS
<1>1. Typed
  BY TypedInitially
<1>2. /\ records.candidate = NoDigest /\ records.verdict = "none" /\ records.assessed = NoWork
      /\ \A p \in Phase : records.closure[p] = NoDigest
      /\ records.phase = 1 /\ ended = FALSE /\ 1 \in Phase
  BY PhasesNumbered DEF Init, RecordsInit
<1>3. \A t \in Task : ~Accepted(records, t)
  BY <1>2 DEF Accepted, NoWork
<1>4. \A x \in Driver : driver[x].at = "idle"
  BY DEF Init, Idle
<1>5. Judged /\ Settled
  BY <1>2 DEF Judged, Settled, Closed
<1>6. HandedFirst
  BY <1>3 DEF HandedFirst
<1>7. InOrder
  BY <1>2, PhasesNumbered DEF InOrder
<1>8. OnItsPhase
  BY <1>4 DEF OnItsPhase, Measuring
<1> QED
  BY <1>1, <1>2, <1>5, <1>6, <1>7, <1>8 DEF Evidence, EndedLast

\* The part of the evidence that the records alone tell.
Founded == Judged /\ Settled /\ InOrder

\* A completion that is taken is of a phase that has not closed.
LEMMA AssessingIsOpen ==
  ASSUME Judged, NEW d \in Dispatch, CompletionRefusal(records, d) = "none"
  PROVE  /\ ~Closed(records)
         /\ d.task \in Tasks(records.phase)
         /\ records.candidate = NoDigest \/ records.verdict = "rejected"
BY DEF CompletionRefusal, RejectedCandidate, Judged, Closed

LEMMA AssessingFounded ==
  ASSUME Typed, Founded, HandedFirst, Grows, NEW d \in broker.handed,
         Assesses(records, records', d)
  PROVE  /\ Founded' /\ HandedFirst'
         /\ \A t \in Task : Accepted(records, t) => Accepted(records', t)
<1>1. /\ records \in RecordsType /\ records.assessed \in Work /\ records.phase \in Phase
      /\ d \in Dispatch /\ d.task \in Task /\ d.ordinal \in 1 .. MaxOrdinal
      /\ d = [task |-> d.task, ordinal |-> d.ordinal]
  BY BrokerFields, DispatchFields DEF Typed, RecordsType
<1>2. /\ ~Closed(records) /\ d.task \in Tasks(records.phase)
      /\ records.candidate = NoDigest \/ records.verdict = "rejected"
  BY <1>1, AssessingIsOpen DEF Assesses, Founded
<1>3. /\ records'.assessed = [records.assessed EXCEPT ![d.task] = d.ordinal]
      /\ records'.candidate = NoDigest
      /\ records'.verdict = IF RejectedCandidate(records) THEN "none" ELSE records.verdict
      /\ records'.phase = records.phase /\ records'.decision = records.decision
      /\ records'.closure = records.closure
  BY DEF Assesses
<1>4. ASSUME NEW t \in Task
      PROVE  records'.assessed[t] = IF t = d.task THEN d.ordinal ELSE records.assessed[t]
  BY <1>1, <1>3 DEF Work
<1>5. \A t \in Task : Accepted(records, t) => Accepted(records', t)
  BY <1>1, <1>4 DEF Accepted
<1>6. HandedFirst'
  <2> SUFFICES ASSUME NEW t \in Task, Accepted(records', t)
               PROVE  [task |-> t, ordinal |-> records'.assessed[t]] \in broker'.handed
    BY DEF HandedFirst
  <2>1. CASE t = d.task
    BY <1>1, <1>4, <2>1 DEF Grows
  <2>2. CASE t # d.task
    BY <1>4, <2>2 DEF Accepted, HandedFirst, Grows
  <2> QED
    BY <2>1, <2>2
<1>7. Judged'
  <2>1. records'.verdict = "none"
    BY <1>2, <1>3 DEF RejectedCandidate, Founded, Judged
  <2>2. ~Closed(records')
    BY <1>2, <1>3 DEF Closed
  <2> QED
    BY <1>3, <2>1, <2>2 DEF Judged
<1>8. Settled'
  <2> SUFFICES ASSUME NEW p \in Phase, records'.closure[p] # NoDigest
               PROVE  /\ records'.closure[p].work = AssessedWork(records', p)
                      /\ \A t \in Tasks(p) : Accepted(records', t)
                      /\ NeedsDecision => records'.decision[p] =
                           [made |-> "approve", on |-> records'.closure[p]]
    BY DEF Settled
  <2>1. records.closure[p] # NoDigest /\ p # records.phase
    BY <1>2, <1>3 DEF Closed
  <2>2. \A t \in Tasks(p) : t \in Task /\ t # d.task
    BY <1>1, <1>2, <2>1, OnePhaseEach
  <2>3. AssessedWork(records', p) = AssessedWork(records, p)
    BY <1>4, <2>2 DEF AssessedWork
  <2> QED
    BY <1>3, <1>5, <2>1, <2>2, <2>3 DEF Founded, Settled
<1>9. InOrder'
  BY <1>3 DEF Founded, InOrder
<1> QED
  BY <1>5, <1>6, <1>7, <1>8, <1>9 DEF Founded

\* No other step changes an assessment.
LEMMA SameAssessments ==
  ASSUME records'.assessed = records.assessed
  PROVE  /\ \A t : Accepted(records', t) <=> Accepted(records, t)
         /\ \A p : AssessedWork(records', p) = AssessedWork(records, p)
         /\ Grows /\ HandedFirst => HandedFirst'
<1>1. \A t : Accepted(records', t) <=> Accepted(records, t)
  BY DEF Accepted
<1>2. \A p : AssessedWork(records', p) = AssessedWork(records, p)
  BY DEF AssessedWork
<1>3. Grows /\ HandedFirst => HandedFirst'
  BY <1>1 DEF HandedFirst, Grows
<1> QED
  BY <1>1, <1>2, <1>3

LEMMA SameJudgementFounded ==
  ASSUME Founded, SameJudgement(records, records')
  PROVE  Founded' /\ records'.assessed = records.assessed
<1>1. /\ records'.phase = records.phase /\ records'.candidate = records.candidate
      /\ records'.verdict = records.verdict /\ records'.decision = records.decision
      /\ records'.closure = records.closure /\ records'.assessed = records.assessed
  BY DEF SameJudgement
<1>2. Judged'
  BY <1>1, SameAssessments DEF Founded, Judged, Covers, Closed
<1>3. Settled'
  BY <1>1, SameAssessments DEF Founded, Settled
<1>4. InOrder'
  BY <1>1 DEF Founded, InOrder
<1> QED
  BY <1>1, <1>2, <1>3, <1>4 DEF Founded

LEMMA JudgingFounded ==
  ASSUME Typed, Founded, NEW p, NEW on, NEW v \in {"accepted", "rejected"},
         Judges(records, records', on, v), SameCandidate(records, p, on)
  PROVE  Founded' /\ records'.assessed = records.assessed /\ on # NoDigest
                  /\ records.closure[records.phase] = NoDigest
<1>1. /\ records.candidate = NoDigest
      /\ records'.phase = records.phase /\ records'.candidate = on
      /\ records'.verdict = v /\ records'.decision = records.decision
      /\ records'.closure = records.closure /\ records'.assessed = records.assessed
      /\ records.phase = p /\ Covers(records) /\ on.work = AssessedWork(records, p)
      /\ records.phase \in Phase
  BY DEF Judges, SameCandidate, Typed, RecordsType
<1>2. on # NoDigest
  <2>1. PICK t \in Tasks(p) : t \in Task /\ Accepted(records, t)
    BY <1>1, TasksListed DEF Covers
  <2>2. on.work[t] # 0
    BY <1>1, <2>1 DEF AssessedWork, Accepted
  <2>3. NoDigest.work[t] = 0
    BY <2>1 DEF NoDigest, NoWork
  <2> QED
    BY <2>2, <2>3
<1>3. ~Closed(records)
  BY <1>1 DEF Founded, Judged
<1>4. Judged'
  BY <1>1, <1>2, <1>3, SameAssessments DEF Judged, Covers, Closed
<1>5. Settled'
  BY <1>1, SameAssessments DEF Founded, Settled
<1>6. InOrder'
  BY <1>1 DEF Founded, InOrder
<1> QED
  BY <1>1, <1>2, <1>3, <1>4, <1>5, <1>6 DEF Founded, Closed

LEMMA DecidingFounded ==
  ASSUME Typed, Founded, NEW made \in {"approve", "reject"}, MayDecide(records),
         records' = Decide(records, made)
  PROVE  /\ Founded' /\ records'.assessed = records.assessed
         /\ records'.phase = records.phase /\ records'.candidate = records.candidate
         /\ records'.verdict = records.verdict /\ records'.closure = records.closure
<1> DEFINE d == [made |-> made, on |-> records.candidate]
<1>1. /\ records'.decision = [records.decision EXCEPT ![records.phase] = d]
      /\ records'.phase = records.phase /\ records'.candidate = records.candidate
      /\ records'.verdict = records.verdict
      /\ records'.closure = records.closure /\ records'.assessed = records.assessed
      /\ records.phase \in Phase
  <2>1. records \in RecordsType
    BY DEF Typed
  <2>2. records.phase \in Phase
    BY <2>1 DEF RecordsType
  <2> QED
    BY <2>1, <2>2, DecisionDoes
<1>2. NeedsDecision /\ records.decision[records.phase].made = "none"
  BY DEF MayDecide, ApprovalPending
<1>3. records.closure[records.phase] = NoDigest
  <2> SUFFICES ASSUME records.closure[records.phase] # NoDigest PROVE FALSE
    OBVIOUS
  <2>1. records.decision[records.phase] =
          [made |-> "approve", on |-> records.closure[records.phase]]
    BY <1>1, <1>2 DEF Founded, Settled
  <2> QED
    BY <1>2, <2>1
<1> HIDE DEF d
<1>4. \A p \in Phase : p # records.phase => records'.decision[p] = records.decision[p]
  BY <1>1 DEF Typed, RecordsType
<1>5. Judged'
  BY <1>1, SameAssessments DEF Founded, Judged, Covers, Closed
<1>6. Settled'
  BY <1>1, <1>3, <1>4, SameAssessments DEF Founded, Settled
<1>7. InOrder'
  BY <1>1 DEF Founded, InOrder
<1> QED
  BY <1>1, <1>5, <1>6, <1>7 DEF Founded

\* A phase is closed by the driver that measured its candidate, whatever the
\* phase it names: the work of two phases is never the same.
LEMMA ClosingFounded ==
  ASSUME Typed, Founded, OnItsPhase, NEW x \in Driver, driver[x].at = "closing",
         Closes(records, records', driver[x].phase, driver[x].on)
  PROVE  /\ Founded' /\ records'.assessed = records.assessed
         /\ driver[x].phase = records.phase /\ records.candidate = driver[x].on
         /\ records.verdict = "accepted" /\ records.closure[records.phase] = NoDigest
         /\ records.candidate # NoDigest
<1> DEFINE p == driver[x].phase
           on == driver[x].on
<1>1. /\ records'.closure = [records.closure EXCEPT ![p] = on]
      /\ records'.phase = records.phase /\ records'.candidate = records.candidate
      /\ records'.verdict = records.verdict
      /\ records'.decision = records.decision /\ records'.assessed = records.assessed
      /\ CloseRefusal(records, on) = "completed"
  BY DEF Closes
<1>2. records \in RecordsType
  BY DEF Typed
<1>3. p \in Phase /\ on \in Digest /\ records.phase \in Phase
      /\ records.closure \in [Phase -> Digest]
  BY <1>2, DriverFields DEF RecordsType
<1>4. /\ records.candidate = on /\ records.candidate # NoDigest /\ ~Closed(records)
      /\ records.verdict = "accepted" /\ ~ApprovalPending(records)
      /\ NeedsDecision => /\ records.decision[records.phase].on = on
                          /\ records.decision[records.phase].made # "reject"
  BY <1>1 DEF CloseRefusal
<1>5. NeedsDecision => records.decision[records.phase] = [made |-> "approve", on |-> on]
  <2> SUFFICES ASSUME NeedsDecision
               PROVE  records.decision[records.phase] = [made |-> "approve", on |-> on]
    OBVIOUS
  <2>1. records.decision[records.phase] \in
          [made : {"none", "approve", "reject"}, on : Digest]
    BY <1>2, <1>3 DEF RecordsType
  <2>2. records.decision[records.phase].made # "none"
    BY <1>4 DEF ApprovalPending
  <2> QED
    BY <1>4, <2>1, <2>2
<1>6. on.work = AssessedWork(records, records.phase) /\ Covers(records)
  BY <1>4 DEF Founded, Judged
<1>7. p = records.phase
  <2>1. PICK t \in Tasks(records.phase) : t \in Task /\ Accepted(records, t)
    BY <1>3, <1>6, TasksListed DEF Covers
  <2>2. on.work[t] # 0
    BY <1>6, <2>1 DEF AssessedWork, Accepted
  <2>3. t \in Tasks(p)
    BY <2>1, <2>2 DEF OnItsPhase, Measuring
  <2> QED
    BY <1>3, <2>1, <2>3, OnePhaseEach
<1> HIDE DEF p, on
<1>8. /\ records'.closure[records.phase] = on
      /\ \A q \in Phase : q # records.phase => records'.closure[q] = records.closure[q]
  BY <1>1, <1>3, <1>7
<1>9. Judged'
  BY <1>1, <1>4, <1>8, SameAssessments DEF Founded, Judged, Covers, Closed
<1>10. Settled'
  <2> SUFFICES ASSUME NEW q \in Phase, records'.closure[q] # NoDigest
               PROVE  /\ records'.closure[q].work = AssessedWork(records', q)
                      /\ \A t \in Tasks(q) : Accepted(records', t)
                      /\ NeedsDecision => records'.decision[q] =
                           [made |-> "approve", on |-> records'.closure[q]]
    BY DEF Settled
  <2>1. CASE q = records.phase
    <3>1. \A t \in Tasks(q) : Accepted(records', t)
      BY <1>1, <1>6, <2>1, SameAssessments DEF Covers
    <3>2. records'.closure[q].work = AssessedWork(records', q)
      BY <1>1, <1>6, <1>8, <2>1, SameAssessments
    <3> QED
      BY <1>1, <1>5, <1>8, <2>1, <3>1, <3>2
  <2>2. CASE q # records.phase
    BY <1>1, <1>8, <2>2, SameAssessments DEF Founded, Settled
  <2> QED
    BY <2>1, <2>2
<1>11. InOrder'
  <2> SUFFICES ASSUME NEW q \in Phase
               PROVE  /\ q < records'.phase => records'.closure[q] # NoDigest
                      /\ q > records'.phase => records'.closure[q] = NoDigest
    BY DEF InOrder
  <2>1. q \in Nat /\ records.phase \in Nat
    BY <1>3, PhasesNumbered
  <2>2. CASE q = records.phase
    BY <1>1, <2>1, <2>2
  <2>3. CASE q # records.phase
    BY <1>1, <1>8, <2>3 DEF Founded, InOrder
  <2> QED
    BY <2>2, <2>3
<1> QED
  BY <1>1, <1>4, <1>7, <1>9, <1>10, <1>11 DEF Founded, Closed, p, on

\* The phase that starts is the next one.
LEMMA StartingFounded ==
  ASSUME Typed, Founded, NEW x \in Driver, driver[x].at = "starting",
         MayStart(records, driver[x].phase + 1),
         records' = StartPhase(records, driver[x].phase + 1)
  PROVE  /\ Founded' /\ records'.assessed = records.assessed
         /\ Closed(records)
         /\ records'.phase = records.phase + 1 /\ records.phase + 1 \in Phase
         /\ records'.candidate = NoDigest /\ records'.verdict = "none"
         /\ records'.closure = records.closure
<1> DEFINE p == driver[x].phase + 1
<1>1. p \in Phase
  BY DriverFields, PhasesNumbered
<1>2. records \in RecordsType
  BY DEF Typed
<1>3. /\ records'.phase = p /\ records'.candidate = NoDigest /\ records'.verdict = "none"
      /\ records'.decision = records.decision /\ records'.closure = records.closure
      /\ records'.assessed = records.assessed
  BY <1>1, <1>2, StartDoes
<1>4. /\ Closed(records) /\ p # records.phase /\ records.closure[p] = NoDigest
      /\ p > 1 => records.closure[p - 1] # NoDigest
  BY DEF MayStart
<1> HIDE DEF p
<1>5. records.phase \in Phase
  BY <1>2 DEF RecordsType
<1>6. p \in Nat /\ p >= 1 /\ records.phase \in Nat /\ records.phase >= 1
  BY <1>1, <1>5, PhasesNumbered
<1>7. p = records.phase + 1
  <2>1. p > records.phase
    BY <1>1, <1>4, <1>6 DEF Founded, InOrder
  <2>2. p > 1 /\ p - 1 \in Phase /\ p - 1 \in Nat
    BY <1>1, <1>6, <2>1, PhasesNumbered
  <2>3. ~(p - 1 > records.phase)
    BY <1>4, <2>2 DEF Founded, InOrder
  <2> QED
    BY <1>6, <2>1, <2>2, <2>3
<1>8. Judged'
  BY <1>3, <1>4 DEF Judged, Closed
<1>9. Settled'
  BY <1>3, SameAssessments DEF Founded, Settled
<1>10. InOrder'
  <2> SUFFICES ASSUME NEW q \in Phase
               PROVE  /\ q < p => records.closure[q] # NoDigest
                      /\ q > p => records.closure[q] = NoDigest
    BY <1>3 DEF InOrder
  <2>1. q \in Nat
    BY PhasesNumbered
  <2>2. CASE q = records.phase
    BY <1>4, <1>6, <1>7, <2>2 DEF Closed
  <2>3. CASE q # records.phase
    <3>1. q < p => q < records.phase
      BY <1>6, <1>7, <2>1, <2>3
    <3>2. q > p => q > records.phase
      BY <1>6, <1>7, <2>1
    <3> QED
      BY <3>1, <3>2 DEF Founded, InOrder
  <2> QED
    BY <2>2, <2>3
<1> QED
  BY <1>1, <1>3, <1>4, <1>7, <1>8, <1>9, <1>10 DEF Founded

\* What holds of any step that moves the judgement.
LEMMA JudgementKeeps ==
  ASSUME Evidence, Grows, JudgementMoves
  PROVE  /\ Founded' /\ HandedFirst'
         /\ \A t \in Task : Accepted(records, t) => Accepted(records', t)
         /\ \A p \in Phase :
              records.closure[p] # NoDigest => records'.closure[p] = records.closure[p]
<1>1. Typed /\ Founded /\ HandedFirst /\ OnItsPhase
  BY DEF Evidence, Founded
<1> DEFINE Kept == \A p \in Phase :
             records.closure[p] # NoDigest => records'.closure[p] = records.closure[p]
           Goal == /\ Founded' /\ HandedFirst'
                   /\ \A t \in Task : Accepted(records, t) => Accepted(records', t)
                   /\ Kept
<1>2. ASSUME Founded', records'.assessed = records.assessed, Kept PROVE Goal
  BY <1>1, <1>2, SameAssessments
<1> HIDE DEF Goal
<1>3. ASSUME SameJudgement(records, records') PROVE Goal
  <2>1. Kept
    BY <1>3 DEF SameJudgement
  <2>2. Founded' /\ records'.assessed = records.assessed
    BY <1>1, <1>3, SameJudgementFounded
  <2> QED
    BY <1>2, <2>1, <2>2
<1>4. ASSUME NEW d \in broker.handed, Assesses(records, records', d) PROVE Goal
  <2>1. Kept
    BY <1>4 DEF Assesses
  <2> QED
    BY <1>1, <1>4, <2>1, AssessingFounded DEF Goal
<1>5. ASSUME NEW x \in Driver, NEW v \in {"accepted", "rejected"}, driver[x].at = "gating",
             Judges(records, records', driver[x].on, v),
             SameCandidate(records, driver[x].phase, driver[x].on)
      PROVE  Goal
  <2>1. Kept
    BY <1>5 DEF Judges
  <2> QED
    BY <1>1, <1>2, <1>5, <2>1, JudgingFounded
<1>6. ASSUME NEW made \in {"approve", "reject"}, MayDecide(records),
             records' = Decide(records, made)
      PROVE  Goal
  BY <1>1, <1>2, <1>6, DecidingFounded
<1>7. ASSUME NEW x \in Driver, driver[x].at = "closing",
             Closes(records, records', driver[x].phase, driver[x].on)
      PROVE  Goal
  <2>1. /\ Founded' /\ records'.assessed = records.assessed
        /\ driver[x].phase = records.phase /\ records.closure[records.phase] = NoDigest
    BY <1>1, <1>7, ClosingFounded
  <2>2. records'.closure = [records.closure EXCEPT ![records.phase] = driver[x].on]
    BY <1>7, <2>1 DEF Closes
  <2>3. records.closure \in [Phase -> Digest]
    BY <1>1 DEF Typed, RecordsType
  <2>4. Kept
    BY <2>1, <2>2, <2>3
  <2> QED
    BY <1>2, <2>1, <2>4
<1>8. ASSUME NEW x \in Driver, driver[x].at = "starting",
             MayStart(records, driver[x].phase + 1),
             records' = StartPhase(records, driver[x].phase + 1)
      PROVE  Goal
  <2>1. Founded' /\ records'.assessed = records.assessed /\ records'.closure = records.closure
    BY <1>1, <1>8, StartingFounded
  <2> QED
    BY <1>2, <2>1
<1> QED
  BY <1>3, <1>4, <1>5, <1>6, <1>7, <1>8 DEF JudgementMoves, Goal

\* What a driver measures is of the phase it reads.
LEMMA MeasuredOnPhase ==
  ASSUME Typed, NEW x \in Driver, Reads(x), Covers(records)
  PROVE  LET s == Measured(records.phase) IN
         /\ \A t \in Task \ Tasks(s.phase) : s.on.work[t] = 0
         /\ \A t \in Tasks(s.phase) : Accepted(records, t)
BY DEF Measured, Covers

LEMMA OnItsPhaseStep ==
  ASSUME Evidence, Typed', Next,
         \A t \in Task : Accepted(records, t) => Accepted(records', t)
  PROVE  OnItsPhase'
<1> SUFFICES ASSUME NEW x \in Driver, driver'[x].at \in {"gating", "closing", "starting"}
             PROVE  /\ \A t \in Task \ Tasks(driver'[x].phase) : driver'[x].on.work[t] = 0
                    /\ \A t \in Tasks(driver'[x].phase) : Accepted(records', t)
  BY DEF OnItsPhase, Measuring
<1>1. Typed /\ OnItsPhase
  BY DEF Evidence
<1>2. driver'[x].phase \in Phase => \A t \in Tasks(driver'[x].phase) : t \in Task
  BY OnePhaseEach
<1>3. driver'[x].phase \in Phase
  BY DEF Typed, DriversOK, DriverStates, MeasuringStates, DispatchingStates, Idle
<1>4. DriverMoves(x)
  BY <1>1, DriverStepMoves
<1>5. CASE driver'[x] = driver[x]
  BY <1>1, <1>2, <1>3, <1>5 DEF OnItsPhase, Measuring
<1>6. CASE driver[x].at \in {"gating", "closing"} /\ SameReading(driver[x], driver'[x])
  BY <1>1, <1>2, <1>3, <1>6 DEF OnItsPhase, Measuring, SameReading
<1>7. CASE Reads(x) /\ Covers(records) /\ driver'[x] = Measured(records.phase)
  <2>1. /\ \A t \in Task \ Tasks(driver'[x].phase) : driver'[x].on.work[t] = 0
        /\ \A t \in Tasks(driver'[x].phase) : Accepted(records, t)
    BY <1>1, <1>7, MeasuredOnPhase
  <2> QED
    BY <1>2, <1>3, <2>1
<1> QED
  BY <1>4, <1>5, <1>6, <1>7 DEF DriverMoves, Idle

LEMMA EvidenceStep ==
  ASSUME Evidence, Next
  PROVE  Evidence'
<1>1. Typed' /\ Grows
  BY TypedStep DEF Evidence
<1>2. JudgementMoves
  BY JudgementStep DEF Evidence
<1>3. /\ Founded' /\ HandedFirst'
      /\ \A t \in Task : Accepted(records, t) => Accepted(records', t)
      /\ \A p \in Phase :
           records.closure[p] # NoDigest => records'.closure[p] = records.closure[p]
  BY <1>1, <1>2, JudgementKeeps
<1>4. OnItsPhase'
  BY <1>1, <1>3, OnItsPhaseStep
<1>5. EndedLast'
  <2> SUFFICES ASSUME ended', NEW p \in Phase PROVE records'.closure[p] # NoDigest
    BY DEF EndedLast
  <2>1. CASE ended
    BY <1>3, <2>1 DEF Evidence, EndedLast
  <2>2. CASE ~ended
    <3>1. PICK x \in Driver : RecordFinished(x)
      BY <2>2 DEF Next, DriverStep, CloseEnded, DispatchMember, RetryAborted, CarryAnswers,
         MarkAnswered, RetrySpent, DeliverFact, ReadGate, MeasureRed, MeasureGreen, Close,
         StartNext, OpenAttempt, SatisfyRequirements, Stop, StartAgent, StartByHand,
         AgentHandsIn, AgentAsks, AgentReturns, BridgeAccepts, ExecuteCompletion, Steer,
         Answer, DecideCandidate
    <3>2. records.phase = LastPhase /\ Closed(records) /\ records' = records
      BY <3>1 DEF RecordFinished, Finished
    <3>3. p = LastPhase \/ p < LastPhase
      BY PhasesNumbered
    <3> QED
      BY <3>2, <3>3 DEF Evidence, InOrder, Closed
  <2> QED
    BY <2>1, <2>2
<1> QED
  BY <1>1, <1>3, <1>4, <1>5 DEF Evidence, Founded

LEMMA EvidenceStutter ==
  ASSUME Evidence, UNCHANGED vars
  PROVE  Evidence'
<1>1. UNCHANGED <<records, broker, turn, answers, steered, queued, driver, ended>>
  BY DEF vars
<1>2. Typed'
  BY TypedStutter DEF Evidence
<1>3. Judged' /\ Settled' /\ HandedFirst' /\ InOrder'
  BY <1>1 DEF Evidence, Judged, Settled, HandedFirst, InOrder
<1>4. OnItsPhase' /\ EndedLast'
  BY <1>1 DEF Evidence, OnItsPhase, Measuring, EndedLast
<1> QED
  BY <1>2, <1>3, <1>4 DEF Evidence

LEMMA EvidenceAlways == Spec => []Evidence
<1>1. Init => Evidence
  BY EvidenceInitially
<1>2. Evidence /\ [Next]_vars => Evidence'
  BY EvidenceStep, EvidenceStutter
<1> QED
  BY <1>1, <1>2, PTL DEF Spec

\* A phase closes on a candidate that covers each of its tasks with the
\* completion the authority still holds, one that was handed in, and that a
\* person approved where one must (closePhase, with two drivers, a bridge and
\* late agents in between, any of them holding what it read long ago).
THEOREM PhasesCloseOnTheirEvidence == Spec => []ClosedOnItsEvidence
<1>1. ASSUME Evidence PROVE ClosedOnItsEvidence
  <2> SUFFICES ASSUME NEW p \in Phase, records.closure[p] # NoDigest
               PROVE  /\ records.closure[p].work = AssessedWork(records, p)
                      /\ \A t \in Tasks(p) :
                           [task |-> t, ordinal |-> records.closure[p].work[t]] \in broker.handed
                      /\ NeedsDecision => records.decision[p] =
                           [made |-> "approve", on |-> records.closure[p]]
    BY DEF ClosedOnItsEvidence
  <2>1. /\ records.closure[p].work = AssessedWork(records, p)
        /\ \A t \in Tasks(p) : Accepted(records, t)
        /\ NeedsDecision => records.decision[p] =
             [made |-> "approve", on |-> records.closure[p]]
    BY <1>1 DEF Evidence, Settled
  <2>2. ASSUME NEW t \in Tasks(p)
        PROVE  [task |-> t, ordinal |-> records.closure[p].work[t]] \in broker.handed
    <3>1. t \in Task
      BY OnePhaseEach
    <3>2. records.closure[p].work[t] = records.assessed[t]
      BY <2>1, <3>1 DEF AssessedWork
    <3> QED
      BY <1>1, <2>1, <3>1, <3>2 DEF Evidence, HandedFirst
  <2> QED
    BY <2>1, <2>2
<1> QED
  BY <1>1, EvidenceAlways, PTL

\* A run recorded as ended has closed every phase, and no attempt is called
\* open whose task is still to be done (recordRunFinished).
THEOREM EndedRunsAreComplete == Spec => []EndedIsComplete
<1>1. ASSUME Evidence PROVE EndedIsComplete
  <2> SUFFICES ASSUME ended
               PROVE  /\ \A p \in Phase : records.closure[p] # NoDigest
                      /\ \A d \in Dispatch :
                           records.attempts[d] = "opened" => Accepted(records, d.task)
    BY DEF EndedIsComplete
  <2>1. \A p \in Phase : records.closure[p] # NoDigest
    BY <1>1 DEF Evidence, EndedLast
  <2>2. ASSUME NEW t \in Task PROVE Accepted(records, t)
    <3>1. PhaseOf(t) \in Phase /\ t \in Tasks(PhaseOf(t))
      BY OnePhaseEach
    <3> QED
      BY <1>1, <2>1, <3>1 DEF Evidence, Settled
  <2> QED
    BY <2>1, <2>2, DispatchFields
<1> QED
  BY <1>1, EvidenceAlways, PTL

\* The records of a run are a ledger of its phases: taken in order, judged on
\* the work of all their tasks, closed once on work judged good, and only then
\* followed by the next; only the judgement of bad work is ever withdrawn
\* (RuntimeAuthority's commands, in whatever order drivers give them).
THEOREM RunKeepsTheLedger == Spec => LedgerSpec
<1> DEFINE seen == <<records.phase, records.candidate, records.verdict = "accepted",
                     records.closure>>
<1>1. Init => Ledger!Init
  BY DEF Init, RecordsInit, Ledger!Init
<1>2. ASSUME Evidence, Next PROVE Ledger!Next \/ UNCHANGED seen
  <2>1. Typed /\ Founded /\ HandedFirst /\ OnItsPhase /\ JudgementMoves /\ Grows
    BY <1>2, JudgementStep, TypedStep DEF Evidence, Founded
  <2>2. CASE SameJudgement(records, records')
    BY <2>2 DEF SameJudgement
  <2>3. ASSUME NEW d \in broker.handed, Assesses(records, records', d)
        PROVE  Ledger!Next \/ UNCHANGED seen
    <3>1. d \in Dispatch
      BY <2>1, BrokerFields DEF Typed
    <3>2. /\ records'.candidate = NoDigest /\ records'.phase = records.phase
          /\ records'.closure = records.closure
          /\ records.candidate = NoDigest \/ records.verdict = "rejected"
          /\ records'.verdict = IF RejectedCandidate(records) THEN "none" ELSE records.verdict
      BY <2>1, <2>3, <3>1, AssessingIsOpen DEF Assesses, Founded
    <3>3. CASE records.candidate = NoDigest
      <4>1. records'.verdict = records.verdict
        BY <3>2, <3>3 DEF RejectedCandidate
      <4> QED
        BY <3>2, <3>3, <4>1
    <3>4. CASE records.candidate # NoDigest /\ records.verdict = "rejected"
      <4>1. records'.verdict = "none"
        BY <3>2, <3>4 DEF RejectedCandidate
      <4>2. Ledger!Withdraw
        BY <3>2, <3>4, <4>1 DEF Ledger!Withdraw
      <4> QED
        BY <4>2 DEF Ledger!Next
    <3> QED
      BY <3>2, <3>3, <3>4
  <2>4. ASSUME NEW x \in Driver, NEW v \in {"accepted", "rejected"}, driver[x].at = "gating",
               Judges(records, records', driver[x].on, v),
               SameCandidate(records, driver[x].phase, driver[x].on)
        PROVE  Ledger!Next
    <3>1. records.closure[records.phase] = NoDigest
      BY <2>1, <2>4, JudgingFounded
    <3>2. driver[x].on \in Digest
      BY <2>1, <2>4, DriverFields
    <3>3. Ledger!Judge(driver[x].on, v = "accepted")
      BY <2>4, <3>1 DEF Ledger!Judge, Judges
    <3>4. (v = "accepted") \in BOOLEAN
      OBVIOUS
    <3> QED
      BY <3>2, <3>3, <3>4 DEF Ledger!Next
  <2>5. ASSUME NEW made \in {"approve", "reject"}, MayDecide(records),
               records' = Decide(records, made)
        PROVE  UNCHANGED seen
    BY <2>1, <2>5, DecidingFounded
  <2>6. ASSUME NEW x \in Driver, driver[x].at = "closing",
               Closes(records, records', driver[x].phase, driver[x].on)
        PROVE  Ledger!Next
    <3>1. /\ driver[x].phase = records.phase /\ records.candidate = driver[x].on
          /\ records.verdict = "accepted" /\ records.closure[records.phase] = NoDigest
      BY <2>1, <2>6, ClosingFounded
    <3>2. Ledger!Close
      BY <2>6, <3>1 DEF Ledger!Close, Closes
    <3> QED
      BY <3>2 DEF Ledger!Next
  <2>7. ASSUME NEW x \in Driver, driver[x].at = "starting",
               MayStart(records, driver[x].phase + 1),
               records' = StartPhase(records, driver[x].phase + 1)
        PROVE  Ledger!Next
    <3>1. /\ Closed(records)
          /\ records'.phase = records.phase + 1 /\ records.phase + 1 \in Phase
          /\ records'.candidate = NoDigest /\ records'.verdict = "none"
          /\ records'.closure = records.closure
      BY <2>1, <2>7, StartingFounded
    <3>2. Ledger!Advance
      BY <3>1 DEF Ledger!Advance, Closed
    <3> QED
      BY <3>2 DEF Ledger!Next
  <2> QED
    BY <2>1, <2>2, <2>3, <2>4, <2>5, <2>6, <2>7 DEF JudgementMoves
<1>3. Evidence /\ [Next]_vars => [Ledger!Next]_seen
  <2>1. ASSUME UNCHANGED vars PROVE UNCHANGED seen
    BY <2>1 DEF vars
  <2> QED
    BY <1>2, <2>1
<1> QED
  BY <1>1, <1>3, EvidenceAlways, PTL DEF Spec, LedgerSpec, Ledger!Spec

----------------------------------------------------------------------------
(* Answers                                                                  *)

\* What a dispatch is to carry was asked by an earlier one of its task.
Carrying ==
  \A x \in Driver : Dispatching(x) =>
    \A q \in driver[x].carries :
      /\ q \in DOMAIN answers
      /\ q.dispatch.task = driver[x].dispatch.task
      /\ q.dispatch.ordinal < driver[x].dispatch.ordinal

Forward == Typed /\ Carrying /\ AnswersGoForward

\* How an answer comes to be carried.
AnswersMove ==
  /\ DOMAIN answers \subseteq DOMAIN answers'
  /\ \A q \in DOMAIN answers' :
       \/ answers'[q] = NoDispatch
       \/ q \in DOMAIN answers /\ answers'[q] = answers[q]
       \/ \E x \in Driver : /\ driver[x].at = "carrying" /\ q \in driver[x].carries
                            /\ answers'[q] = driver[x].dispatch
       \/ LET d == Business(records.phase) IN
          /\ Untouched = {} /\ q \in DOMAIN answers
          /\ q.dispatch.task = d.task /\ q.dispatch # d /\ answers'[q] = d

LEMMA AnswersStep ==
  ASSUME Typed, Next
  PROVE  AnswersMove
<1>1. ASSUME UNCHANGED answers PROVE AnswersMove
  BY <1>1 DEF AnswersMove
<1>2. ASSUME NEW x \in Driver, MarkAnswered(x) PROVE AnswersMove
  <2>1. PICK q \in UndeliveredTo(Business(records.phase).task) :
          /\ q.dispatch # Business(records.phase)
          /\ answers' = [answers EXCEPT ![q] = Business(records.phase)]
    BY <1>2 DEF MarkAnswered
  <2>2. Untouched = {}
    BY <1>2 DEF MarkAnswered, Reads
  <2>3. q \in DOMAIN answers /\ q.dispatch.task = Business(records.phase).task
    BY <2>1 DEF UndeliveredTo
  <2> QED
    BY <2>1, <2>2, <2>3 DEF AnswersMove
<1>3. ASSUME NEW x \in Driver, SatisfyRequirements(x) PROVE AnswersMove
  BY <1>3 DEF SatisfyRequirements, AnswersMove
<1>4. ASSUME NEW q \in broker.questions, Answer(q) PROVE AnswersMove
  BY <1>4 DEF Answer, AnswersMove
<1>5. ASSUME NEW x \in Driver, DriverStep(x), ~MarkAnswered(x), ~SatisfyRequirements(x)
      PROVE  AnswersMove
  BY <1>1, <1>5 DEF DriverStep, CloseEnded, DispatchMember, RetryAborted, CarryAnswers,
     RetrySpent, DeliverFact, ReadGate, MeasureRed, MeasureGreen, Close, StartNext,
     OpenAttempt, Stop, RecordFinished
<1>6. ASSUME NEW d \in broker.dispatches, DispatchStep(d) PROVE AnswersMove
  BY <1>1, <1>6 DEF DispatchStep, StartAgent, StartByHand, AgentHandsIn, AgentAsks,
     AgentReturns, BridgeAccepts, ExecuteCompletion, Steer
<1>7. ASSUME NEW made \in {"approve", "reject"}, DecideCandidate(made) PROVE AnswersMove
  BY <1>1, <1>7 DEF DecideCandidate
<1> QED
  BY <1>2, <1>3, <1>4, <1>5, <1>6, <1>7, StepKinds DEF DriverStep

\* The dispatch of the phase's business handed work in, or is the newest.
LEMMA BusinessIsNewest ==
  ASSUME Typed, Untouched = {}
  PROVE  LET d == Business(records.phase) IN
         \/ d \in broker.handed
         \/ /\ d = Newest(Of(broker, d.task))
            /\ \A e \in Of(broker, d.task) : e.ordinal <= d.ordinal
<1> DEFINE d == Business(records.phase)
<1>1. d = CurrentOf(d.task) /\ Of(broker, d.task) # {}
  BY BusinessIs
<1>2. BrokerOK
  BY DEF Typed
<1> HIDE DEF d
<1>3. \/ CurrentOf(d.task) \in broker.handed
      \/ /\ CurrentOf(d.task) = Newest(Of(broker, d.task))
         /\ \A e \in Of(broker, d.task) : e.ordinal <= Newest(Of(broker, d.task)).ordinal
  BY <1>1, <1>2, CurrentIs
<1> QED
  BY <1>1, <1>3 DEF d

LEMMA CarryingStep ==
  ASSUME Forward, Next
  PROVE  Carrying'
<1> SUFFICES ASSUME NEW x \in Driver, driver'[x].at \in {"opening", "carrying"},
                    NEW q \in driver'[x].carries
             PROVE  /\ q \in DOMAIN answers'
                    /\ q.dispatch.task = driver'[x].dispatch.task
                    /\ q.dispatch.ordinal < driver'[x].dispatch.ordinal
  BY DEF Carrying, Dispatching
<1>1. Typed /\ Carrying /\ DOMAIN answers \subseteq DOMAIN answers' /\ BrokerOK /\ AnswersOK
  BY AnswersStep DEF Forward, AnswersMove, Typed
<1>2. DriverMoves(x)
  BY <1>1, DriverStepMoves
<1>3. CASE driver'[x] = driver[x]
  BY <1>1, <1>3 DEF Carrying, Dispatching
<1>4. CASE /\ driver[x].at = "opening" /\ driver'[x].dispatch = driver[x].dispatch
           /\ driver'[x].carries = driver[x].carries
  BY <1>1, <1>4 DEF Carrying, Dispatching
<1>5. CASE LET d == Business(records.phase) IN
           /\ Reads(x) /\ UNCHANGED answers
           /\ driver'[x].at = "opening" /\ driver'[x].dispatch = After(d)
           /\ driver'[x].carries = UndeliveredTo(d.task)
  <2> DEFINE d == Business(records.phase)
  <2>1. Untouched = {}
    BY <1>5 DEF Reads
  <2>2. d \in Dispatch /\ d.task \in Tasks(records.phase)
    BY <1>1, <2>1, BusinessIs
  <2> HIDE DEF d
  <2>3. q \in DOMAIN answers /\ q.dispatch.task = d.task
    BY <1>5 DEF UndeliveredTo, d
  <2>4. q.dispatch \in Of(broker, d.task)
    BY <1>1, <2>3, BrokerFields DEF AnswersOK, Of
  <2>5. q.dispatch.ordinal < After(d).ordinal /\ After(d).task = d.task
    BY <1>1, <2>2, <2>4, AfterIs
  <2> QED
    BY <1>5, <2>3, <2>5 DEF d
<1> QED
  BY <1>2, <1>3, <1>4, <1>5 DEF DriverMoves, Measured, Idle

LEMMA ForwardStep ==
  ASSUME Forward, Next
  PROVE  Forward'
<1>1. Typed' /\ Grows /\ Carrying' /\ AnswersMove /\ Typed /\ Carrying /\ AnswersGoForward
  BY TypedStep, CarryingStep, AnswersStep DEF Forward
<1>2. ASSUME NEW q \in DOMAIN answers', answers'[q] # NoDispatch
      PROVE  /\ answers'[q] # q.dispatch /\ answers'[q].task = q.dispatch.task
             /\ answers'[q].ordinal > q.dispatch.ordinal \/ answers'[q] \in broker'.handed
  <2>1. CASE q \in DOMAIN answers /\ answers'[q] = answers[q]
    BY <1>1, <1>2, <2>1 DEF AnswersGoForward, Grows
  <2>2. ASSUME NEW x \in Driver, driver[x].at = "carrying", q \in driver[x].carries,
               answers'[q] = driver[x].dispatch
        PROVE  /\ answers'[q] # q.dispatch /\ answers'[q].task = q.dispatch.task
               /\ answers'[q].ordinal > q.dispatch.ordinal
    <3>1. /\ q \in DOMAIN answers /\ q.dispatch.task = driver[x].dispatch.task
          /\ q.dispatch.ordinal < driver[x].dispatch.ordinal
      BY <1>1, <2>2 DEF Carrying, Dispatching
    <3>2. q.dispatch \in Dispatch /\ driver[x].dispatch \in Dispatch
      BY <1>1, <2>2, <3>1, BrokerFields, DriverFields DEF Typed, AnswersOK
    <3>3. q.dispatch.ordinal \in Nat /\ driver[x].dispatch.ordinal \in Nat
      BY <3>2, DispatchFields
    <3> QED
      BY <2>2, <3>1, <3>3
  <2>3. CASE LET d == Business(records.phase) IN
             /\ Untouched = {} /\ q \in DOMAIN answers
             /\ q.dispatch.task = d.task /\ q.dispatch # d /\ answers'[q] = d
    <3> DEFINE d == Business(records.phase)
    <3>1. d \in Dispatch
      BY <1>1, <2>3, BusinessIs
    <3>2. d \in broker.handed \/ \A e \in Of(broker, d.task) : e.ordinal <= d.ordinal
      BY <1>1, <2>3, BusinessIsNewest
    <3> HIDE DEF d
    <3>3. /\ q \in DOMAIN answers /\ q.dispatch.task = d.task /\ q.dispatch # d
          /\ answers'[q] = d
      BY <2>3 DEF d
    <3>4. q.dispatch \in Of(broker, d.task) /\ q.dispatch \in Dispatch
      BY <1>1, <3>3, BrokerFields DEF AnswersOK, Of, Typed
    <3>5. CASE d \in broker.handed
      BY <1>1, <3>3, <3>5 DEF Grows
    <3>6. CASE \A e \in Of(broker, d.task) : e.ordinal <= d.ordinal
      <4>1. q.dispatch.ordinal <= d.ordinal
        BY <3>4, <3>6
      <4>2. q.dispatch.ordinal # d.ordinal
        BY <3>1, <3>3, <3>4, DispatchFields
      <4>3. q.dispatch.ordinal \in Nat /\ d.ordinal \in Nat
        BY <3>1, <3>4, DispatchFields
      <4>4. d.ordinal > q.dispatch.ordinal
        BY <4>1, <4>2, <4>3
      <4> QED
        BY <3>3, <4>4
    <3> QED
      BY <3>2, <3>5, <3>6
  <2> QED
    BY <1>1, <1>2, <2>1, <2>2, <2>3 DEF AnswersMove
<1>3. AnswersGoForward'
  BY <1>2 DEF AnswersGoForward
<1> QED
  BY <1>1, <1>3 DEF Forward

\* An answer marked as delivered is carried by another attempt of the task
\* that asked: a later one, or one that has handed the work in, so that nobody
\* waits for it (satisfyFreshDispatchRequirement; drivers may die or overtake
\* each other between the dispatch and the mark).
THEOREM AnswersReachALaterAttempt == Spec => []AnswersGoForward
<1>1. Init => Forward
  <2> SUFFICES ASSUME Init PROVE Forward
    OBVIOUS
  <2>1. Typed
    BY TypedInitially
  <2>2. DOMAIN answers = {} /\ \A x \in Driver : driver[x].at = "idle"
    BY DEF Init, Idle
  <2> QED
    BY <2>1, <2>2 DEF Forward, Carrying, Dispatching, AnswersGoForward
<1>2. ASSUME Forward, UNCHANGED vars PROVE Forward'
  <2>1. Typed'
    BY <1>2, TypedStutter DEF Forward
  <2> QED
    BY <1>2, <2>1 DEF Forward, vars, Carrying, Dispatching, AnswersGoForward
<1>3. Forward /\ [Next]_vars => Forward'
  BY <1>2, ForwardStep
<1>4. Forward => AnswersGoForward
  BY DEF Forward
<1> QED
  BY <1>1, <1>3, <1>4, PTL DEF Spec

----------------------------------------------------------------------------
(* Scopes: who holds a task, and why another attempt takes it               *)

\* The attempt that holds a task is its newest.
HolderIsNewest ==
  \A t \in Task :
    /\ \A d \in Of(broker, t) : d.ordinal <= broker.holder[t]
    /\ broker.holder[t] # 0 => [task |-> t, ordinal |-> broker.holder[t]] \in broker.dispatches

\* An attempt that handed in loses its task only after the work was accepted.
Superseded == \A d \in broker.handed : Stale(broker, d) => Accepted(records, d.task)

\* While an agent the scheduler started holds its task, nobody else's work is
\* there for it.
Alone ==
  \A d \in broker.dispatches :
    turn[d] = "working" /\ ~Stale(broker, d) =>
      Of(broker, d.task) \cap broker.handed \subseteq {d}
Turned == \A d \in Dispatch : turn[d] # "none" => d \in broker.dispatches

\* An attempt is recorded as over for a reason that lasts.
OverForGood(d) ==
  \/ Asked(d) \/ d \in broker.handed \/ d \in steered
  \/ Accepted(records, d.task) \/ turn[d] = "returned"
Witnessed ==
  \A d \in Dispatch : records.attempts[d] \notin {"unknown", "opened"} => OverForGood(d)

\* Help is asked for with tasks that were all accepted.
Exhausted == \A q \in broker.questions : q.kind = "exhausted" => Accepted(records, q.dispatch.task)

Scoped ==
  /\ Evidence /\ HolderIsNewest /\ Superseded /\ Alone /\ Turned /\ Witnessed /\ Exhausted

\* Why a driver registers another dispatch.
First(d) ==
  LET members == Members[records.phase]
      i == Min({j \in DOMAIN members : members[j] \in Untouched}) IN
  Untouched # {} /\ d = [task |-> members[i], ordinal |-> i]
Again(d, b) ==
  /\ Untouched = {} /\ b = Business(records.phase) /\ d = After(b)
  /\ \/ AbortRetries(b)
     \/ CarriesAnswers(b)
     \/ GoesOn(b) /\ Spent(b)
Retried(x, d) ==
  /\ driver[x].at \in {"gating", "closing"}
  /\ d = RetryOf(driver[x])

SameScopes ==
  broker'.dispatches = broker.dispatches /\ broker'.holder = broker.holder
Registers(d) ==
  /\ MayRegister(broker, d) /\ broker' = Register(broker, d)
  /\ UNCHANGED <<turn, answers, steered>>
BrokerMoves ==
  \/ SameScopes
  \/ \E x \in Driver, d \in Dispatch :
       /\ Registers(d) /\ driver'[x].at = "opening" /\ driver'[x].dispatch = d
       /\ \/ First(d)
          \/ /\ \E b \in Dispatch : Again(d, b)
             /\ driver'[x].carries = {} =>
                  Tries(d.task) < MaxAttempts[records.phase]
          \/ Retried(x, d) /\ Retries(driver[x])

LEMMA DispatchRegisters ==
  ASSUME Typed, NEW x \in Driver, NEW d, NEW carries, DispatchAs(x, d, carries)
  PROVE  \/ UNCHANGED broker
         \/ /\ MayRegister(broker, d) /\ broker' = Register(broker, d)
            /\ driver'[x].at = "opening" /\ driver'[x].dispatch = d
            /\ driver'[x].carries = carries
BY DEF DispatchAs, At, Typed, DriversOK

LEMMA BrokerStep ==
  ASSUME Typed, Next
  PROVE  BrokerMoves
<1>1. BrokerOK
  BY DEF Typed
<1>2. ASSUME UNCHANGED broker PROVE BrokerMoves
  BY <1>2 DEF BrokerMoves, SameScopes
<1>3. ASSUME NEW x \in Driver, DispatchMember(x) PROVE BrokerMoves
  <2> DEFINE members == Members[records.phase]
             i == Min({j \in DOMAIN members : members[j] \in Untouched})
             d == [task |-> members[i], ordinal |-> i]
  <2>1. Untouched # {} /\ DispatchAs(x, d, {}) /\ UNCHANGED <<turn, answers, steered>>
    BY <1>3 DEF DispatchMember
  <2>2. d \in Dispatch
    BY <2>1, FirstMemberIs
  <2>3. First(d)
    BY <2>1 DEF First
  <2> HIDE DEF d
  <2> QED
    BY <1>2, <2>1, <2>2, <2>3, DispatchRegisters DEF BrokerMoves, Registers
<1>4. ASSUME NEW x \in Driver, NEW b, b = Business(records.phase), Reads(x),
             After(b) \in Dispatch, NEW carries, DispatchAs(x, After(b), carries),
             AbortRetries(b) \/ CarriesAnswers(b) \/ (GoesOn(b) /\ Spent(b)),
             carries = {} => Tries(b.task) < MaxAttempts[records.phase],
             UNCHANGED <<turn, answers, steered>>
      PROVE  BrokerMoves
  <2>1. Untouched = {}
    BY <1>4 DEF Reads
  <2>2. b \in Dispatch
    BY <1>4, <2>1, BusinessIs
  <2>3. Again(After(b), b) /\ After(b).task = b.task
    BY <1>4, <2>1 DEF Again, After
  <2> QED
    BY <1>2, <1>4, <2>2, <2>3, DispatchRegisters DEF BrokerMoves, Registers
<1>5. ASSUME NEW x \in Driver, RetryAborted(x) PROVE BrokerMoves
  BY <1>2, <1>4, <1>5 DEF RetryAborted, Dies, AbortRetries
<1>6. ASSUME NEW x \in Driver, CarryAnswers(x) PROVE BrokerMoves
  BY <1>4, <1>6 DEF CarryAnswers, CarriesAnswers
<1>7. ASSUME NEW x \in Driver, RetrySpent(x) PROVE BrokerMoves
  BY <1>4, <1>7 DEF RetrySpent
<1>8. ASSUME NEW x \in Driver, driver[x].at \in {"gating", "closing"}, Retries(driver[x]),
             RetryOf(driver[x]) \in Dispatch, DispatchAs(x, RetryOf(driver[x]), {}),
             UNCHANGED <<turn, answers, steered>>
      PROVE  BrokerMoves
  BY <1>2, <1>8, DispatchRegisters DEF BrokerMoves, Registers, Retried
<1>9. ASSUME NEW x \in Driver, MeasureRed(x) PROVE BrokerMoves
  <2>1. CASE Retries(driver[x]) /\ RetryOf(driver[x]) \in Dispatch
             /\ DispatchAs(x, RetryOf(driver[x]), {})
    BY <1>8, <1>9, <2>1 DEF MeasureRed
  <2>2. CASE broker' = IF NeedsHelp(driver[x]) THEN AddQuestion(broker, Help(driver[x]))
                                               ELSE broker
    <3>1. SameScopes
      BY <1>1, <2>2 DEF AddQuestion, SameScopes, BrokerOK, BrokerType
    <3> QED
      BY <3>1 DEF BrokerMoves
  <2>3. CASE Dies(x)
    BY <1>2, <2>3 DEF Dies
  <2> QED
    BY <1>9, <2>1, <2>2, <2>3 DEF MeasureRed
<1>10. ASSUME NEW x \in Driver, Close(x) PROVE BrokerMoves
  BY <1>2, <1>8, <1>10 DEF Close, Dies
<1>11. ASSUME NEW x \in Driver,
              \/ CloseEnded(x) \/ MarkAnswered(x) \/ DeliverFact(x) \/ ReadGate(x)
              \/ MeasureGreen(x) \/ StartNext(x) \/ OpenAttempt(x)
              \/ SatisfyRequirements(x) \/ Stop(x) \/ RecordFinished(x)
       PROVE  BrokerMoves
  BY <1>2, <1>11 DEF CloseEnded, MarkAnswered, DeliverFact, ReadGate, MeasureGreen,
     StartNext, OpenAttempt, SatisfyRequirements, Stop, RecordFinished
<1>12. ASSUME NEW d \in broker.dispatches, DispatchStep(d) PROVE BrokerMoves
  <2>1. \/ UNCHANGED broker
        \/ broker' \in {HandIn(broker, d), Deliver(HandIn(broker, d), d), Deliver(broker, d)}
        \/ \E q : broker' = AddQuestion(broker, q)
    BY <1>12 DEF DispatchStep, StartAgent, StartByHand, AgentHandsIn, AgentAsks,
       AgentReturns, BridgeAccepts, ExecuteCompletion, Steer
  <2>2. SameScopes
    BY <1>1, <2>1 DEF HandIn, Deliver, AddQuestion, SameScopes, BrokerOK, BrokerType
  <2> QED
    BY <2>2 DEF BrokerMoves
<1>13. ASSUME NEW q \in broker.questions, Answer(q) PROVE BrokerMoves
  BY <1>2, <1>13 DEF Answer
<1>14. ASSUME NEW made \in {"approve", "reject"}, DecideCandidate(made) PROVE BrokerMoves
  BY <1>2, <1>14 DEF DecideCandidate
<1> QED
  BY <1>3, <1>5, <1>6, <1>7, <1>9, <1>10, <1>11, <1>12, <1>13, <1>14, StepKinds

\* The holder of a task is the newest of its dispatches.
LEMMA HolderIs ==
  ASSUME Typed, HolderIsNewest, NEW d \in broker.dispatches
  PROVE  /\ d \in Dispatch /\ d.task \in Task
         /\ ~Stale(broker, d) <=> \A e \in Of(broker, d.task) : e.ordinal <= d.ordinal
         /\ \A e \in Of(broker, d.task) : ~Stale(broker, d) /\ ~Stale(broker, e) => e = d
<1>1. d \in Dispatch /\ d.task \in Task /\ d.ordinal \in Nat \ {0}
  BY BrokerFields, DispatchFields DEF Typed
<1> DEFINE h == broker.holder[d.task]
<1>2. h \in Nat
  BY <1>1, BrokerFields, DispatchFields DEF Typed
<1>3. /\ \A e \in Of(broker, d.task) : e.ordinal <= h
      /\ h # 0 => [task |-> d.task, ordinal |-> h] \in broker.dispatches
  BY <1>1 DEF HolderIsNewest
<1>4. d \in Of(broker, d.task)
  BY DEF Of
<1>5. [task |-> d.task, ordinal |-> h] \in Of(broker, d.task)
  <2>1. h # 0
    BY <1>1, <1>2, <1>3, <1>4
  <2> QED
    BY <1>3, <2>1 DEF Of
<1>6. ~Stale(broker, d) <=> h = d.ordinal
  BY DEF Stale
<1>7. ~Stale(broker, d) <=> \A e \in Of(broker, d.task) : e.ordinal <= d.ordinal
  <2>1. ASSUME \A e \in Of(broker, d.task) : e.ordinal <= d.ordinal PROVE h = d.ordinal
    <3>1. h <= d.ordinal
      BY <1>5, <2>1
    <3>2. d.ordinal <= h
      BY <1>3, <1>4
    <3> QED
      BY <1>1, <1>2, <3>1, <3>2
  <2> QED
    BY <1>3, <1>6, <2>1
<1>8. ASSUME NEW e \in Of(broker, d.task), ~Stale(broker, d), ~Stale(broker, e) PROVE e = d
  <2>1. e.task = d.task /\ e \in Dispatch
    BY BrokerFields DEF Of, Typed
  <2>2. e.ordinal = d.ordinal
    BY <1>8, <2>1 DEF Stale
  <2> QED
    BY <1>1, <2>1, <2>2, DispatchFields
<1> QED
  BY <1>1, <1>7, <1>8

\* The only step that changes the holders makes the new dispatch hold its task.
LEMMA RegisteredScopes ==
  ASSUME Typed, NEW d \in Dispatch, Registers(d)
  PROVE  /\ d \notin broker.dispatches
         /\ broker'.dispatches = broker.dispatches \cup {d}
         /\ broker'.handed = broker.handed
         /\ \A t \in Task : t # d.task => broker'.holder[t] = broker.holder[t]
         /\ broker'.holder[d.task] = d.ordinal /\ broker.holder[d.task] < d.ordinal
         /\ \A e \in broker.dispatches : e.task # d.task => Stale(broker', e) = Stale(broker, e)
         /\ ~Stale(broker', d)
<1>1. /\ broker'.dispatches = broker.dispatches \cup {d}
      /\ broker'.holder = [broker.holder EXCEPT ![d.task] = d.ordinal]
      /\ broker'.handed = broker.handed
  BY RegisterDoes DEF Registers, Typed
<1>2. broker.holder \in [Task -> 0 .. MaxOrdinal] /\ d.task \in Task
  BY BrokerFields, DispatchFields DEF Typed
<1>3. d \notin broker.dispatches
  <2> SUFFICES ASSUME d \in broker.dispatches PROVE FALSE
    OBVIOUS
  <2>1. d \in OfPhase(broker, PhaseOf(d.task))
    BY <1>2, OnePhaseEach DEF OfPhase
  <2> QED
    BY <2>1 DEF Registers, MayRegister
<1>4. broker.holder[d.task] < d.ordinal
  BY DEF Registers, MayRegister
<1>5. /\ broker'.holder[d.task] = d.ordinal
      /\ \A t \in Task : t # d.task => broker'.holder[t] = broker.holder[t]
  BY <1>1, <1>2
<1>6. \A e \in broker.dispatches : e.task \in Task
  BY BrokerFields, DispatchFields DEF Typed
<1> QED
  BY <1>1, <1>3, <1>4, <1>5, <1>6 DEF Stale

LEMMA HolderStep ==
  ASSUME Typed, HolderIsNewest, BrokerMoves
  PROVE  HolderIsNewest'
<1>1. CASE SameScopes
  BY <1>1 DEF SameScopes, HolderIsNewest, Of
<1>2. ASSUME NEW d \in Dispatch, Registers(d) PROVE HolderIsNewest'
  <2> SUFFICES ASSUME NEW t \in Task
               PROVE  /\ \A e \in Of(broker', t) : e.ordinal <= broker'.holder[t]
                      /\ broker'.holder[t] # 0 =>
                           [task |-> t, ordinal |-> broker'.holder[t]] \in broker'.dispatches
    BY DEF HolderIsNewest
  <2>1. /\ broker'.dispatches = broker.dispatches \cup {d}
        /\ \A u \in Task : u # d.task => broker'.holder[u] = broker.holder[u]
        /\ broker'.holder[d.task] = d.ordinal /\ broker.holder[d.task] < d.ordinal
    BY <1>2, RegisteredScopes
  <2>2. CASE t # d.task
    <3>1. Of(broker', t) = Of(broker, t)
      BY <2>1, <2>2 DEF Of
    <3> QED
      BY <2>1, <2>2, <3>1 DEF HolderIsNewest
  <2>3. CASE t = d.task
    <3>1. [task |-> t, ordinal |-> d.ordinal] \in broker'.dispatches
      BY <2>1, <2>3, DispatchFields
    <3>2. ASSUME NEW e \in Of(broker', t) PROVE e.ordinal <= d.ordinal
      <4>1. e = d \/ e \in Of(broker, t)
        BY <2>1 DEF Of
      <4>2. CASE e = d
        BY <4>2, DispatchFields
      <4>3. CASE e \in Of(broker, t)
        <5>1. e.ordinal <= broker.holder[t] /\ e \in Dispatch
          BY <4>3, BrokerFields DEF HolderIsNewest, Typed
        <5>2. e.ordinal \in Nat /\ d.ordinal \in Nat /\ broker.holder[t] \in Nat
          BY <5>1, DispatchFields, BrokerFields DEF Typed
        <5> QED
          BY <2>1, <2>3, <5>1, <5>2
      <4> QED
        BY <4>1, <4>2, <4>3
    <3> QED
      BY <2>1, <2>3, <3>1, <3>2
  <2> QED
    BY <2>2, <2>3
<1> QED
  BY <1>1, <1>2 DEF BrokerMoves

\* A task that has an attempt is taken from its holder when its work was
\* accepted, or when the holder has handed nothing in and was aborted or is
\* not on record as open.
LEMMA WhyTaken ==
  ASSUME Scoped, NEW x \in Driver, NEW d \in Dispatch,
         First(d) \/ (\E b \in Dispatch : Again(d, b)) \/ Retried(x, d),
         NEW e \in broker.dispatches, e.task = d.task, ~Stale(broker, e)
  PROVE  \/ Accepted(records, e.task)
         \/ e \notin broker.handed /\ (e \in steered \/ records.attempts[e] # "opened")
<1>1. /\ Typed /\ Evidence /\ HolderIsNewest /\ Exhausted /\ OnItsPhase /\ AnswersOK
      /\ e \in Of(broker, e.task)
  BY DEF Scoped, Evidence, Typed, Of
<1>2. CASE First(d)
  <2> DEFINE members == Members[records.phase]
             i == Min({j \in DOMAIN members : members[j] \in Untouched})
  <2>1. Untouched # {} /\ d.task = members[i]
    BY <1>2 DEF First
  <2>2. members[i] \in Untouched
    BY <1>1, <2>1, FirstMemberIs
  <2> HIDE DEF i
  <2>3. Of(broker, e.task) = {}
    BY <2>1, <2>2 DEF Untouched
  <2> QED
    BY <1>1, <2>3
<1>3. ASSUME NEW b \in Dispatch, Again(d, b)
      PROVE  \/ Accepted(records, e.task)
             \/ e \notin broker.handed /\ (e \in steered \/ records.attempts[e] # "opened")
  <2>1. /\ Untouched = {} /\ b = Business(records.phase) /\ d.task = b.task
        /\ AbortRetries(b) \/ CarriesAnswers(b) \/ (GoesOn(b) /\ Spent(b))
    BY <1>3 DEF Again, After
  <2>2. b \in broker.dispatches /\ b.task = e.task
    BY <1>1, <2>1, BusinessIs
  <2>3. b \notin broker.handed => b = e
    <3> SUFFICES ASSUME b \notin broker.handed PROVE b = e
      OBVIOUS
    <3>1. \A f \in Of(broker, b.task) : f.ordinal <= b.ordinal
      BY <1>1, <2>1, BusinessIsNewest
    <3>2. ~Stale(broker, b)
      BY <1>1, <2>2, <3>1, HolderIs
    <3> QED
      BY <1>1, <2>2, <3>2, HolderIs
  <2>4. CASE AbortRetries(b)
    BY <2>3, <2>4 DEF AbortRetries
  <2>5. CASE GoesOn(b) /\ Spent(b)
    BY <2>3, <2>5 DEF Spent
  <2>6. CASE CarriesAnswers(b) /\ AnsweringExhaustion(b.task)
    <3>1. PICK q \in UndeliveredTo(b.task) : q.kind = "exhausted"
      BY <2>6 DEF AnsweringExhaustion
    <3>2. q \in broker.questions /\ q.dispatch.task = b.task
      BY <1>1, <3>1 DEF UndeliveredTo, AnswersOK
    <3> QED
      BY <1>1, <2>2, <3>1, <3>2 DEF Exhausted
  <2>7. CASE CarriesAnswers(b) /\ ~TaskAlreadyDone(b.task)
    <3>1. /\ Of(broker, b.task) \cap broker.handed = {}
          /\ ~StillWorking(b)
      BY <2>7 DEF CarriesAnswers, TaskAlreadyDone
    <3>2. b \notin broker.handed /\ b = e
      BY <2>2, <2>3, <3>1 DEF Of
    <3>3. records.attempts[b] # "opened"
      BY <2>7, <3>1, <3>2 DEF StillWorking
    <3> QED
      BY <3>2, <3>3
  <2> QED
    BY <2>1, <2>4, <2>5, <2>6, <2>7 DEF CarriesAnswers
<1>4. CASE Retried(x, d)
  <2>1. Measuring(x) /\ d.task = driver[x].dispatch.task
    BY <1>4 DEF Retried, RetryOf, Measuring
  <2>2. driver[x].dispatch.task \in Tasks(driver[x].phase)
    BY <1>1, <2>1, DriverFields DEF Measuring
  <2> QED
    BY <1>1, <2>1, <2>2 DEF OnItsPhase
<1> QED
  BY <1>2, <1>3, <1>4

\* What a step may do to what was handed in, to the turns and the questions.
HandedMoves ==
  \/ broker'.handed = broker.handed
  \/ \E d \in broker.dispatches :
       /\ ~Stale(broker, d) /\ broker'.handed = broker.handed \cup {d}
       /\ UNCHANGED turn /\ SameScopes
TurnMoves ==
  \/ UNCHANGED turn
  \/ \E d \in broker.dispatches :
       /\ UNCHANGED <<broker, records>>
       /\ \/ /\ turn[d] = "none" /\ Schedulable(d)
             /\ turn' = [turn EXCEPT ![d] = "working"]
          \/ turn[d] = "none" /\ turn' = [turn EXCEPT ![d] = "by-hand"]
          \/ turn[d] = "working" /\ turn' = [turn EXCEPT ![d] = "returned"]
QuestionMoves ==
  \A q \in broker'.questions :
    \/ q \in broker.questions
    \/ q.kind = "asked"
    \/ \E x \in Driver : driver[x].at = "gating" /\ q = Help(driver[x])

LEMMA RegisteringHands ==
  ASSUME Typed, NEW x \in Driver, NEW d, NEW carries, DispatchAs(x, d, carries)
  PROVE  broker'.handed = broker.handed /\ broker'.questions = broker.questions
BY DEF DispatchAs, Register, Typed, BrokerOK, BrokerType

LEMMA AgentStep ==
  ASSUME Typed, Next
  PROVE  HandedMoves /\ TurnMoves /\ QuestionMoves /\ steered \subseteq steered'
<1>1. BrokerOK
  BY DEF Typed
<1> DEFINE Goal == HandedMoves /\ TurnMoves /\ QuestionMoves /\ steered \subseteq steered'
<1>2. ASSUME broker'.handed = broker.handed, broker'.questions = broker.questions,
             UNCHANGED <<turn, steered>>
      PROVE  Goal
  BY <1>2 DEF HandedMoves, TurnMoves, QuestionMoves
<1>3. ASSUME UNCHANGED <<broker, turn, steered>> PROVE Goal
  BY <1>2, <1>3
<1> HIDE DEF Goal
<1>4. ASSUME NEW x \in Driver, DriverStep(x), ~MeasureRed(x) PROVE Goal
  <2>1. UNCHANGED <<turn, steered>>
    BY <1>4 DEF DriverStep, CloseEnded, DispatchMember, RetryAborted, CarryAnswers,
       MarkAnswered, RetrySpent, DeliverFact, ReadGate, MeasureGreen, Close, StartNext,
       OpenAttempt, SatisfyRequirements, Stop, RecordFinished
  <2>2. UNCHANGED broker \/ \E d, carries : DispatchAs(x, d, carries)
    BY <1>4 DEF DriverStep, CloseEnded, DispatchMember, RetryAborted, CarryAnswers,
       MarkAnswered, RetrySpent, DeliverFact, ReadGate, MeasureGreen, Close, StartNext,
       OpenAttempt, SatisfyRequirements, Stop, RecordFinished, Dies
  <2> QED
    BY <1>2, <1>4, <2>1, <2>2, RegisteringHands
<1>5. ASSUME NEW x \in Driver, MeasureRed(x) PROVE Goal
  <2>1. UNCHANGED <<turn, steered>> /\ driver[x].at = "gating"
    BY <1>5 DEF MeasureRed
  <2>2. \/ UNCHANGED broker
        \/ DispatchAs(x, RetryOf(driver[x]), {})
        \/ broker' = AddQuestion(broker, Help(driver[x]))
    BY <1>5 DEF MeasureRed, Dies
  <2>3. CASE broker' = AddQuestion(broker, Help(driver[x]))
    <3>1. Help(driver[x]) \in Question /\ Help(driver[x]).dispatch \in broker.dispatches
      BY <2>1, HelpIs
    <3>2. /\ broker'.handed = broker.handed
          /\ broker'.questions = broker.questions \cup {Help(driver[x])}
      BY <1>1, <2>3, <3>1, AskDoes
    <3>3. QuestionMoves
      BY <2>1, <3>2 DEF QuestionMoves
    <3> QED
      BY <2>1, <3>2, <3>3 DEF Goal, HandedMoves, TurnMoves
  <2> QED
    BY <1>2, <2>1, <2>2, <2>3, RegisteringHands
<1>6. ASSUME NEW d \in broker.dispatches, DispatchStep(d) PROVE Goal
  <2>1. CASE StartAgent(d) \/ StartByHand(d) \/ AgentReturns(d)
    <3>1. UNCHANGED <<broker, records, steered>>
      BY <2>1 DEF StartAgent, StartByHand, AgentReturns
    <3>2. TurnMoves
      BY <2>1 DEF TurnMoves, StartAgent, StartByHand, AgentReturns
    <3> QED
      BY <3>1, <3>2 DEF Goal, HandedMoves, QuestionMoves
  <2>2. CASE AgentHandsIn(d)
    <3> DEFINE handed == HandIn(broker, d)
    <3>1. /\ handed # broker /\ broker' \in {handed, Deliver(handed, d)}
          /\ UNCHANGED <<turn, steered>>
      BY <2>2 DEF AgentHandsIn
    <3> HIDE DEF handed
    <3>2. /\ ~Stale(broker, d)
          /\ broker'.handed = broker.handed \cup {d}
          /\ broker'.questions = broker.questions
          /\ broker'.dispatches = broker.dispatches /\ broker'.holder = broker.holder
      BY <1>1, <3>1, HandInDoes DEF handed
    <3>3. HandedMoves
      BY <3>1, <3>2 DEF HandedMoves, SameScopes
    <3> QED
      BY <3>1, <3>2, <3>3 DEF Goal, TurnMoves, QuestionMoves
  <2>3. CASE AgentAsks(d)
    <3> DEFINE q == [dispatch |-> d, kind |-> "asked", tries |-> 0]
    <3>1. broker' = AddQuestion(broker, q) /\ UNCHANGED <<turn, steered>>
      BY <2>3 DEF AgentAsks
    <3>2. d \in Dispatch /\ q \in Question /\ q.kind = "asked"
      BY <1>1, BrokerFields DEF Question
    <3>3. broker'.handed = broker.handed /\ broker'.questions = broker.questions \cup {q}
      BY <1>1, <3>1, <3>2, AskDoes
    <3>4. QuestionMoves
      BY <3>2, <3>3 DEF QuestionMoves
    <3> QED
      BY <3>1, <3>3, <3>4 DEF Goal, HandedMoves, TurnMoves
  <2>4. CASE BridgeAccepts(d)
    <3>1. broker' = Deliver(broker, d) /\ UNCHANGED <<turn, steered>>
      BY <2>4 DEF BridgeAccepts
    <3> QED
      BY <1>1, <1>2, <3>1, DeliverDoes
  <2>5. CASE ExecuteCompletion(d)
    BY <1>3, <2>5 DEF ExecuteCompletion
  <2>6. CASE Steer(d)
    BY <2>6 DEF Steer, Goal, HandedMoves, TurnMoves, QuestionMoves
  <2> QED
    BY <1>6, <2>1, <2>2, <2>3, <2>4, <2>5, <2>6 DEF DispatchStep
<1>7. ASSUME NEW q \in broker.questions, Answer(q) PROVE Goal
  BY <1>3, <1>7 DEF Answer
<1>8. ASSUME NEW made \in {"approve", "reject"}, DecideCandidate(made) PROVE Goal
  BY <1>3, <1>8 DEF DecideCandidate
<1>9. \A x \in Driver : DriverStep(x) => Goal
  BY <1>4, <1>5
<1> QED
  BY <1>6, <1>7, <1>8, <1>9 DEF Next, DispatchStep, Goal

\* What a step may write of an attempt.
AttemptMoves ==
  /\ records.said \subseteq records'.said
  /\ \A d \in Dispatch :
       \/ records'.attempts[d] = records.attempts[d]
       \/ records'.attempts[d] = "opened"
       \/ OverForGood(d) /\ <<d, records'.attempts[d]>> \in records'.said

LEMMA AttemptStep ==
  ASSUME Typed, Next
  PROVE  AttemptMoves
<1>1. records \in RecordsType /\ BrokerOK /\ AgentsOK
  BY DEF Typed
<1>2. ASSUME SameAttempts(records, records') PROVE AttemptMoves
  BY <1>2 DEF AttemptMoves, SameAttempts
<1>3. ASSUME UNCHANGED records PROVE AttemptMoves
  BY <1>2, <1>3 DEF SameAttempts
<1>4. ASSUME NEW x \in Driver, CloseEnded(x) PROVE AttemptMoves
  <2>1. /\ records'.attempts = [d \in Dispatch |->
                                  IF d \in Ending THEN Over(d) ELSE records.attempts[d]]
        /\ records'.said = records.said \cup {<<d, Over(d)>> : d \in Ending}
    BY <1>4, ClosingEndedDoes
  <2>2. ASSUME NEW d \in Dispatch, d \in Ending
        PROVE  OverForGood(d) /\ <<d, records'.attempts[d]>> \in records'.said
    <3>1. Over(d) # "opened"
      BY <2>2 DEF Ending
    <3>2. OverForGood(d)
      BY <3>1 DEF Over, OverForGood
    <3> QED
      BY <2>1, <2>2, <3>2
  <2>3. \A d \in Dispatch : d \notin Ending => records'.attempts[d] = records.attempts[d]
    BY <2>1
  <2>4. records.said \subseteq records'.said
    BY <2>1
  <2> QED
    BY <2>2, <2>3, <2>4 DEF AttemptMoves
<1>5. ASSUME NEW d \in Dispatch, NEW to \in Dispositions, to = "opened" \/ OverForGood(d),
             records' = RecordAttempt(records, d, to)
      PROVE  AttemptMoves
  <2>1. /\ records'.said = records.said \cup {<<d, to>>}
        /\ records'.attempts \in {records.attempts, [records.attempts EXCEPT ![d] = to]}
    BY <1>1, <1>5, TransitionDoes
  <2>2. records.attempts \in [Dispatch -> Dispositions \cup {"unknown"}]
    BY <1>1 DEF RecordsType
  <2>3. \A e \in Dispatch : \/ records'.attempts[e] = records.attempts[e]
                            \/ e = d /\ records'.attempts[e] = to
    BY <2>1, <2>2
  <2> QED
    BY <1>5, <2>1, <2>3 DEF AttemptMoves
<1>6. ASSUME NEW x \in Driver, RetryAborted(x) PROVE AttemptMoves
  <2> DEFINE d == Business(records.phase)
  <2>1. /\ Untouched = {} /\ d \in steered
        /\ records' \in {records, RecordAttempt(records, d, "refused")}
    BY <1>6 DEF RetryAborted, Reads, AbortRetries
  <2>2. d \in Dispatch
    BY <2>1, BusinessIs
  <2> HIDE DEF d
  <2> QED
    BY <1>3, <1>5, <2>1, <2>2 DEF OverForGood, Dispositions
<1>7. ASSUME NEW x \in Driver, DeliverFact(x) PROVE AttemptMoves
  <2>1. \E e \in Dispatch : records' = OfferCompletion(records, e)
    BY <1>1, <1>7, BrokerFields DEF DeliverFact, Undelivered
  <2> QED
    BY <1>1, <1>2, <2>1, OfferDoes
<1>8. ASSUME NEW x \in Driver, MeasureRed(x) \/ MeasureGreen(x) PROVE AttemptMoves
  <2>1. /\ driver[x].at = "gating"
        /\ \E v \in {"accepted", "rejected"} :
             /\ MayGate(records, driver[x].phase, driver[x].on, v)
             /\ records' = EvaluateGate(records, driver[x].phase, driver[x].on, v)
    BY <1>8 DEF MeasureRed, MeasureGreen
  <2>2. driver[x].phase \in Phase /\ driver[x].on \in Digest
    BY <2>1, DriverFields
  <2> QED
    BY <1>1, <1>2, <2>1, <2>2, GateDoes
<1>9. ASSUME NEW x \in Driver, Close(x) PROVE AttemptMoves
  <2>1. driver[x].at = "closing" /\ records' = ClosePhase(records, driver[x].phase, driver[x].on)
    BY <1>9 DEF Close
  <2>2. driver[x].phase \in Phase /\ driver[x].on \in Digest
    BY <2>1, DriverFields
  <2> QED
    BY <1>1, <1>2, <2>1, <2>2, CloseDoes
<1>10. ASSUME NEW x \in Driver, StartNext(x) PROVE AttemptMoves
  <2>1. /\ driver[x].at = "starting"
        /\ records' \in {records, StartPhase(records, driver[x].phase + 1)}
    BY <1>10 DEF StartNext
  <2>2. driver[x].phase + 1 \in Phase
    BY <2>1, DriverFields, PhasesNumbered
  <2> QED
    BY <1>1, <1>2, <1>3, <2>1, <2>2, StartDoes
<1>11. ASSUME NEW x \in Driver, OpenAttempt(x) PROVE AttemptMoves
  <2>1. driver[x].at = "opening" /\ records' = RecordAttempt(records, driver[x].dispatch, "opened")
    BY <1>11 DEF OpenAttempt
  <2> QED
    BY <1>5, <2>1, DriverFields DEF Dispositions
<1>12. ASSUME NEW d \in broker.dispatches, ExecuteCompletion(d) PROVE AttemptMoves
  <2>1. d \in Dispatch /\ records' = TakeCompletion(records, d)
    BY <1>1, <1>12, BrokerFields DEF ExecuteCompletion
  <2> QED
    BY <1>1, <1>2, <2>1, CompletionDoes
<1>13. ASSUME NEW made \in {"approve", "reject"}, DecideCandidate(made) PROVE AttemptMoves
  BY <1>1, <1>2, <1>13, DecisionDoes DEF DecideCandidate
<1>14. ASSUME NEW x \in Driver,
              \/ DispatchMember(x) \/ CarryAnswers(x) \/ MarkAnswered(x) \/ RetrySpent(x)
              \/ ReadGate(x) \/ SatisfyRequirements(x) \/ Stop(x) \/ RecordFinished(x)
       PROVE  AttemptMoves
  BY <1>3, <1>14 DEF DispatchMember, CarryAnswers, MarkAnswered, RetrySpent, ReadGate,
                     SatisfyRequirements, Stop, RecordFinished
<1>15. ASSUME NEW d \in broker.dispatches, DispatchStep(d), ~ExecuteCompletion(d)
       PROVE  AttemptMoves
  BY <1>3, <1>15 DEF DispatchStep, StartAgent, StartByHand, AgentHandsIn, AgentAsks,
                     AgentReturns, BridgeAccepts, Steer
<1>16. ASSUME NEW q \in broker.questions, Answer(q) PROVE AttemptMoves
  BY <1>3, <1>16 DEF Answer
<1> QED
  BY <1>4, <1>6, <1>7, <1>8, <1>9, <1>10, <1>11, <1>12, <1>13, <1>14, <1>15, <1>16,
     StepKinds

\* An attempt that is not the newest never becomes it again; the holder loses
\* its task for a reason.
LEMMA TakenForAReason ==
  ASSUME Scoped, Next, NEW e \in broker.dispatches
  PROVE  /\ Stale(broker, e) => Stale(broker', e)
         /\ ~Stale(broker, e) /\ Stale(broker', e) =>
              \/ Accepted(records, e.task)
              \/ e \notin broker.handed /\ (e \in steered \/ records.attempts[e] # "opened")
<1>1. Typed /\ BrokerMoves /\ HolderIsNewest
  BY BrokerStep DEF Scoped, Evidence
<1>2. CASE SameScopes
  BY <1>2 DEF SameScopes, Stale
<1>3. ASSUME NEW x \in Driver, NEW d \in Dispatch, Registers(d),
             First(d) \/ (\E b \in Dispatch : Again(d, b)) \/ Retried(x, d)
      PROVE  /\ Stale(broker, e) => Stale(broker', e)
             /\ ~Stale(broker, e) /\ Stale(broker', e) =>
                  \/ Accepted(records, e.task)
                  \/ e \notin broker.handed /\ (e \in steered \/ records.attempts[e] # "opened")
  <2>1. CASE e.task # d.task
    BY <1>1, <1>3, <2>1, RegisteredScopes
  <2>2. CASE e.task = d.task
    <3>1. /\ ~Stale(broker, e) =>
               \/ Accepted(records, e.task)
               \/ e \notin broker.handed /\ (e \in steered \/ records.attempts[e] # "opened")
      BY <1>3, <2>2, WhyTaken
    <3>2. Stale(broker', e)
      <4>1. broker'.holder[d.task] = d.ordinal /\ broker.holder[d.task] < d.ordinal
        BY <1>1, <1>3, RegisteredScopes
      <4>2. e.ordinal <= broker.holder[d.task] /\ e \in Dispatch
        BY <1>1, <2>2, HolderIs, DispatchFields DEF HolderIsNewest, Of
      <4>3. e.ordinal \in Nat /\ broker.holder[d.task] \in Nat /\ d.ordinal \in Nat
        BY <1>1, <2>2, <4>2, DispatchFields, BrokerFields DEF Typed
      <4> QED
        BY <2>2, <4>1, <4>2, <4>3 DEF Stale
    <3> QED
      BY <3>1, <3>2
  <2> QED
    BY <2>1, <2>2
<1> QED
  BY <1>1, <1>2, <1>3 DEF BrokerMoves

LEMMA ScopedStep ==
  ASSUME Scoped, Next
  PROVE  Scoped'
<1>1. /\ Typed /\ Evidence /\ HolderIsNewest /\ Superseded /\ Alone /\ Turned
      /\ Witnessed /\ Exhausted /\ OnItsPhase /\ BrokerOK /\ AgentsOK
  BY DEF Scoped, Evidence, Typed
<1>2. Evidence' /\ Typed' /\ Grows
  BY <1>1, EvidenceStep, TypedStep
<1>3. /\ BrokerMoves /\ HandedMoves /\ TurnMoves /\ QuestionMoves /\ steered \subseteq steered'
      /\ AttemptMoves
  BY <1>1, BrokerStep, AgentStep, AttemptStep
<1>4. \A t \in Task : Accepted(records, t) => Accepted(records', t)
  BY <1>1, <1>2, JudgementStep, JudgementKeeps
<1>5. \A d \in broker.dispatches : d \in Dispatch /\ d.task \in Task
  BY <1>1, BrokerFields, DispatchFields
<1>6. HolderIsNewest'
  BY <1>1, <1>3, HolderStep
<1>7. Superseded'
  <2> SUFFICES ASSUME NEW d \in broker'.handed, Stale(broker', d)
               PROVE  Accepted(records', d.task)
    BY DEF Superseded
  <2>1. CASE d \in broker.handed
    <3>1. d \in broker.dispatches /\ d.task \in Task
      BY <1>1, <1>5, <2>1, BrokerFields
    <3>2. Accepted(records, d.task)
      BY <1>1, <2>1, <3>1, TakenForAReason DEF Superseded
    <3> QED
      BY <1>4, <3>1, <3>2
  <2>2. CASE d \notin broker.handed
    <3>1. ~Stale(broker, d) /\ SameScopes
      BY <1>3, <2>2 DEF HandedMoves
    <3> QED
      BY <3>1 DEF SameScopes, Stale
  <2> QED
    BY <2>1, <2>2
<1>8. Turned'
  <2> SUFFICES ASSUME NEW d \in Dispatch, turn'[d] # "none" PROVE d \in broker'.dispatches
    BY DEF Turned
  <2>1. d \in broker.dispatches
    BY <1>1, <1>3 DEF TurnMoves, Turned, AgentsOK
  <2> QED
    BY <1>2, <2>1 DEF Grows
<1>9. Alone'
  <2> SUFFICES ASSUME NEW d \in broker'.dispatches, turn'[d] = "working", ~Stale(broker', d),
                      NEW e \in broker'.dispatches, e.task = d.task, e \in broker'.handed
               PROVE  e = d
    BY DEF Alone, Of
  <2>1. d \in Dispatch /\ d \in broker.dispatches
    <3>1. d \in Dispatch
      BY <1>2 DEF Grows
    <3> QED
      BY <1>1, <1>3, <3>1 DEF TurnMoves, Turned, AgentsOK
  <2>2. ~Stale(broker, d)
    BY <2>1, TakenForAReason
  <2>3. CASE turn[d] = "working"
    <3>1. CASE e \in broker.handed
      <4>1. e \in Of(broker, d.task)
        BY <1>1, <3>1, BrokerFields DEF Of
      <4> QED
        BY <1>1, <2>1, <2>2, <2>3, <3>1, <4>1 DEF Alone
    <3>2. CASE e \notin broker.handed
      <4>1. e \in broker.dispatches /\ ~Stale(broker, e)
        BY <1>3, <3>2 DEF HandedMoves
      <4>2. e \in Of(broker, d.task)
        BY <4>1 DEF Of
      <4> QED
        BY <1>1, <2>1, <2>2, <4>1, <4>2, HolderIs
    <3> QED
      BY <3>1, <3>2
  <2>4. CASE turn[d] # "working"
    <3>1. UNCHANGED <<broker, records>> /\ Schedulable(d)
      BY <1>1, <1>3, <2>1, <2>4 DEF TurnMoves, AgentsOK
    <3>2. e \in broker.handed /\ e \in broker.dispatches /\ ~Accepted(records, e.task)
      BY <1>1, <3>1, BrokerFields DEF Schedulable
    <3>3. ~Stale(broker, e)
      BY <1>1, <3>2 DEF Superseded
    <3>4. e \in Of(broker, d.task)
      BY <3>2 DEF Of
    <3> QED
      BY <1>1, <2>1, <2>2, <3>3, <3>4, HolderIs
  <2> QED
    BY <2>3, <2>4
<1>10. Exhausted'
  <2> SUFFICES ASSUME NEW q \in broker'.questions, q.kind = "exhausted"
               PROVE  Accepted(records', q.dispatch.task)
    BY DEF Exhausted
  <2>1. CASE q \in broker.questions
    <3>1. q.dispatch.task \in Task
      BY <1>1, <1>5, <2>1, BrokerFields
    <3> QED
      BY <1>1, <1>4, <2>1, <3>1 DEF Exhausted
  <2>2. ASSUME NEW x \in Driver, driver[x].at = "gating", q = Help(driver[x])
        PROVE  Accepted(records', q.dispatch.task)
    <3>1. q.dispatch = driver[x].newest /\ driver[x].newest \in broker.dispatches
      BY <1>1, <2>2, HelpIs
    <3>2. q.dispatch.task \in Tasks(driver[x].phase)
      BY <1>1, <2>2, <3>1, DriverFields
    <3>3. Accepted(records, q.dispatch.task) /\ q.dispatch.task \in Task
      BY <1>1, <1>5, <2>2, <3>1, <3>2 DEF OnItsPhase, Measuring
    <3> QED
      BY <1>4, <3>3
  <2> QED
    BY <1>3, <2>1, <2>2 DEF QuestionMoves
<1>11. Witnessed'
  <2> SUFFICES ASSUME NEW d \in Dispatch, records'.attempts[d] \notin {"unknown", "opened"}
               PROVE  OverForGood(d)'
    BY DEF Witnessed
  <2>1. OverForGood(d)
    BY <1>1, <1>3 DEF AttemptMoves, Witnessed
  <2>2. d.task \in Task
    BY DispatchFields
  <2>3. Asked(d) => Asked(d)'
    BY <1>2 DEF Asked, Grows
  <2>4. turn[d] = "returned" => turn'[d] = "returned"
    BY <1>1, <1>3 DEF TurnMoves, AgentsOK
  <2>5. Accepted(records, d.task) => Accepted(records', d.task)
    BY <1>4, <2>2
  <2>6. (d \in broker.handed => d \in broker'.handed) /\ (d \in steered => d \in steered')
    BY <1>2, <1>3 DEF Grows
  <2> QED
    BY <2>1, <2>3, <2>4, <2>5, <2>6 DEF OverForGood
<1> QED
  BY <1>2, <1>6, <1>7, <1>8, <1>9, <1>10, <1>11 DEF Scoped

LEMMA ScopedStutter ==
  ASSUME Scoped, UNCHANGED vars
  PROVE  Scoped'
<1>1. UNCHANGED <<records, broker, turn, answers, steered, queued, driver, ended>>
  BY DEF vars
<1>2. Evidence'
  BY EvidenceStutter DEF Scoped
<1>3. HolderIsNewest' /\ Superseded' /\ Alone'
  BY <1>1 DEF Scoped, HolderIsNewest, Superseded, Alone
<1>4. Turned' /\ Witnessed' /\ Exhausted'
  BY <1>1 DEF Scoped, Turned, Witnessed, OverForGood, Asked, Exhausted
<1> QED
  BY <1>2, <1>3, <1>4 DEF Scoped

LEMMA ScopedInitially ==
  ASSUME Init
  PROVE  Scoped
<1>1. Evidence
  BY EvidenceInitially
<1>2. /\ broker.dispatches = {} /\ broker.handed = {} /\ broker.questions = {}
      /\ \A t \in Task : broker.holder[t] = 0
      /\ \A d \in Dispatch : turn[d] = "none" /\ records.attempts[d] = "unknown"
  BY DEF Init, BrokerInit, RecordsInit
<1> QED
  BY <1>1, <1>2 DEF Scoped, HolderIsNewest, Superseded, Alone, Turned, Witnessed,
                    Exhausted, Of

LEMMA ScopedAlways == Spec => []Scoped
<1>1. Init => Scoped
  BY ScopedInitially
<1>2. Scoped /\ [Next]_vars => Scoped'
  BY ScopedStep, ScopedStutter
<1> QED
  BY <1>1, <1>2, PTL DEF Spec

\* A task is taken from an agent that the scheduler started and that is still
\* working only if a person aborted it, it asked, it has handed in, or its
\* opening was never recorded (the four ways in which drivers dispatch again,
\* two of them with what they read before the gate's sensors answered).
THEOREM RunningAgentsKeepTheirTask == Spec => TurnsAreNotTaken
<1>1. ASSUME Scoped, Next, NEW d \in broker.dispatches,
             turn[d] = "working", ~Stale(broker, d), Stale(broker', d)
      PROVE  \/ d \in steered \/ Asked(d) \/ d \in broker.handed
             \/ records.attempts[d] = "unknown"
  <2>1. \/ Accepted(records, d.task)
        \/ d \in steered \/ records.attempts[d] # "opened"
    BY <1>1, TakenForAReason
  <2>2. d \in Dispatch /\ d.task \in Task
    BY <1>1, BrokerFields, DispatchFields DEF Scoped, Evidence, Typed
  <2>3. ASSUME Accepted(records, d.task) PROVE d \in broker.handed
    <3> DEFINE e == [task |-> d.task, ordinal |-> records.assessed[d.task]]
    <3>1. e \in broker.handed
      BY <1>1, <2>2, <2>3 DEF Scoped, Evidence, HandedFirst
    <3>2. e \in Of(broker, d.task)
      BY <1>1, <3>1, BrokerFields DEF Of, Scoped, Evidence, Typed
    <3> QED
      BY <1>1, <3>1, <3>2 DEF Scoped, Alone
  <2>4. records.attempts[d] \notin {"unknown", "opened"} => OverForGood(d)
    BY <1>1, <2>2 DEF Scoped, Witnessed
  <2> QED
    BY <1>1, <2>1, <2>3, <2>4 DEF OverForGood
<1> DEFINE Taking == \A d \in broker.dispatches :
       (turn[d] = "working" /\ ~Stale(broker, d) /\ Stale(broker', d)) =>
         \/ d \in steered \/ Asked(d) \/ d \in broker.handed
         \/ records.attempts[d] = "unknown"
<1>2. Scoped /\ [Next]_vars => [Taking]_vars
  BY <1>1
<1> QED
  BY <1>2, ScopedAlways, PTL DEF Spec, TurnsAreNotTaken

----------------------------------------------------------------------------
(* Ordinals and the count of tries                                          *)

\* The ordinals up to n are taken in a phase.
Numbered(p, n) == \A o \in 1 .. n : \E e \in OfPhase(broker, p) : e.ordinal = o
Consecutive == \A p \in Phase : \A d \in OfPhase(broker, p) : Numbered(p, d.ordinal)

\* A member that has a dispatch has its first one, at its place in the phase.
FirstDispatches ==
  \A p \in Phase : \A j \in DOMAIN Members[p] :
    Of(broker, Members[p][j]) # {} =>
      [task |-> Members[p][j], ordinal |-> j] \in broker.dispatches

\* An attempt that is suspended was once said to be.
Said == \A d \in Dispatch : records.attempts[d] = "suspended" => <<d, "suspended">> \in records.said

\* The tries of a task with ordinals below n, without those that ever asked.
TriesBefore(t, n) ==
  {e \in Of(broker, t) : /\ e.ordinal < n /\ e.ordinal > AnsweredOrdinal(t)
                         /\ <<e, "suspended">> \notin records.said}

\* What a driver read is still true of the ordinals before its next, however
\* old it is: nothing can be registered there any more.
Counted ==
  \A x \in Driver : Measuring(x) =>
    /\ Numbered(driver[x].phase, driver[x].next - 1)
    /\ Cardinality(TriesBefore(driver[x].dispatch.task, driver[x].next)) <= driver[x].tries

Ceiling == Scoped /\ Consecutive /\ FirstDispatches /\ Said /\ Counted

OrdinalsAsked(asked, t) ==
  {0} \cup {q.dispatch.ordinal : q \in {e \in asked : e.dispatch.task = t}}

\* The last answer's ordinal only rises.
LEMMA AnsweredRises ==
  ASSUME NEW A \in SUBSET Question, NEW B \in SUBSET Question, A \subseteq B, NEW t
  PROVE  /\ Max(OrdinalsAsked(A, t)) \in Nat
         /\ Max(OrdinalsAsked(A, t)) <= Max(OrdinalsAsked(B, t))
         /\ Max(OrdinalsAsked(B, t)) \in Nat
<1>1. \A q \in Question : q.dispatch \in Dispatch
  BY DEF Question
<1>2. MaxOrdinal \in Nat
  BY DispatchFields
<1>3. ASSUME NEW C \in SUBSET Question
      PROVE  /\ OrdinalsAsked(C, t) \in SUBSET Nat /\ OrdinalsAsked(C, t) # {}
             /\ \A n \in OrdinalsAsked(C, t) : n <= MaxOrdinal
  <2>1. ASSUME NEW n \in OrdinalsAsked(C, t) PROVE n \in Nat /\ n <= MaxOrdinal
    <3>1. n = 0 \/ \E q \in C : n = q.dispatch.ordinal
      BY DEF OrdinalsAsked
    <3>2. \A q \in C : q.dispatch.ordinal \in 1 .. MaxOrdinal
      BY <1>1, DispatchFields
    <3> QED
      BY <1>2, <3>1, <3>2
  <2>2. 0 \in OrdinalsAsked(C, t)
    BY DEF OrdinalsAsked
  <2> QED
    BY <2>1, <2>2
<1>4. OrdinalsAsked(A, t) \subseteq OrdinalsAsked(B, t)
  BY DEF OrdinalsAsked
<1>5. Max(OrdinalsAsked(A, t)) \in Nat
  BY <1>2, <1>3, GreatestIs
<1>6. Max(OrdinalsAsked(B, t)) \in Nat
  BY <1>2, <1>3, GreatestIs
<1>7. Max(OrdinalsAsked(A, t)) <= Max(OrdinalsAsked(B, t))
  BY <1>2, <1>3, <1>4, GreatestGrows
<1> QED
  BY <1>5, <1>6, <1>7

LEMMA AnsweredStep ==
  ASSUME Typed, Typed', AnswersMove, NEW t
  PROVE  /\ AnsweredOrdinal(t) \in Nat /\ AnsweredOrdinal(t)' \in Nat
         /\ AnsweredOrdinal(t) <= AnsweredOrdinal(t)'
<1>1. DOMAIN answers \in SUBSET Question /\ DOMAIN answers' \in SUBSET Question
  BY DEF Typed, AnswersOK, BrokerOK, BrokerType
<1>2. DOMAIN answers \subseteq DOMAIN answers'
  BY DEF AnswersMove
<1>3. /\ AnsweredOrdinal(t) = Max(OrdinalsAsked(DOMAIN answers, t))
      /\ AnsweredOrdinal(t)' = Max(OrdinalsAsked(DOMAIN answers', t))
  BY DEF AnsweredOrdinal, OrdinalsAsked
<1> QED
  BY <1>1, <1>2, <1>3, AnsweredRises

\* Ordinals are taken for good.
LEMMA NumberedStays ==
  ASSUME Grows, NEW p, NEW n
  PROVE  Numbered(p, n) => Numbered(p, n)'
BY DEF Numbered, Grows, OfPhase

\* An ordinal below one that is taken is no longer to be had.
LEMMA NumberedRefuses ==
  ASSUME Typed, NEW p \in Phase, NEW n \in Nat, Numbered(p, n), NEW d \in Dispatch,
         d.task \in Tasks(p), MayRegister(broker, d)
  PROVE  d.ordinal > n
<1>1. PhaseOf(d.task) = p /\ d.ordinal \in Nat \ {0}
  BY OnePhaseEach, DispatchFields
<1> SUFFICES ASSUME d.ordinal <= n PROVE FALSE
  BY <1>1
<1>2. d.ordinal \in 1 .. n
  BY <1>1
<1>3. PICK e \in OfPhase(broker, p) : e.ordinal = d.ordinal
  BY <1>2 DEF Numbered
<1> QED
  BY <1>1, <1>3 DEF MayRegister

LEMMA RegisteredOf ==
  ASSUME Typed, NEW d \in Dispatch, Registers(d)
  PROVE  /\ \A p \in Phase : \A e \in OfPhase(broker', p) :
              e \in OfPhase(broker, p) \/ (e = d /\ d.task \in Tasks(p))
         /\ \A t : \A e \in Of(broker', t) : e \in Of(broker, t) \/ (e = d /\ d.task = t)
BY RegisteredScopes DEF Of, OfPhase

\* The next attempt's ordinal follows on those that are taken.
LEMMA NumberedToNext ==
  ASSUME Typed, Consecutive, NEW p \in Phase
  PROVE  Numbered(p, NextAttempt(p) - 1)
<1> DEFINE n == NextAttempt(p)
<1>1. BrokerOK
  BY DEF Typed
<1>2. n \in Nat \ {0} /\ (n # 1 => \E d \in OfPhase(broker, p) : d.ordinal = n - 1)
  BY <1>1, NextAttemptIs
<1> HIDE DEF n
<1>3. ASSUME n = 1 PROVE Numbered(p, n - 1)
  <2>1. n - 1 = 0
    BY <1>3
  <2>2. Numbered(p, 0)
    BY DEF Numbered
  <2> QED
    BY <2>1, <2>2
<1>4. ASSUME n # 1 PROVE Numbered(p, n - 1)
  BY <1>2, <1>4 DEF Consecutive
<1> QED
  BY <1>3, <1>4 DEF n

\* A new dispatch takes the first ordinal of its phase that is free.
LEMMA RegisteredNext ==
  ASSUME Ceiling, NEW x \in Driver, NEW d \in Dispatch,
         First(d) \/ (\E b \in Dispatch : Again(d, b)) \/ Retried(x, d),
         NEW p \in Phase, d.task \in Tasks(p)
  PROVE  Numbered(p, d.ordinal - 1)
<1>1. /\ Typed /\ Consecutive /\ FirstDispatches /\ Counted
      /\ records.phase \in Phase /\ BrokerOK
  BY DEF Ceiling, Scoped, Evidence, Typed, RecordsType
<1>2. CASE First(d)
  <2> DEFINE members == Members[records.phase]
             i == Min({j \in DOMAIN members : members[j] \in Untouched})
  <2>1. Untouched # {} /\ d.task = members[i] /\ d.ordinal = i
    BY <1>2 DEF First
  <2>2. /\ i \in DOMAIN members /\ members[i] \in Untouched
        /\ \A j \in DOMAIN members : j < i => members[j] \notin Untouched
    BY <1>1, <2>1, FirstMemberIs
  <2>3. /\ DOMAIN members = 1 .. Len(members) /\ Len(members) \in Nat
        /\ \A j \in DOMAIN members : members[j] \in Tasks(records.phase)
    BY <1>1, TasksListed
  <2>4. p = records.phase
    BY <1>1, <2>1, <2>2, <2>3, OnePhaseEach
  <2> HIDE DEF i
  <2>5. ASSUME NEW o \in 1 .. (d.ordinal - 1)
        PROVE  \E e \in OfPhase(broker, p) : e.ordinal = o
    <3>1. o \in DOMAIN members /\ o < i
      BY <2>1, <2>2, <2>3
    <3>2. Of(broker, members[o]) # {}
      BY <2>2, <2>3, <3>1 DEF Untouched
    <3>3. [task |-> members[o], ordinal |-> o] \in broker.dispatches
      BY <1>1, <3>1, <3>2 DEF FirstDispatches
    <3>4. [task |-> members[o], ordinal |-> o] \in OfPhase(broker, p)
      BY <2>3, <2>4, <3>1, <3>3 DEF OfPhase
    <3> QED
      BY <3>4
  <2> QED
    BY <2>5 DEF Numbered
<1>3. ASSUME NEW b \in Dispatch, Again(d, b) PROVE Numbered(p, d.ordinal - 1)
  <2>1. Untouched = {} /\ b = Business(records.phase) /\ d = After(b)
    BY <1>3 DEF Again
  <2>2. d.task = b.task /\ d.ordinal = NextAttempt(records.phase)
    BY <2>1 DEF After
  <2>3. b.task \in Tasks(records.phase)
    BY <1>1, <2>1, BusinessIs
  <2>4. p = records.phase
    BY <1>1, <2>2, <2>3, OnePhaseEach
  <2> QED
    BY <1>1, <2>2, <2>4, NumberedToNext
<1>4. CASE Retried(x, d)
  <2>1. Measuring(x) /\ d.task = driver[x].dispatch.task /\ d.ordinal = driver[x].next
    BY <1>4 DEF Retried, RetryOf, Measuring
  <2>2. driver[x].dispatch.task \in Tasks(driver[x].phase) /\ driver[x].phase \in Phase
    BY <1>1, <2>1, DriverFields DEF Measuring
  <2>3. p = driver[x].phase
    BY <2>1, <2>2, OnePhaseEach
  <2> QED
    BY <1>1, <2>1, <2>3 DEF Counted
<1> QED
  BY <1>2, <1>3, <1>4

LEMMA ConsecutiveStep ==
  ASSUME Ceiling, Grows, BrokerMoves
  PROVE  Consecutive' /\ FirstDispatches'
<1>1. Typed /\ Consecutive /\ FirstDispatches
  BY DEF Ceiling, Scoped, Evidence
<1>2. ASSUME SameScopes PROVE Consecutive' /\ FirstDispatches'
  BY <1>1, <1>2 DEF SameScopes, Consecutive, FirstDispatches, Numbered, Of, OfPhase
<1>3. ASSUME NEW x \in Driver, NEW d \in Dispatch, Registers(d),
             First(d) \/ (\E b \in Dispatch : Again(d, b)) \/ Retried(x, d)
      PROVE  Consecutive'
  <2> SUFFICES ASSUME NEW p \in Phase, NEW e \in OfPhase(broker', p)
               PROVE  Numbered(p, e.ordinal)'
    BY DEF Consecutive
  <2>1. CASE e \in OfPhase(broker, p)
    BY <1>1, <2>1, NumberedStays DEF Consecutive
  <2>2. CASE e = d /\ d.task \in Tasks(p)
    <3>1. Numbered(p, d.ordinal - 1)'
      <4>1. Numbered(p, d.ordinal - 1)
        BY <1>3, <2>2, RegisteredNext
      <4> QED
        BY <4>1, NumberedStays
    <3>2. ASSUME NEW o \in 1 .. d.ordinal
          PROVE  \E f \in OfPhase(broker', p) : f.ordinal = o
      <4>1. o = d.ordinal \/ o \in 1 .. (d.ordinal - 1)
        BY DispatchFields
      <4> QED
        BY <2>2, <3>1, <4>1 DEF Numbered
    <3> QED
      BY <2>2, <3>2 DEF Numbered
  <2> QED
    BY <1>1, <1>3, <2>1, <2>2, RegisteredOf
<1>4. ASSUME NEW x \in Driver, NEW d \in Dispatch, Registers(d),
             First(d) \/ (\E b \in Dispatch : Again(d, b)) \/ Retried(x, d)
      PROVE  FirstDispatches'
  <2> SUFFICES ASSUME NEW p \in Phase, NEW j \in DOMAIN Members[p],
                      Of(broker', Members[p][j]) # {}
               PROVE  [task |-> Members[p][j], ordinal |-> j] \in broker'.dispatches
    BY DEF FirstDispatches
  <2>1. CASE Of(broker, Members[p][j]) # {}
    BY <1>1, <2>1 DEF FirstDispatches, Grows
  <2>2. CASE Of(broker, Members[p][j]) = {}
    <3>1. d.task = Members[p][j]
      BY <1>1, <1>3, <1>4, <2>2, RegisteredOf
    <3>2. ~ \E b \in Dispatch : Again(d, b)
      <4> SUFFICES ASSUME NEW b \in Dispatch, Again(d, b) PROVE FALSE
        OBVIOUS
      <4>1. Untouched = {} /\ b = Business(records.phase) /\ d.task = b.task
        BY DEF Again, After
      <4>2. Of(broker, b.task) # {}
        BY <1>1, <4>1, BusinessIs
      <4> QED
        BY <2>2, <3>1, <4>1, <4>2
    <3>3. ~Retried(x, d)
      <4> SUFFICES ASSUME Retried(x, d) PROVE FALSE
        OBVIOUS
      <4>1. driver[x].at \in {"gating", "closing"} /\ d.task = driver[x].dispatch.task
        BY DEF Retried, RetryOf
      <4>2. driver[x].dispatch \in broker.dispatches
        BY <1>1, <4>1, DriverFields
      <4> QED
        BY <2>2, <3>1, <4>1, <4>2 DEF Of
    <3>4. First(d)
      BY <1>4, <3>2, <3>3
    <3> DEFINE members == Members[records.phase]
               i == Min({k \in DOMAIN members : members[k] \in Untouched})
    <3>5. Untouched # {} /\ d = [task |-> members[i], ordinal |-> i]
      BY <3>4 DEF First
    <3>6. i \in DOMAIN members
      BY <1>1, <3>5, FirstMemberIs
    <3> HIDE DEF i
    <3>7. records.phase \in Phase
      BY <1>1 DEF Typed, RecordsType
    <3>8. members[i] \in Tasks(records.phase) /\ members[i] \in Tasks(p)
      BY <3>1, <3>5, <3>6, <3>7, TasksListed
    <3>9. p = records.phase
      BY <3>7, <3>8, OnePhaseEach
    <3>10. i = j
      BY <3>1, <3>5, <3>6, <3>9, TasksListed
    <3> QED
      BY <1>1, <1>4, <3>1, <3>5, <3>10, RegisteredScopes
  <2> QED
    BY <2>1, <2>2
<1> QED
  BY <1>2, <1>3, <1>4 DEF BrokerMoves

LEMMA SaidStep ==
  ASSUME Said, AttemptMoves
  PROVE  Said'
BY DEF Said, AttemptMoves

\* The tries below a driver's next ordinal only become fewer.
LEMMA TriesShrink ==
  ASSUME Typed, Typed', AnswersMove, AttemptMoves, BrokerMoves,
         NEW p \in Phase, NEW t \in Tasks(p), NEW n \in Nat, Numbered(p, n - 1)
  PROVE  /\ Cardinality(TriesBefore(t, n))' <= Cardinality(TriesBefore(t, n))
         /\ Cardinality(TriesBefore(t, n)) \in Nat /\ Cardinality(TriesBefore(t, n))' \in Nat
<1>1. BrokerOK /\ t \in Task
  BY OnePhaseEach DEF Typed
<1>2. /\ AnsweredOrdinal(t) \in Nat /\ AnsweredOrdinal(t)' \in Nat
      /\ AnsweredOrdinal(t) <= AnsweredOrdinal(t)'
  BY AnsweredStep
<1> DEFINE S == TriesBefore(t, n)
           T == TriesBefore(t, n)'
<1>3. T \subseteq S
  <2> SUFFICES ASSUME NEW e \in T PROVE e \in S
    OBVIOUS
  <2>1. /\ e \in Of(broker', t) /\ e.ordinal < n /\ e.ordinal > AnsweredOrdinal(t)'
        /\ <<e, "suspended">> \notin records'.said
    BY DEF TriesBefore
  <2>2. e \in Dispatch /\ e.ordinal \in Nat \ {0} /\ e.task = t
    <3>1. e \in broker'.dispatches /\ e.task = t
      BY <2>1 DEF Of
    <3>2. e \in Dispatch
      BY <3>1 DEF Typed, BrokerOK, BrokerType
    <3> QED
      BY <3>1, <3>2, DispatchFields
  <2>3. e \in Of(broker, t)
    <3>1. CASE SameScopes
      BY <2>1, <3>1 DEF SameScopes, Of
    <3>2. ASSUME NEW d \in Dispatch, Registers(d) PROVE e \in Of(broker, t)
      <4> SUFFICES ASSUME e = d PROVE FALSE
        BY <2>1, <3>2, RegisteredOf
      <4>1. MayRegister(broker, d) /\ d.task \in Tasks(p)
        BY <2>2, <3>2 DEF Registers
      <4>2. n - 1 \in Nat
        BY <2>1, <2>2
      <4>3. d.ordinal > n - 1
        BY <4>1, <4>2, NumberedRefuses
      <4> QED
        BY <2>1, <2>2, <4>3
    <3> QED
      BY <3>1, <3>2 DEF BrokerMoves
  <2>4. e.ordinal > AnsweredOrdinal(t)
    BY <1>2, <2>1, <2>2
  <2>5. <<e, "suspended">> \notin records.said
    BY <2>1 DEF AttemptMoves
  <2> QED
    BY <2>1, <2>3, <2>4, <2>5 DEF TriesBefore
<1>4. IsFiniteSet(S)
  <2>1. S \in SUBSET Of(broker, t)
    BY DEF TriesBefore
  <2>2. IsFiniteSet(Of(broker, t))
    BY <1>1, TriesTyped
  <2> QED
    BY <2>1, <2>2, FS_Subset
<1>5. T \in SUBSET S
  BY <1>3
<1> HIDE DEF S, T
<1>6. IsFiniteSet(T) /\ Cardinality(T) <= Cardinality(S)
  BY <1>4, <1>5, FS_Subset
<1>7. Cardinality(S) \in Nat /\ Cardinality(T) \in Nat
  BY <1>4, <1>6, FS_CardinalityType
<1> QED
  BY <1>6, <1>7 DEF S, T

\* What a driver measures is counted.
LEMMA MeasuredCounted ==
  ASSUME Ceiling, Untouched = {}
  PROVE  LET s == Measured(records.phase) IN
         /\ Numbered(s.phase, s.next - 1)
         /\ Cardinality(TriesBefore(s.dispatch.task, s.next)) <= s.tries
<1> DEFINE p == records.phase
           t == Business(p).task
           n == NextAttempt(p)
<1>1. Typed /\ Consecutive /\ Said /\ BrokerOK /\ p \in Phase
  BY DEF Ceiling, Scoped, Evidence, Typed, RecordsType
<1>2. Numbered(p, n - 1)
  BY <1>1, NumberedToNext
<1>3. TriesBefore(t, n) \in SUBSET TriesOf(t)
  <2>1. \A d \in Of(broker, t) : d \in Dispatch
    BY <1>1, BrokerFields
  <2> QED
    BY <1>1, <2>1 DEF TriesBefore, TriesOf, Said
<1>4. IsFiniteSet(TriesOf(t)) /\ Tries(t) = Cardinality(TriesOf(t))
  BY <1>1, TriesTyped DEF Tries
<1> HIDE DEF t, n
<1>5. Cardinality(TriesBefore(t, n)) <= Tries(t)
  BY <1>3, <1>4, FS_Subset
<1>6. /\ Measured(p).phase = p /\ Measured(p).next = n
      /\ Measured(p).dispatch.task = t /\ Measured(p).tries = Tries(t)
  BY DEF Measured, t, n
<1> QED
  BY <1>2, <1>5, <1>6

LEMMA CountedStep ==
  ASSUME Ceiling, Next
  PROVE  Counted'
<1>1. /\ Typed /\ Typed' /\ Grows /\ BrokerMoves /\ AnswersMove /\ AttemptMoves /\ Counted
  BY TypedStep, BrokerStep, AnswersStep, AttemptStep DEF Ceiling, Scoped, Evidence
<1> SUFFICES ASSUME NEW x \in Driver, driver'[x].at \in {"gating", "closing", "starting"}
             PROVE  /\ Numbered(driver[x].phase, driver[x].next - 1)'
                    /\ Cardinality(TriesBefore(driver[x].dispatch.task, driver[x].next))'
                         <= driver'[x].tries
  BY DEF Counted, Measuring
<1>2. PICK p, t, n, k : /\ p = driver'[x].phase /\ t = driver'[x].dispatch.task
                        /\ n = driver'[x].next /\ k = driver'[x].tries
  OBVIOUS
<1>3. SUFFICES Numbered(p, n - 1)' /\ Cardinality(TriesBefore(t, n))' <= k
  BY <1>2 DEF Numbered, TriesBefore
<1>4. DriverMoves(x)
  BY <1>1, DriverStepMoves
<1>5. ASSUME driver[x].at \in {"gating", "closing", "starting"},
             p = driver[x].phase, t = driver[x].dispatch.task,
             n = driver[x].next, k = driver[x].tries
      PROVE  Numbered(p, n - 1)' /\ Cardinality(TriesBefore(t, n))' <= k
  <2>1. p \in Phase /\ t \in Tasks(p) /\ n \in Nat /\ k \in Nat
    BY <1>1, <1>5, DriverFields
  <2>2. Numbered(p, n - 1) /\ Cardinality(TriesBefore(t, n)) <= k
    BY <1>1, <1>5 DEF Counted, Measuring
  <2>3. Numbered(p, n - 1)'
    BY <1>1, <2>2, NumberedStays
  <2>4. /\ Cardinality(TriesBefore(t, n))' <= Cardinality(TriesBefore(t, n))
        /\ Cardinality(TriesBefore(t, n)) \in Nat /\ Cardinality(TriesBefore(t, n))' \in Nat
    BY <1>1, <2>1, <2>2, TriesShrink
  <2> QED
    BY <2>1, <2>2, <2>3, <2>4
<1>6. CASE driver'[x] = driver[x]
  BY <1>2, <1>5, <1>6
<1>7. CASE /\ driver[x].at \in {"gating", "closing"} /\ SameReading(driver[x], driver'[x])
  BY <1>2, <1>5, <1>7 DEF SameReading
<1>8. ASSUME Reads(x), UNCHANGED <<records, broker, answers>>,
             driver'[x] = Measured(records.phase)
      PROVE  Numbered(p, n - 1)' /\ Cardinality(TriesBefore(t, n))' <= k
  <2>1. Untouched = {}
    BY <1>8 DEF Reads
  <2>2. Numbered(p, n - 1) /\ Cardinality(TriesBefore(t, n)) <= k
    BY <1>2, <1>8, <2>1, MeasuredCounted
  <2>3. AnsweredOrdinal(t)' = AnsweredOrdinal(t)
    BY <1>8 DEF AnsweredOrdinal
  <2>4. TriesBefore(t, n)' = TriesBefore(t, n) /\ Numbered(p, n - 1)' = Numbered(p, n - 1)
    BY <1>8, <2>3 DEF TriesBefore, Numbered
  <2> QED
    BY <2>2, <2>4
<1> QED
  BY <1>4, <1>6, <1>7, <1>8 DEF DriverMoves, Idle

LEMMA CeilingStep ==
  ASSUME Ceiling, Next
  PROVE  Ceiling'
<1>1. Scoped /\ Said /\ Typed /\ Evidence
  BY DEF Ceiling, Scoped, Evidence
<1>2. Grows /\ BrokerMoves /\ AttemptMoves
  BY <1>1, TypedStep, BrokerStep, AttemptStep
<1>3. Scoped'
  BY <1>1, ScopedStep
<1>4. Consecutive' /\ FirstDispatches'
  BY <1>2, ConsecutiveStep
<1>5. Said'
  BY <1>1, <1>2, SaidStep
<1>6. Counted'
  BY CountedStep
<1> QED
  BY <1>3, <1>4, <1>5, <1>6 DEF Ceiling

LEMMA CeilingStutter ==
  ASSUME Ceiling, UNCHANGED vars
  PROVE  Ceiling'
<1>1. UNCHANGED <<records, broker, turn, answers, steered, queued, driver, ended>>
  BY DEF vars
<1>2. Scoped'
  BY ScopedStutter DEF Ceiling
<1>3. Consecutive' /\ FirstDispatches' /\ Said'
  BY <1>1 DEF Ceiling, Consecutive, Numbered, FirstDispatches, Said
<1>4. Counted'
  BY <1>1 DEF Ceiling, Counted, Measuring, Numbered, TriesBefore, AnsweredOrdinal
<1> QED
  BY <1>2, <1>3, <1>4 DEF Ceiling

LEMMA CeilingAlways == Spec => []Ceiling
<1>1. Init => Ceiling
  <2> SUFFICES ASSUME Init PROVE Ceiling
    OBVIOUS
  <2>1. Scoped
    BY ScopedInitially
  <2>2. /\ broker.dispatches = {} /\ \A d \in Dispatch : records.attempts[d] = "unknown"
        /\ \A x \in Driver : driver[x] = Idle
    BY DEF Init, BrokerInit, RecordsInit
  <2> QED
    BY <2>1, <2>2 DEF Ceiling, Consecutive, FirstDispatches, Said, Counted, Measuring,
                      Of, OfPhase, Idle
<1>2. Ceiling /\ [Next]_vars => Ceiling'
  BY CeilingStep, CeilingStutter
<1> QED
  BY <1>1, <1>2, PTL DEF Spec

\* At most one driver moves in a step.
LEMMA OneMoves ==
  ASSUME Typed, Next, NEW x \in Driver, NEW y \in Driver, x # y
  PROVE  driver'[x] = driver[x] \/ driver'[y] = driver[y]
<1>1. CASE \E z \in Driver : DriverStep(z)
  BY <1>1, OthersMoveNot
<1>2. CASE ~ \E z \in Driver : DriverStep(z)
  BY <1>2 DEF Next, StartAgent, StartByHand, AgentHandsIn, AgentAsks, AgentReturns,
              BridgeAccepts, ExecuteCompletion, Steer, Answer, DecideCandidate
<1> QED
  BY <1>1, <1>2

\* Who registers a dispatch, and why, seen from the driver that opens it.
LEMMA OpeningRegisters ==
  ASSUME Typed, Next, NEW x \in Driver,
         NEW d \in broker'.dispatches \ broker.dispatches,
         driver'[x].at = "opening", driver'[x].dispatch = d
  PROVE  /\ d \in Dispatch /\ Registers(d)
         /\ \/ First(d)
            \/ /\ \E b \in Dispatch : Again(d, b)
               /\ driver'[x].carries = {} => Tries(d.task) < MaxAttempts[records.phase]
            \/ Retried(x, d) /\ Retries(driver[x])
<1>1. PICK y \in Driver, e \in Dispatch :
        /\ Registers(e) /\ driver'[y].at = "opening" /\ driver'[y].dispatch = e
        /\ \/ First(e)
           \/ /\ \E b \in Dispatch : Again(e, b)
              /\ driver'[y].carries = {} => Tries(e.task) < MaxAttempts[records.phase]
           \/ Retried(y, e) /\ Retries(driver[y])
  BY BrokerStep DEF BrokerMoves, SameScopes
<1>2. e = d
  BY <1>1, RegisteredScopes
<1>3. ASSUME NEW z \in Driver, driver'[z] = driver[z], driver'[z].at = "opening",
             driver'[z].dispatch = d
      PROVE  FALSE
  BY <1>3, DriverFields
<1>4. y = x
  BY <1>1, <1>2, <1>3, OneMoves
<1> QED
  BY <1>1, <1>2, <1>4

\* An attempt that carries no answer is dispatched only for a task with fewer
\* tries on record than its phase allows, though the driver that retries after
\* a red gate or a person's rejection counted them before it awaited the
\* sensors: no ordinal below the one it took then is ever taken again.
THEOREM TriesStayWithinTheCeiling == Spec => TriesWithinCeiling
<1> DEFINE Tried(d) == {e \in Of(broker, d.task) :
                          /\ e.ordinal > AnsweredOrdinal(d.task)
                          /\ <<e, "suspended">> \notin records.said}
           Kept == \A x \in Driver, d \in broker'.dispatches \ broker.dispatches :
             (driver'[x].at = "opening" /\ driver'[x].dispatch = d
                /\ driver'[x].carries = {} /\ Of(broker, d.task) # {}) =>
               Cardinality(Tried(d)) < MaxAttempts[PhaseOf(d.task)]
<1>1. ASSUME Ceiling, Next, NEW x \in Driver,
             NEW d \in broker'.dispatches \ broker.dispatches,
             driver'[x].at = "opening", driver'[x].dispatch = d,
             driver'[x].carries = {}, Of(broker, d.task) # {}
      PROVE  Cardinality(Tried(d)) < MaxAttempts[PhaseOf(d.task)]
  <2>1. /\ Typed /\ BrokerOK /\ HolderIsNewest /\ Said /\ Counted
        /\ records.phase \in Phase
    BY <1>1 DEF Ceiling, Scoped, Evidence, Typed, RecordsType
  <2>2. /\ d \in Dispatch /\ Registers(d)
        /\ \/ First(d)
           \/ /\ \E b \in Dispatch : Again(d, b)
              /\ Tries(d.task) < MaxAttempts[records.phase]
           \/ Retried(x, d) /\ Retries(driver[x])
    BY <1>1, <2>1, OpeningRegisters
  <2>3. d.task \in Task /\ d.ordinal \in Nat
    BY <2>2, DispatchFields
  <2>4. \A p \in Phase : MaxAttempts[p] \in Nat
    BY DriverAssumption
  <2>5. ASSUME NEW S, IsFiniteSet(S), Tried(d) \subseteq S, NEW p \in Phase,
               NEW n \in Nat, Cardinality(S) <= n, n < MaxAttempts[p]
        PROVE  Cardinality(Tried(d)) < MaxAttempts[p]
    <3>1. IsFiniteSet(Tried(d)) /\ Cardinality(Tried(d)) <= Cardinality(S)
      BY <2>5, FS_Subset
    <3>2. Cardinality(Tried(d)) \in Nat /\ Cardinality(S) \in Nat
      BY <2>5, <3>1, FS_CardinalityType
    <3> QED
      BY <2>4, <2>5, <3>1, <3>2
  <2>6. ~First(d)
    <3> SUFFICES ASSUME First(d) PROVE FALSE
      OBVIOUS
    <3> DEFINE members == Members[records.phase]
               i == Min({j \in DOMAIN members : members[j] \in Untouched})
    <3>1. Untouched # {} /\ d.task = members[i]
      BY DEF First
    <3>2. members[i] \in Untouched
      BY <2>1, <3>1, FirstMemberIs
    <3> QED
      BY <1>1, <3>1, <3>2 DEF Untouched
  <2>7. ASSUME NEW b \in Dispatch, Again(d, b), Tries(d.task) < MaxAttempts[records.phase]
        PROVE  Cardinality(Tried(d)) < MaxAttempts[PhaseOf(d.task)]
    <3>1. PhaseOf(d.task) = records.phase
      <4>1. Untouched = {} /\ b = Business(records.phase) /\ d.task = b.task
        BY <2>7 DEF Again, After
      <4>2. b.task \in Tasks(records.phase)
        BY <2>1, <4>1, BusinessIs
      <4> QED
        BY <2>1, <4>1, <4>2, OnePhaseEach
    <3>2. Tried(d) \subseteq TriesOf(d.task)
      <4>1. \A e \in Of(broker, d.task) : e \in Dispatch
        BY <2>1, BrokerFields DEF Of
      <4> QED
        BY <2>1, <4>1 DEF TriesOf, Said
    <3>3. /\ IsFiniteSet(TriesOf(d.task)) /\ Tries(d.task) = Cardinality(TriesOf(d.task))
          /\ Tries(d.task) \in Nat
      BY <2>1, TriesTyped, DispatchFields DEF Tries
    <3> HIDE DEF Tried
    <3> QED
      BY <2>1, <2>5, <2>7, <3>1, <3>2, <3>3
  <2>8. ASSUME Retried(x, d), Retries(driver[x])
        PROVE  Cardinality(Tried(d)) < MaxAttempts[PhaseOf(d.task)]
    <3> DEFINE n == driver[x].next
               k == driver[x].tries
    <3>1. /\ Measuring(x) /\ d.task = driver[x].dispatch.task /\ d.ordinal = n
      BY <2>8 DEF Retried, RetryOf, Measuring
    <3>2. /\ driver[x].phase \in Phase /\ d.task \in Tasks(driver[x].phase)
          /\ n \in Nat /\ k \in Nat
      BY <2>1, <3>1, DriverFields, DispatchFields DEF Measuring
    <3>3. PhaseOf(d.task) = driver[x].phase
      BY <3>2, OnePhaseEach
    <3>4. Cardinality(TriesBefore(d.task, n)) <= k
      BY <2>1, <3>1 DEF Counted
    <3>5. k < MaxAttempts[driver[x].phase]
      BY <2>8 DEF Retries
    <3>6. Tried(d) \subseteq TriesBefore(d.task, n)
      <4> SUFFICES ASSUME NEW e \in Of(broker, d.task) PROVE e.ordinal < n
        BY DEF TriesBefore
      <4>1. e.ordinal <= broker.holder[d.task] /\ broker.holder[d.task] < d.ordinal
        BY <2>1, <2>2, <2>3, RegisteredScopes DEF HolderIsNewest
      <4>2. e \in Dispatch
        BY <2>1, BrokerFields DEF Of
      <4>3. e.ordinal \in Nat /\ broker.holder[d.task] \in Nat
        BY <2>1, <2>3, <4>2, DispatchFields, BrokerFields
      <4> QED
        BY <2>3, <3>1, <4>1, <4>3
    <3>7. IsFiniteSet(TriesBefore(d.task, n))
      <4>1. TriesBefore(d.task, n) \in SUBSET Of(broker, d.task)
        BY DEF TriesBefore
      <4> QED
        BY <2>1, <4>1, TriesTyped, FS_Subset
    <3> HIDE DEF n, k, Tried
    <3> QED
      BY <2>5, <3>2, <3>3, <3>4, <3>5, <3>6, <3>7
  <2> QED
    BY <2>2, <2>6, <2>7, <2>8
<1>2. Ceiling /\ [Next]_vars => [Kept]_vars
  BY <1>1
<1> QED
  BY <1>2, CeilingAlways, PTL DEF Spec, TriesWithinCeiling

----------------------------------------------------------------------------
(* What else follows                                                        *)

\* A phase that has closed keeps the evidence it closed on: drivers that
\* interleave, delayed commands and later gates never close it anew
\* (RuntimeAuthority.closePhase, startPhaseAttempt).
THEOREM ClosuresAreFinal ==
  Spec => [][\A p \in Phase :
               records.closure[p] # NoDigest => records'.closure[p] = records.closure[p]]_vars
<1> DEFINE seen == <<records.phase, records.candidate, records.verdict = "accepted",
                     records.closure>>
           Final == \A p \in Phase :
                      records.closure[p] # NoDigest => records'.closure[p] = records.closure[p]
<1>1. Spec => [][Ledger!Next]_seen
  BY RunKeepsTheLedger, PTL DEF LedgerSpec, Ledger!Spec
<1>2. ASSUME Typed, [Ledger!Next]_seen PROVE Final
  <2>1. records.closure \in [Phase -> Digest]
    BY <1>2 DEF Typed, RecordsType
  <2>2. CASE UNCHANGED seen
    BY <2>2
  <2>3. CASE Ledger!Next
    <3>1. CASE records'.closure = records.closure
      BY <3>1
    <3>2. CASE Ledger!Close
      BY <2>1, <3>2 DEF Ledger!Close
    <3> QED
      BY <2>3, <3>1, <3>2 DEF Ledger!Next, Ledger!Judge, Ledger!Withdraw, Ledger!Advance
  <2> QED
    BY <1>2, <2>2, <2>3
<1>3. Typed /\ [Ledger!Next]_seen => [Final]_vars
  BY <1>2
<1> QED
  BY <1>1, <1>3, TypedAlways, PTL

\* The attempts of a phase are numbered without gaps, from one, although two
\* drivers may count at the same time (nextPhaseAttemptOrdinal and the primary
\* key of phase_attempts).
THEOREM OrdinalsAreConsecutive ==
  Spec => [](\A p \in Phase : \A d \in OfPhase(broker, p) :
               \A o \in 1 .. d.ordinal : \E e \in OfPhase(broker, p) : e.ordinal = o)
<1>1. Ceiling => \A p \in Phase : \A d \in OfPhase(broker, p) :
                   \A o \in 1 .. d.ordinal : \E e \in OfPhase(broker, p) : e.ordinal = o
  BY DEF Ceiling, Consecutive, Numbered
<1> QED
  BY <1>1, CeilingAlways, PTL

\* Work that was handed in is not taken from its attempt: another one may hold
\* the task only when work on it was accepted (newestTryOf and the scheduler
\* read what ContextBroker.admitSubmission recorded).
THEOREM HandedWorkKeepsItsTask ==
  Spec => [](\A d \in broker.handed : Stale(broker, d) => Accepted(records, d.task))
<1>1. Scoped => \A d \in broker.handed : Stale(broker, d) => Accepted(records, d.task)
  BY DEF Scoped, Superseded
<1> QED
  BY <1>1, ScopedAlways, PTL
=============================================================================
