---------------------------- MODULE PhaseLedger -----------------------------
(***************************************************************************)
(* What a run promises about its phases: they are taken in order; a phase  *)
(* is judged on the work of all its tasks; work judged good stays what it  *)
(* is, and only the judgement of bad work is ever withdrawn; a phase       *)
(* closes once, on work judged good, and the next begins only then.        *)
(***************************************************************************)
EXTENDS Naturals

CONSTANTS Phase, Evidence, NoEvidence

VARIABLES
  phase,   \* the current one
  judged,  \* the evidence it is judged on
  good,    \* whether the judgement is favourable
  closed   \* per phase, the evidence it closed on

Init ==
  /\ phase = 1
  /\ judged = NoEvidence /\ good = FALSE
  /\ closed = [p \in Phase |-> NoEvidence]

Judge(e, g) ==
  /\ judged = NoEvidence /\ closed[phase] = NoEvidence
  /\ judged' = e /\ good' = g
  /\ UNCHANGED <<phase, closed>>

Withdraw ==
  /\ judged # NoEvidence /\ ~good
  /\ judged' = NoEvidence
  /\ UNCHANGED <<phase, good, closed>>

Close ==
  /\ good /\ closed[phase] = NoEvidence
  /\ closed' = [closed EXCEPT ![phase] = judged]
  /\ UNCHANGED <<phase, judged, good>>

Advance ==
  /\ closed[phase] # NoEvidence
  /\ phase + 1 \in Phase
  /\ phase' = phase + 1
  /\ judged' = NoEvidence /\ good' = FALSE
  /\ UNCHANGED closed

Next ==
  \/ \E e \in Evidence, g \in BOOLEAN : Judge(e, g)
  \/ Withdraw \/ Close \/ Advance

Spec == Init /\ [][Next]_<<phase, judged, good, closed>>
=============================================================================
