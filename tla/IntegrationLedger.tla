-------------------------- MODULE IntegrationLedger --------------------------
(***************************************************************************)
(* What the integration of runs onto one branch promises: commits are only *)
(* ever added; an attempt's commit follows the commit its run began from,  *)
(* and a run has at most one; an attempt is accepted after its commit is   *)
(* there; and one that was given up has no commit, then or later.          *)
(***************************************************************************)
EXTENDS SequencesExt

CONSTANTS Run, Attempt, NoAttempt

VARIABLES
  base,      \* per run: the commit it began from
  branch,    \* the commits, oldest first
  accepted,  \* attempts whose work counts as integrated
  dropped    \* attempts given up

\* Attempts of one run.
Siblings(a) == {b \in Attempt : b[1] = a[1]}
On(a) == a \in Range(branch)

Init ==
  /\ base = [r \in Run |-> NoAttempt]
  /\ Len(branch) = 1 /\ ~\E a \in Attempt : On(a)
  /\ accepted = {} /\ dropped = {}

Begin(r) ==
  /\ base[r] = NoAttempt
  /\ base' = [base EXCEPT ![r] = Last(branch)]
  /\ UNCHANGED <<branch, accepted, dropped>>

Integrate(a) ==
  /\ a \notin dropped
  /\ \A b \in Siblings(a) : ~On(b)
  /\ Last(branch) = base[a[1]]
  /\ branch' = Append(branch, a)
  /\ UNCHANGED <<base, accepted, dropped>>

Accept(a) ==
  /\ On(a)
  /\ accepted' = accepted \cup {a}
  /\ UNCHANGED <<base, branch, dropped>>

Drop(a) ==
  /\ ~On(a)
  /\ dropped' = dropped \cup {a}
  /\ UNCHANGED <<base, branch, accepted>>

Next ==
  \/ \E r \in Run : Begin(r)
  \/ \E a \in Attempt : Integrate(a) \/ Accept(a) \/ Drop(a)

Spec == Init /\ [][Next]_<<base, branch, accepted, dropped>>
=============================================================================
