--------------------------- MODULE MCFencedRunner ---------------------------
(***************************************************************************)
(* Instances of FencedRunner for TLC.  Operation 1 is a worker's turn; the *)
(* others are worker turns or workspace effects as the cfg file says.      *)
(***************************************************************************)
EXTENDS FencedRunner, TLC

CONSTANTS p1, p2, t1, t2

\* The operations of two tasks, and of one.
TwoTasks == [o \in Op |-> IF o = 1 THEN t1 ELSE t2]
OneTask == [o \in Op |-> t1]

\* Every operation reserves one unit, as the production scheduler does.
UnitAmount == [o \in Op |-> 1]

\* Operation 2 reserves two units and may use fewer.
MixedAmount == [o \in Op |-> IF o = 1 THEN 1 ELSE 2]

\* The incarnations of the supervisor are interchangeable in safety runs.
Incarnations == Permutations({p1, p2})
=============================================================================
