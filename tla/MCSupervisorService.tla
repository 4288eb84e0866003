------------------------ MODULE MCSupervisorService ------------------------
(***************************************************************************)
(* Instances of SupervisorService for TLC: two runs, of which the first    *)
(* has two commands.                                                       *)
(***************************************************************************)
EXTENDS SupervisorService, TLC

CONSTANTS c1, c2, c3

\* The first two commands are for run 1, the third for run 2.
ThreeCommands == [c \in Command |-> IF c = c3 THEN 2 ELSE 1]
=============================================================================
