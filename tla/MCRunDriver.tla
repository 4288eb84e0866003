---------------------------- MODULE MCRunDriver -----------------------------
(***************************************************************************)
(* Instances of RunDriver for TLC.                                         *)
(***************************************************************************)
EXTENDS RunDriver

CONSTANTS a, b, d1, d2

OneThenOne == <<<<a>>, <<b>>>>
OnceThenTwice == <<1, 2>>
Both == [x \in Driver |-> Phase]
FirstOfB == {[task |-> b, ordinal |-> 1]}
Drivers == Permutations(Driver)
=============================================================================
