---------------------------- MODULE MCIntegration ----------------------------
(***************************************************************************)
(* Instances of Integration for TLC.                                       *)
(***************************************************************************)
EXTENDS Integration

CONSTANTS d1, d2

\* One attempt of each run.
TwoAttempts == {<<1, 1>>, <<2, 1>>}
=============================================================================
