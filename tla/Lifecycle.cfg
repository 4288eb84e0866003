\* Two phases of one task each, two daemons that both believe they drive.
SPECIFICATION Spec
CONSTANTS
  a = a
  b = b
  d1 = d1
  d2 = d2
  Driver = {d1, d2}
  Daemon = {d1, d2}
  Members <- OneThenOne
  Approval = {2}
  MaxOrdinal = 3
  MaxAttempts <- OnceThenTwice
  Iterates = {1, 2}
  Escalates = {2}
  MayAsk <- FirstOfB
  MaySteer <- FirstOfB
  ByHand <- FirstOfB
  Missed <- FirstOfB
  MayDrive <- Both
  MayStop = {"closing", "starting", "carrying"}
INVARIANTS TypeOK ClosedOnItsEvidence AnswersGoForward EndedIsComplete
PROPERTIES TriesWithinCeiling TurnsAreNotTaken LedgerSpec
CHECK_DEADLOCK FALSE
SYMMETRY Drivers
