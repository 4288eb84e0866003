\* Two incarnations of the daemon and a direct recovery serve one run.
SPECIFICATION Spec
CONSTANTS
  c1 = c1
  c2 = c2
  c3 = c3
  Command = {c1, c2}
  Run = {1}
  RunOf <- ThreeCommands
  Owner = {d1, d2, x}
  Daemon = {d1, d2}
  Direct = {x}
  NoOwner = NoOwner
  NoCommand = NoCommand
  Bridged = {c2}
  Working = {c1}
  CycleLimit = 2
  MaxFailures = 1
INVARIANTS TypeOK AcknowledgedMeansDone ReceiptsTellHistory TakenInOrder DrainedIsStill
PROPERTIES OnlyTheHolderAnswers LedgerSpec
CHECK_DEADLOCK FALSE
