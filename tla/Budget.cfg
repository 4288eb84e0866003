\* Two worker turns that do not fit the budget together: escalations, grants
\* and early settlements under two incarnations.
SPECIFICATION Spec
CONSTANTS
  p1 = p1
  p2 = p2
  t1 = t1
  t2 = t2
  NoOwner = NoOwner
  Task = {t1, t2}
  Owner = {p1, p2}
  Op = {1, 2}
  WorkerOp = {1, 2}
  WriterOp = {1, 2}
  TaskOf <- TwoTasks
  ContextTask = {t1}
  Amount <- MixedAmount
  InitialLimit = 2
  Ceiling = 3
  WriterLimit = 2
  MaxReconciliation = 1
  BatchSize = 2
  FailurePolicy = "none"
  AmendedTask = {}
  TimedOp = {}
  QuietFence = 1
  GrantSizes = {1}
SYMMETRY Incarnations
INVARIANTS WithinLimits
PROPERTIES LedgerSpec
CHECK_DEADLOCK FALSE
