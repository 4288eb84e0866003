\* A worker's turn and a workspace effect compete for one writer slot under
\* two incarnations; money is ample.
SPECIFICATION Spec
CONSTANTS
  p1 = p1
  p2 = p2
  t1 = t1
  t2 = t2
  NoOwner = NoOwner
  Task = {t1, t2}
  Owner = {p1, p2}
  Op = {1, 2}
  WorkerOp = {1}
  WriterOp = {1, 2}
  TaskOf <- TwoTasks
  ContextTask = {t1}
  Amount <- UnitAmount
  InitialLimit = 2
  Ceiling = 2
  WriterLimit = 1
  MaxReconciliation = 1
  BatchSize = 2
  FailurePolicy = "none"
  AmendedTask = {}
  TimedOp = {}
  QuietFence = 1
  GrantSizes = {}
SYMMETRY Incarnations
INVARIANTS TypeOK ReservationsMatchOpenIntents WithinLimits
CHECK_DEADLOCK FALSE
