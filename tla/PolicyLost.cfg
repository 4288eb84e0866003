\* An incarnation dies between committing a failure and fencing its task.
SPECIFICATION FairSpec
CONSTANTS
  p1 = p1
  p2 = p2
  t1 = t1
  t2 = t2
  NoOwner = NoOwner
  Task = {t1}
  Owner = {p1, p2}
  Op = {1}
  WorkerOp = {1}
  WriterOp = {1}
  TaskOf <- OneTask
  ContextTask = {t1}
  Amount <- UnitAmount
  InitialLimit = 2
  Ceiling = 2
  WriterLimit = 2
  MaxReconciliation = 1
  BatchSize = 2
  FailurePolicy = "continue"
  AmendedTask = {}
  TimedOp = {}
  QuietFence = 2
  GrantSizes = {}
PROPERTIES FailuresFenceTheirTask
CHECK_DEADLOCK FALSE
