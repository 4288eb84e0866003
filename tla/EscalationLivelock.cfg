\* An escalated request is planned while the room it waits for is reserved.
SPECIFICATION FairSpec
CONSTANTS
  p1 = p1
  p2 = p2
  t1 = t1
  t2 = t2
  NoOwner = NoOwner
  Task = {t1, t2}
  Owner = {p1}
  Op = {1, 2}
  WorkerOp = {1, 2}
  WriterOp = {1, 2}
  TaskOf <- TwoTasks
  ContextTask = {t1}
  Amount <- UnitAmount
  InitialLimit = 1
  Ceiling = 2
  WriterLimit = 2
  MaxReconciliation = 1
  BatchSize = 2
  FailurePolicy = "none"
  AmendedTask = {}
  TimedOp = {}
  QuietFence = 0
  GrantSizes = {}
PROPERTIES RequestsWithRoomStart
CHECK_DEADLOCK FALSE
