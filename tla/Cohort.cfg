\* One undisturbed incarnation drives a batch of two worker turns to the end
\* under fail-fast: a failing turn aborts its sibling and fences both tasks.
SPECIFICATION FairSpec
CONSTANTS
  p1 = p1
  p2 = p2
  t1 = t1
  t2 = t2
  NoOwner = NoOwner
  Task = {t1, t2}
  Owner = {p1}
  Op = {1, 2}
  WorkerOp = {1, 2}
  WriterOp = {1, 2}
  TaskOf <- TwoTasks
  ContextTask = {}
  Amount <- UnitAmount
  InitialLimit = 2
  Ceiling = 2
  WriterLimit = 2
  MaxReconciliation = 1
  BatchSize = 2
  FailurePolicy = "fail-fast"
  AmendedTask = {}
  TimedOp = {}
  QuietFence = 0
  GrantSizes = {}
INVARIANTS EndingIsOrderly
PROPERTIES EndingRunEnds FailuresFenceTheirTask
CHECK_DEADLOCK FALSE
