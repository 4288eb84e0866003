\* end-run on a run with a task scope the context broker registered.
SPECIFICATION Spec
CONSTANTS
  p1 = p1
  p2 = p2
  t1 = t1
  t2 = t2
  NoOwner = NoOwner
  Task = {t1}
  Owner = {p1, p2}
  Op = {1}
  WorkerOp = {1}
  WriterOp = {1}
  TaskOf <- OneTask
  ContextTask = {t1}
  Amount <- UnitAmount
  InitialLimit = 2
  Ceiling = 2
  WriterLimit = 2
  MaxReconciliation = 1
  BatchSize = 2
  FailurePolicy = "none"
  AmendedTask = {}
  TimedOp = {}
  QuietFence = 0
  GrantSizes = {}
SYMMETRY Incarnations
INVARIANTS EndRunCommits
CHECK_DEADLOCK FALSE
