\* Two incarnations take one worker's turn over from each other: leases run
\* out under a live cycle, incarnations die, the task is fenced, a deadline
\* passes, the run is paused and ended.  It may stop once all is settled.
SPECIFICATION FairSpec
CONSTANTS
  p1 = p1
  p2 = p2
  t1 = t1
  t2 = t2
  NoOwner = NoOwner
  Task = {t1}
  Owner = {p1, p2}
  Op = {1}
  WorkerOp = {1}
  WriterOp = {1}
  TaskOf <- OneTask
  ContextTask = {}
  Amount <- UnitAmount
  InitialLimit = 2
  Ceiling = 2
  WriterLimit = 2
  MaxReconciliation = 1
  BatchSize = 2
  FailurePolicy = "none"
  AmendedTask = {t1}
  TimedOp = {1}
  QuietFence = 1
  GrantSizes = {}
INVARIANTS WorkersStartOnce ClaimsFollowLease MemoryAgrees FencedEffectsAreCancelled
PROPERTIES OutcomesAdvance FreshResultsPrecedeFences EveryEffectSettles
CHECK_DEADLOCK FALSE
