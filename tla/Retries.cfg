\* A daemon that stays up, beside a direct recovery that may die with the lease.
SPECIFICATION Spec
CONSTANTS
  c1 = c1
  c2 = c2
  c3 = c3
  Command = {c1, c2}
  Run = {1}
  RunOf <- ThreeCommands
  Owner = {d1, x}
  Daemon = {d1}
  Direct = {x}
  NoOwner = NoOwner
  NoCommand = NoCommand
  Bridged = {c2}
  Working = {}
  CycleLimit = 2
  MaxFailures = 1

PROPERTIES WokenServiceAnswers DrainEnds
CHECK_DEADLOCK FALSE
