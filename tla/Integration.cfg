\* Two runs of one repository, two incarnations of the daemon.
SPECIFICATION Spec
CONSTANTS
  Run = {1, 2}
  Service = {d1, d2}
  d1 = d1
  d2 = d2
  NoService = NoService
  Attempt <- TwoAttempts
  MaxReconciliation = 1
  Endable = {2}
  Faulty = {d1}
  HangsIn = {"publish"}
  QuietFence = 1
INVARIANTS TypeOK GatedBeforePublished OneIntegrationAtATime TrustedAgrees CompletionAfterIntegration
PROPERTIES OnlyUnderTheSlot LedgerSpec
CHECK_DEADLOCK FALSE
