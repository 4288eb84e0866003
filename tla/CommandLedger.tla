--------------------------- MODULE CommandLedger ---------------------------
(***************************************************************************)
(* What the supervisor promises to whoever submits a command: an accepted  *)
(* command is executed once, and answered once, after it was executed.     *)
(* Nothing is forgotten: queues, claims, wakes, leases, restarts of the    *)
(* service and recoveries run beside it are how SupervisorService keeps    *)
(* the promise, and none of their business here.                           *)
(***************************************************************************)
CONSTANT Command

VARIABLE ledger  \* per command: how far it has got

Progress == {"unknown", "accepted", "executed", "answered"}

Init == ledger = [c \in Command |-> "unknown"]

Advance(c, from, to) ==
  /\ ledger[c] = from
  /\ ledger' = [ledger EXCEPT ![c] = to]

Accept(c) == Advance(c, "unknown", "accepted")
Execute(c) == Advance(c, "accepted", "executed")
Answer(c) == Advance(c, "executed", "answered")

Next == \E c \in Command : Accept(c) \/ Execute(c) \/ Answer(c)

Spec == Init /\ [][Next]_ledger
=============================================================================
